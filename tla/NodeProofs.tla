------------------------------ MODULE NodeProofs ------------------------------
(***************************************************************************)
(* What one automaton of a tree does in a step that a rule takes, in every *)
(* tree: the facts that CompositionProofs puts together.                   *)
(*                                                                         *)
(* For a spare gate, SpareMoves says whose claims it may change.  For any  *)
(* node, Effect says what a step does to what the node has heard and said: *)
(* it takes the news of its label and no other, or it is the step to the   *)
(* impossible state (NodeStep).  A node in that state stays there.         *)
(* StaysFit says what keeps a node out of it: the node fits and the label  *)
(* is welcome, and then what the node itself says is in order.             *)
(*                                                                         *)
(* The limits that the tree's operators compute (who is always active, who *)
(* is repairable, what a set of events brings down) are the last of chains *)
(* of sets of nodes; ChainStops says that such a chain gets no further.    *)
(***************************************************************************)
EXTENDS Composition, FiniteSetTheorems, WellFoundedInduction, TLAPS

-----------------------------------------------------------------------------
(* The tree. *)

Kids(n)   == 1..Len(Children(n))
Places(n) == 0..Len(Children(n))
\* The gates by their types.
Spares  == OfType("wsp")
Votings == OfType("voting")
PAnds   == OfType("pand")
FDeps   == OfType("fdep")

\* A spare gate is a node of the tree with children that are nodes.
LEMMA SpareIsNode ==
  ASSUME NEW g \in Spares
  PROVE  /\ g \in Nodes /\ g # toplevel /\ tree[g].type = "wsp"
         /\ Children(g) \in Seq(Nodes) /\ 1 \in Kids(g)
<1>1. g \in Nodes /\ tree[g].type = "wsp" /\ DOMAIN tree = 1..Len(tree)
  BY TreeAssumption DEF Spares, OfType
<1>2. Children(g) \in Seq(Nodes) /\ Children(g) # <<>>
  BY <1>1, TreeAssumption
<1>3. QED  BY <1>1, <1>2 DEF Nodes, toplevel, Kids

\* A child is at one place among the children.
LEMMA ChildHasOnePlace ==
  ASSUME NEW g \in Nodes, NEW i \in Kids(g)
  PROVE  /\ Children(g)[i] \in ChildrenOf(g)
         /\ \A c : Children(g)[i] = c <=> c \in ChildrenOf(g) /\ LocalID(g, c) = i
<1> DEFINE f == Children(g)
           S == ChildrenOf(g)
<1>1. f \in Seq(Nodes) /\ Cardinality(S) = Len(f) /\ Len(f) \in Nat
  BY TreeAssumption
<1>2. S = {f[j] : j \in DOMAIN f} /\ DOMAIN f = Kids(g)
  <2>1. S = {f[j] : j \in DOMAIN f}
    BY Zenon DEF ChildrenOf, Children, Range
  <2>2. DOMAIN f = Kids(g)
    BY <1>1 DEF Kids
  <2>3. QED  BY <2>1, <2>2, Zenon
<1>3. f \in [Kids(g) -> S]
  <2>1. f \in [Kids(g) -> Nodes]
    BY <1>1 DEF Kids
  <2> HIDE DEF f, S
  <2>2. QED  BY <1>2, <2>1
<1>4. f \in Surjection(Kids(g), S)
  BY <1>2, <1>3 DEF Surjection
<1>5. IsFiniteSet(Kids(g)) /\ Cardinality(Kids(g)) = Len(f)
  BY <1>1, FS_Interval DEF Kids
<1>6. f \in Injection(Kids(g), S)
  <2>1. Cardinality(Kids(g)) = Cardinality(S)
    BY <1>1, <1>5
  <2>2. QED  BY <1>4, <1>5, <2>1, FS_SurjSameCardinalityImpliesInj
<1>7. \A j, k \in Kids(g) : f[j] = f[k] => j = k
  BY <1>6 DEF Injection, IsInjective
<1>8. \A c \in S : LocalID(g, c) \in Kids(g) /\ f[LocalID(g, c)] = c
  BY <1>2 DEF LocalID
<1> HIDE DEF f, S
<1>9. f[i] \in S /\ \A c : f[i] = c <=> c \in S /\ LocalID(g, c) = i
  BY <1>2, <1>7, <1>8
<1>10. QED  BY <1>9 DEF f, S

\* A gate is a node of the tree with children that are nodes.
LEMMA GateIsNode ==
  ASSUME NEW g \in Gates
  PROVE  /\ g \in Nodes /\ g # toplevel /\ tree[g].type # "be"
         /\ Children(g) \in Seq(Nodes) /\ 1 \in Kids(g)
<1>1. g \in Nodes /\ tree[g].type # "be" /\ DOMAIN tree = 1..Len(tree)
  BY TreeAssumption DEF Gates, BasicEvents, OfType
<1>2. Children(g) \in Seq(Nodes) /\ Children(g) # <<>>
  BY <1>1, TreeAssumption
<1>3. QED  BY <1>1, <1>2 DEF Nodes, toplevel, Kids

\* The types of the nodes.
LEMMA KindsOfNodes ==
  /\ Nodes = BasicEvents \cup Gates
  /\ Gates = OfType("voting") \cup OfType("pand") \cup Spares \cup OfType("fdep")
  /\ BasicEvents \cap Gates = {} /\ toplevel \notin Nodes
<1>1. DOMAIN tree = 1..Len(tree)
  BY TreeAssumption
<1>2. QED  BY <1>1, NodeAssumption DEF Nodes, BasicEvents, Gates, OfType, Spares, toplevel

\* The least of some natural numbers.
LEMMA LeastNumber ==
  ASSUME NEW S \in SUBSET Nat, S # {}
  PROVE  \E i \in S : \A j \in S : i <= j
<1>1. PICK i \in S : \A j \in S : <<j, i>> \notin OpToRel(<, Nat)
  BY NatLessThanWellFounded, WFMin
<1>2. \A j \in S : ~(j < i)
  BY <1>1 DEF OpToRel
<1>3. QED  BY <1>2

\* There are finitely many nodes, and children are among them.
LEMMA NodesAreFinite ==
  /\ IsFiniteSet(Nodes) /\ Cardinality(Nodes) \in Nat
  /\ \A n \in Nodes : ChildrenOf(n) \in SUBSET Nodes /\ IsFiniteSet(ChildrenOf(n))
<1>1. Nodes = 1..Len(tree) /\ Len(tree) \in Nat
  BY TreeAssumption DEF Nodes
<1>2. IsFiniteSet(Nodes) /\ Cardinality(Nodes) \in Nat
  BY <1>1, FS_Interval, FS_CardinalityType
<1>3. \A n \in Nodes : ChildrenOf(n) \in SUBSET Nodes
  <2>1. SUFFICES ASSUME NEW n \in Nodes  PROVE  ChildrenOf(n) \in SUBSET Nodes
    OBVIOUS
  <2>2. Children(n) \in Seq(Nodes)
    BY TreeAssumption
  <2>3. \A c \in ChildrenOf(n) : \E i \in DOMAIN Children(n) : c = Children(n)[i]
    BY Zenon DEF ChildrenOf, Children, Range
  <2>4. QED  BY <2>2, <2>3
<1>4. QED  BY <1>2, <1>3, FS_Subset

\* Setting the flag of a child raises the number of children set by one, and
\* clearing it lowers it; the code moves a counter along with the flags.
LEMMA FlagCounts ==
  ASSUME NEW n \in Nat, NEW S \in SUBSET (1..n), NEW i \in 1..n
  PROVE  /\ Cardinality(S) \in Nat
         /\ i \notin S => Cardinality(S \cup {i}) = Cardinality(S) + 1
         /\ i \in S => /\ Cardinality(S \ {i}) = Cardinality(S) - 1
                      /\ Cardinality(S) - 1 \in Nat
<1>1. IsFiniteSet((1..n))
  BY FS_Interval, 1 \in Int, n \in Int
<1>2. IsFiniteSet(S) /\ Cardinality(S) \in Nat
  BY <1>1, FS_Subset, FS_CardinalityType
<1>3. ASSUME i \notin S  PROVE  Cardinality(S \cup {i}) = Cardinality(S) + 1
  BY <1>2, <1>3, FS_AddElement
<1>4. ASSUME i \in S
      PROVE  Cardinality(S \ {i}) = Cardinality(S) - 1 /\ Cardinality(S) # 0
  BY <1>2, <1>4, FS_RemoveElement, FS_EmptySet
<1>5. QED  BY <1>2, <1>3, <1>4

-----------------------------------------------------------------------------
(* Sets of nodes that grow to a limit. *)

\* F collects what m steps make of S.
IsChain(F, step, S, m) ==
  /\ F \in [0..m -> SUBSET Nodes]
  /\ F[0] = S /\ \A k \in 1..m : F[k] = step[F[k-1]]

\* There is such an F for every m: otherwise, consider the least m.
LEMMA ChainExists ==
  ASSUME NEW step \in [SUBSET Nodes -> SUBSET Nodes], NEW S \in SUBSET Nodes, NEW m \in Nat
  PROVE  \E F : IsChain(F, step, S, m)
<1> DEFINE Bad == {l \in Nat : ~ \E F : IsChain(F, step, S, l)}
<1>1. SUFFICES ASSUME Bad # {}  PROVE  FALSE
  OBVIOUS
<1>2. PICK l \in Bad : \A j \in Bad : l <= j
  <2> Bad \in SUBSET Nat
    OBVIOUS
  <2> HIDE DEF Bad
  <2> QED  BY <1>1, LeastNumber
<1>3. l # 0
  <2>1. IsChain([k \in 0..0 |-> S], step, S, 0)
    BY DEF IsChain
  <2>2. QED  BY <2>1
<1>4. PICK G : IsChain(G, step, S, l - 1)
  <2>1. l - 1 \in Nat /\ l - 1 \notin Bad
    BY <1>2, <1>3
  <2>2. QED  BY <2>1
<1> DEFINE F == [k \in 0..l |-> IF k = l THEN step[G[l-1]] ELSE G[k]]
<1>5. /\ l \in Nat /\ l # 0 /\ l - 1 \in 0..(l-1) /\ 0 \in 0..(l-1)
      /\ G \in [0..(l-1) -> SUBSET Nodes] /\ G[0] = S
      /\ \A k \in 1..(l-1) : G[k] = step[G[k-1]]
  BY <1>2, <1>3, <1>4 DEF IsChain
<1>6. F \in [0..l -> SUBSET Nodes] /\ F[0] = S
  BY <1>5
<1>7. \A k \in 1..l : F[k] = step[F[k-1]]
  <2>1. SUFFICES ASSUME NEW k \in 1..l  PROVE  F[k] = step[F[k-1]]
    OBVIOUS
  <2>2. k - 1 \in 0..l /\ k \in 0..l /\ k - 1 # l /\ F[k-1] = G[k-1]
    BY <1>5
  <2>3. CASE k = l
    BY <2>2, <2>3
  <2>4. CASE k # l
    <3>1. k \in 1..(l-1) /\ F[k] = G[k]
      BY <1>5, <2>2, <2>4
    <3> HIDE DEF F
    <3>2. QED  BY <1>5, <2>2, <3>1
  <2>5. QED  BY <2>3, <2>4
<1> HIDE DEF F
<1>8. IsChain(F, step, S, l)
  BY <1>6, <1>7 DEF IsChain
<1>9. QED  BY <1>2, <1>8

\* What holds at first and is kept by every step holds all along a chain.
LEMMA ChainKeeps ==
  ASSUME NEW step, NEW S, NEW m \in Nat, NEW F, IsChain(F, step, S, m), NEW Q,
         NEW i \in 0..m, F[i] \in Q,
         \A k \in 1..m : F[k-1] \in Q => F[k] \in Q
  PROVE  \A k \in i..m : F[k] \in Q
<1> DEFINE Bad == {k \in i..m : F[k] \notin Q}
<1>1. SUFFICES ASSUME Bad # {}  PROVE  FALSE
  OBVIOUS
<1>2. PICK k \in Bad : \A j \in Bad : k <= j
  <2>1. Bad \in SUBSET Nat
    OBVIOUS
  <2> HIDE DEF Bad
  <2>2. QED  BY <1>1, <2>1, LeastNumber
<1>3. k \in i..m /\ F[k] \notin Q /\ k # i
  BY <1>2
<1>4. k - 1 \in i..m /\ k - 1 \notin Bad /\ k \in 1..m
  BY <1>2, <1>3
<1>5. QED  BY <1>3, <1>4

\* A chain whose steps only add nodes has ended when it has as many steps as
\* there are nodes: until then every step adds at least one.
LEMMA ChainStops ==
  ASSUME NEW step \in [SUBSET Nodes -> SUBSET Nodes], \A X \in SUBSET Nodes : X \subseteq step[X],
         NEW S, NEW F, IsChain(F, step, S, Cardinality(Nodes))
  PROVE  step[F[Cardinality(Nodes)]] = F[Cardinality(Nodes)]
<1> DEFINE N == Cardinality(Nodes)
<1>1. IsFiniteSet(Nodes) /\ N \in Nat
  BY NodesAreFinite
<1>2. IsChain(F, step, S, N)
  OBVIOUS
<1>3. SUFFICES ASSUME step[F[N]] # F[N]  PROVE  FALSE
  OBVIOUS
<1> HIDE DEF N
<1>4. /\ \A k \in 0..N : F[k] \in SUBSET Nodes
      /\ \A k \in 1..N : F[k] = step[F[k-1]]
  BY <1>2 DEF IsChain
<1>5. \A k \in 0..N : step[F[k]] # F[k]
  <2>1. SUFFICES ASSUME NEW i \in 0..N, step[F[i]] = F[i]  PROVE  FALSE
    OBVIOUS
  <2>2. \A k \in i..N : F[k] \in {F[i]}
    <3>1. \A k \in 1..N : F[k-1] \in {F[i]} => F[k] \in {F[i]}
      BY <1>4, <2>1
    <3>2. F[i] \in {F[i]}
      OBVIOUS
    <3>3. QED  BY <1>1, <1>2, <3>1, <3>2, ChainKeeps
  <2>3. F[N] = F[i]
    BY <1>1, <2>2
  <2>4. QED  BY <1>3, <2>1, <2>3
<1> DEFINE Bad == {k \in 0..N : ~(Cardinality(F[k]) >= k)}
<1>6. \A k \in 0..N : IsFiniteSet(F[k]) /\ Cardinality(F[k]) \in Nat
  BY <1>1, <1>4, FS_Subset, FS_CardinalityType
<1>7. Bad = {}
  <2>1. SUFFICES ASSUME Bad # {}  PROVE  FALSE
    OBVIOUS
  <2>2. PICK k \in Bad : \A j \in Bad : k <= j
    <3>1. Bad \in SUBSET Nat
      OBVIOUS
    <3> HIDE DEF Bad
    <3>2. QED  BY <2>1, <3>1, LeastNumber
  <2>3. k \in 0..N /\ ~(Cardinality(F[k]) >= k) /\ k # 0
    BY <1>6, <2>2
  <2>4. k - 1 \in 0..N /\ k \in 1..N /\ Cardinality(F[k-1]) >= k - 1
    <3>1. k - 1 \in 0..N /\ k \in 1..N /\ ~(k <= k - 1)
      BY <1>1, <2>3
    <3>2. k - 1 \notin Bad
      BY <2>2, <3>1
    <3>3. QED  BY <3>1, <3>2
  <2>5. F[k-1] \subseteq F[k] /\ F[k-1] # F[k]
    BY <1>4, <1>5, <2>4
  <2>6. PICK n \in F[k] : n \notin F[k-1]
    BY <2>5
  <2>7. Cardinality(F[k-1] \cup {n}) = Cardinality(F[k-1]) + 1
    BY <1>6, <2>4, <2>6, FS_AddElement
  <2>8. F[k-1] \cup {n} \subseteq F[k]
    BY <2>5
  <2>9. Cardinality(F[k-1] \cup {n}) <= Cardinality(F[k])
    BY <1>6, <2>3, <2>8, FS_Subset
  <2>10. QED  BY <1>6, <2>3, <2>4, <2>7, <2>9
<1>8. Cardinality(F[N]) >= N /\ F[N] \in SUBSET Nodes
  BY <1>1, <1>4, <1>7
<1>9. F[N] = Nodes
  <2>1. Cardinality(F[N]) = Cardinality(Nodes)
    <3>1. Cardinality(F[N]) <= Cardinality(Nodes) /\ Cardinality(F[N]) \in Nat
      BY <1>1, <1>8, FS_Subset, FS_CardinalityType
    <3>2. QED  BY <1>1, <1>8, <3>1 DEF N
  <2>2. QED  BY <1>1, <1>8, <2>1, FS_Subset
<1>10. N \in 0..N /\ step[F[N]] \in SUBSET Nodes /\ F[N] \subseteq step[F[N]]
  BY <1>1, <1>8
<1>11. QED  BY <1>3, <1>9, <1>10

-----------------------------------------------------------------------------
(* One spare automaton. *)

\* The values of its fields (spare.h).
SpareStates(g) ==
  [unfailed : SUBSET Kids(g), unclaimed : SUBSET Kids(g),
   repairing_deactivate : Places(g), cur_using : Places(g),
   prev_using : Places(g), done : BOOLEAN, activated : BOOLEAN,
   mode : {"live", "impossible", "terminated"}]

\* The children that are free for use.
Free(x) == x.unfailed \cap x.unclaimed

\* What add_transition leaves alone: an always-active gate uses its primary
\* whenever that is free, and does not release it.
Clean(g, x) ==
  g \in AlwaysActive =>
    x.prev_using # 1 /\ (x.cur_using = 1 \/ 1 \notin Free(x))

\* add_transition leaves a clean state alone.
LEMMA CleanSettles ==
  ASSUME NEW g \in Spares, NEW x \in SpareStates(g), Clean(g, x)
  PROVE  SpareAt(g)!Settle(x) = x
<1>1. CASE g \notin AlwaysActive
  BY <1>1 DEF SpareAt!Settle
<1>2. CASE g \in AlwaysActive
  <2>1. SpareAt(g)!ReturnToPrimary(x) = x
    BY <1>2 DEF Clean, Free, SpareAt!ReturnToPrimary, SpareAt!Available
  <2>2. SpareAt(g)!KeepPrimary(x) = x
    BY <1>2 DEF Clean, SpareAt!KeepPrimary
  <2>3. QED  BY <1>2, <2>1, <2>2 DEF SpareAt!Settle
<1>3. QED  BY <1>1, <1>2

\* Conversely, a state that add_transition leaves alone is clean.
LEMMA SettleEffect ==
  ASSUME NEW g \in Spares, NEW x \in SpareStates(g),
         g \in AlwaysActive /\ x.prev_using = 1 => 1 \notin Free(x)
  PROVE  /\ SpareAt(g)!Settle(x) \in SpareStates(g)
         /\ Clean(g, SpareAt(g)!Settle(x))
         /\ SpareAt(g)!Settle(x).mode = x.mode
         /\ \/ SpareAt(g)!Settle(x).cur_using \in {0, x.cur_using}
            \/ g \in AlwaysActive /\ SpareAt(g)!Settle(x).cur_using = 1
<1>1. CASE g \notin AlwaysActive
  BY <1>1 DEF SpareAt!Settle, Clean
<1>2. CASE g \in AlwaysActive
  <2> DEFINE r == SpareAt(g)!ReturnToPrimary(x)
             k == SpareAt(g)!KeepPrimary(r)
  <2>1. SpareAt(g)!Settle(x) = k
    BY <1>2 DEF SpareAt!Settle
  <2>2. 0 \in Places(g) /\ 1 \in Places(g)
    BY SpareIsNode DEF Kids, Places
  <2>3. /\ r \in SpareStates(g) /\ r.mode = x.mode /\ Free(r) = Free(x)
        /\ r.cur_using = 1 \/ 1 \notin Free(x)
        /\ r.cur_using \in {x.cur_using, 1}
        /\ r.prev_using = 1 => 1 \notin Free(x)
    <3>1. CASE x.cur_using = 1 \/ 1 \notin Free(x)
      <4>1. r = x
        BY <3>1 DEF SpareAt!ReturnToPrimary, SpareAt!Available, Free
      <4> HIDE DEF r
      <4>2. QED  BY <1>2, <3>1, <4>1
    <3>2. CASE ~(x.cur_using = 1 \/ 1 \notin Free(x))
      <4> DEFINE d == IF x.repairing_deactivate = 1 THEN 0 ELSE x.repairing_deactivate
                 u == [x EXCEPT !.prev_using = x.cur_using, !.cur_using = 1,
                                !.repairing_deactivate = d]
      <4>1. r = u
        BY <3>2, Zenon DEF SpareAt!ReturnToPrimary, SpareAt!Available, Free
      <4>2. d \in Places(g) /\ x.cur_using \in Places(g)
        BY <2>2 DEF SpareStates
      <4> HIDE DEF d, r
      <4>3. u \in SpareStates(g)
        BY <2>2, <4>2, Zenon DEF SpareStates
      <4>4. /\ u.mode = x.mode /\ u.unfailed = x.unfailed /\ u.unclaimed = x.unclaimed
            /\ u.cur_using = 1 /\ u.prev_using = x.cur_using
        BY Zenon DEF SpareStates
      <4> HIDE DEF u
      <4>5. QED  BY <3>2, <4>1, <4>3, <4>4 DEF Free
    <3>3. QED  BY <3>1, <3>2
  <2> HIDE DEF r
  <2>4. /\ k \in SpareStates(g) /\ k.mode = r.mode /\ Free(k) = Free(r)
        /\ k.prev_using # 1
        /\ IF r.prev_using = 1 THEN k.cur_using = 0 ELSE k.cur_using = r.cur_using
    <3>1. CASE r.prev_using # 1
      BY <2>3, <3>1 DEF SpareAt!KeepPrimary
    <3>2. CASE r.prev_using = 1
      <4> DEFINE u == [r EXCEPT !.prev_using = 0, !.cur_using = 0]
      <4>1. k = u
        BY <3>2, Zenon DEF SpareAt!KeepPrimary
      <4>2. u \in SpareStates(g)
        BY <2>2, <2>3, Zenon DEF SpareStates
      <4>3. /\ u.mode = r.mode /\ u.unfailed = r.unfailed /\ u.unclaimed = r.unclaimed
            /\ u.cur_using = 0 /\ u.prev_using = 0
        BY <2>3, Zenon DEF SpareStates
      <4> HIDE DEF u, k
      <4>4. QED  BY <3>2, <4>1, <4>2, <4>3 DEF Free
    <3>3. QED  BY <3>1, <3>2
  <2> HIDE DEF k
  <2>5. QED  BY <1>2, <2>1, <2>3, <2>4 DEF Clean
<1>3. QED  BY <1>1, <1>2

\* What a step of a spare gate that claims nothing leaves it with: a clean state
\* in which it uses no other child than before, but that an always-active gate
\* may be back at its primary.
Calm(g, y) ==
  /\ y \in SpareStates(g) /\ Clean(g, y)
  /\ y.mode = "live" => node[g].mode = "live"
  /\ \/ y.cur_using \in {0, node[g].cur_using}
     \/ g \in AlwaysActive /\ node[g].mode = "live" /\ y.cur_using = 1

\* What a handler must ensure of its target for that.
Target(g, x) ==
  /\ x \in SpareStates(g) /\ x.cur_using \in {0, node[g].cur_using}
  /\ g \in AlwaysActive /\ x.prev_using = 1 => 1 \notin Free(x)

\* A gate in a state of its type that add_transition leaves alone.
SpareOK(g) == node[g] \in SpareStates(g) /\ Clean(g, node[g])

\* What add_transition makes of a target that leaves the primary to others is calm.
LEMMA Landing ==
  ASSUME NEW g \in Spares, SpareOK(g), node[g].mode = "live", NEW x, Target(g, x)
  PROVE  Calm(g, SpareAt(g)!Settle(x))
<1> DEFINE y == SpareAt(g)!Settle(x)
<1>1. /\ x \in SpareStates(g) /\ x.cur_using \in {0, node[g].cur_using}
      /\ g \in AlwaysActive /\ x.prev_using = 1 => 1 \notin Free(x)
  BY DEF Target
<1>2. /\ y \in SpareStates(g) /\ Clean(g, y) /\ y.mode = x.mode
      /\ \/ y.cur_using \in {0, x.cur_using}
         \/ g \in AlwaysActive /\ y.cur_using = 1
  BY <1>1, SettleEffect
<1> HIDE DEF y
<1>3. Calm(g, y)
  BY <1>1, <1>2 DEF Calm
<1>4. QED  BY <1>3 DEF y

-----------------------------------------------------------------------------
(* The handlers that claim nothing, one by one. *)

\* The target of an interaction its author took for impossible.
LEMMA ImpossibleTarget ==
  ASSUME NEW g \in Spares, SpareOK(g)
  PROVE  /\ Target(g, SpareAt(g)!Impossible) /\ Clean(g, SpareAt(g)!Impossible)
         /\ SpareAt(g)!Impossible.mode = "impossible"
         /\ SpareAt(g)!Impossible.cur_using = node[g].cur_using
<1> DEFINE x == [node[g] EXCEPT !.mode = "impossible"]
<1>1. x \in SpareStates(g)
  BY DEF SpareOK, SpareStates
<1>2. /\ x.mode = "impossible" /\ Free(x) = Free(node[g])
      /\ x.cur_using = node[g].cur_using /\ x.prev_using = node[g].prev_using
  BY DEF SpareOK, SpareStates, Free
<1>3. SpareAt(g)!Impossible = x
  BY DEF SpareAt!Impossible
<1> HIDE DEF x
<1>4. QED  BY <1>1, <1>2, <1>3 DEF Target, SpareOK, Clean

\* FAIL from a child.
LEMMA ChildFailsCalm ==
  ASSUME NEW g \in Spares, SpareOK(g), node[g].mode = "live",
         NEW t \in SpareAt(g)!ChildFails
  PROVE  Calm(g, t[2]) /\ \E i : t[1] = FAIL(i)
<1>1. PICK i \in Kids(g) : t = <<FAIL(i), SpareAt(g)!Settle(SpareAt(g)!AfterFail(i))>>
  BY DEF SpareAt!ChildFails, SpareAt!Step, SpareAt!Children, Kids, FAIL, SpareAt!FAIL
<1> DEFINE p == IF i = node[g].cur_using THEN i ELSE node[g].prev_using
           x == [node[g] EXCEPT !.unfailed = node[g].unfailed \ {i}, !.prev_using = p]
<1>2. SpareAt(g)!AfterFail(i) = x
  BY Zenon DEF SpareAt!AfterFail
<1>3. /\ node[g] \in SpareStates(g) /\ p \in Places(g)
      /\ node[g].unfailed \ {i} \in SUBSET Kids(g)
      /\ p \in {i, node[g].prev_using}
  BY DEF SpareOK, SpareStates, Kids, Places
<1> HIDE DEF p
<1>4. x \in SpareStates(g)
  BY <1>3, Zenon DEF SpareStates
<1>5. /\ x.cur_using = node[g].cur_using /\ x.unfailed = node[g].unfailed \ {i}
      /\ x.prev_using = p
  BY <1>3, Zenon DEF SpareStates
<1> HIDE DEF x
<1>6. Target(g, x)
  BY <1>3, <1>4, <1>5 DEF Target, SpareOK, Clean, Free
<1>7. QED  BY <1>1, <1>2, <1>6, Landing

\* ONLINE from a child, and its release by another gate.
LEMMA ChildBackCalm ==
  ASSUME NEW g \in Spares, SpareOK(g), node[g].mode = "live",
         NEW t \in SpareAt(g)!ChildOnline \cup SpareAt(g)!ChildReleased
  PROVE  Calm(g, t[2]) /\ \E i : t[1] \in {ONLINE(i), DEACTIVATE(i, FALSE)}
<1> DEFINE f(i) == [node[g] EXCEPT !.unfailed = @ \cup {i}]
           c(i) == [node[g] EXCEPT !.unclaimed = @ \cup {i}]
           x(i) == SpareAt(g)!Settle(f(i))
           y(i) == SpareAt(g)!Settle(c(i))
           z    == SpareAt(g)!Settle(SpareAt(g)!Impossible)
<1>1. \E i \in Kids(g) : /\ t[1] \in {ONLINE(i), DEACTIVATE(i, FALSE)}
                         /\ t[2] \in {x(i), y(i), z}
  <2>1. CASE t \in SpareAt(g)!ChildOnline
    <3> DEFINE w(i) == IF ChildrenOf(g) \cap Repairable # {} THEN f(i)
                       ELSE SpareAt(g)!Impossible
    <3>1. SpareAt(g)!ChildOnline = {<<ONLINE(i), SpareAt(g)!Settle(w(i))>> : i \in Kids(g)}
      BY Zenon DEF SpareAt!ChildOnline, SpareAt!Step, SpareAt!Children, Kids,
                   ONLINE, SpareAt!ONLINE
    <3>2. \A i : SpareAt(g)!Settle(w(i)) \in {x(i), z}
      BY Zenon
    <3>3. PICK i \in Kids(g) : t = <<ONLINE(i), SpareAt(g)!Settle(w(i))>>
      BY <2>1, <3>1, Zenon
    <3> HIDE DEF w, x, y, z
    <3>4. QED  BY <3>2, <3>3
  <2>2. CASE t \in SpareAt(g)!ChildReleased
    <3> DEFINE w(i) == IF \/ i = 1 /\ g \in AlwaysActive
                          \/ i \in {node[g].prev_using, node[g].repairing_deactivate}
                       THEN SpareAt(g)!Impossible ELSE c(i)
    <3>1. SpareAt(g)!ChildReleased =
            {<<DEACTIVATE(i, FALSE), SpareAt(g)!Settle(w(i))>> : i \in Kids(g)}
      BY Zenon DEF SpareAt!ChildReleased, SpareAt!Step, SpareAt!Children, Kids,
                   DEACTIVATE, SpareAt!DEACTIVATE
    <3>2. \A i : SpareAt(g)!Settle(w(i)) \in {y(i), z}
      BY Zenon
    <3>3. PICK i \in Kids(g) : t = <<DEACTIVATE(i, FALSE), SpareAt(g)!Settle(w(i))>>
      BY <2>2, <3>1, Zenon
    <3> HIDE DEF w, x, y, z
    <3>4. QED  BY <3>2, <3>3
  <2>3. QED  BY <2>1, <2>2
<1>2. ASSUME NEW i \in Kids(g)  PROVE  Target(g, f(i)) /\ Target(g, c(i))
  <2>1. /\ node[g] \in SpareStates(g) /\ node[g].unfailed \cup {i} \in SUBSET Kids(g)
        /\ node[g].unclaimed \cup {i} \in SUBSET Kids(g)
    BY DEF SpareOK, SpareStates
  <2>2. f(i) \in SpareStates(g) /\ c(i) \in SpareStates(g)
    BY <2>1, Zenon DEF SpareStates
  <2>3. /\ f(i).cur_using = node[g].cur_using /\ f(i).prev_using = node[g].prev_using
        /\ c(i).cur_using = node[g].cur_using /\ c(i).prev_using = node[g].prev_using
    BY <2>1, Zenon DEF SpareStates
  <2> HIDE DEF f, c
  <2>4. QED  BY <2>2, <2>3 DEF SpareOK, Target, Clean
<1>3. \A i \in Kids(g) : Calm(g, x(i)) /\ Calm(g, y(i))
  BY <1>2, Landing
<1>4. Calm(g, z)
  BY ImpossibleTarget, Landing
<1> HIDE DEF x, y, z
<1>5. QED  BY <1>1, <1>3, <1>4

\* The parents' commands.
LEMMA CommandCalm ==
  ASSUME NEW g \in Spares, SpareOK(g), node[g].mode = "live",
         NEW t \in SpareAt(g)!Activated \cup SpareAt(g)!Deactivated
  PROVE  Calm(g, t[2]) /\ t[1] \in {ACTIVATE(0, FALSE), DEACTIVATE(0, FALSE)}
<1>1. CASE t \in SpareAt(g)!Activated
  <2> DEFINE x == [node[g] EXCEPT !.activated = TRUE]
  <2>1. t = <<ACTIVATE(0, FALSE), SpareAt(g)!Settle(x)>>
    BY <1>1 DEF SpareAt!Activated, SpareAt!Step, ACTIVATE, SpareAt!ACTIVATE
  <2>2. x \in SpareStates(g)
    BY Zenon DEF SpareOK, SpareStates
  <2>3. /\ x.cur_using = node[g].cur_using /\ x.prev_using = node[g].prev_using
        /\ x.unfailed = node[g].unfailed /\ x.unclaimed = node[g].unclaimed
    BY Zenon DEF SpareOK, SpareStates
  <2> HIDE DEF x
  <2>4. Target(g, x)
    BY <2>2, <2>3 DEF SpareOK, Target, Clean, Free
  <2>5. QED  BY <2>1, <2>4, Landing
<1>2. CASE t \in SpareAt(g)!Deactivated
  <2> DEFINE u == [node[g] EXCEPT !.activated = FALSE, !.prev_using = node[g].cur_using]
             x == IF g \in AlwaysActive THEN SpareAt(g)!Impossible ELSE u
  <2>1. SpareAt(g)!Deactivated = {<<DEACTIVATE(0, FALSE), SpareAt(g)!Settle(x)>>}
    BY Zenon DEF SpareAt!Deactivated, SpareAt!Step, DEACTIVATE, SpareAt!DEACTIVATE
  <2>2. g \notin AlwaysActive => Target(g, u)
    <3>1. node[g] \in SpareStates(g) /\ node[g].cur_using \in Places(g)
      BY DEF SpareOK, SpareStates
    <3>2. u \in SpareStates(g) /\ u.cur_using = node[g].cur_using
      BY <3>1, Zenon DEF SpareStates
    <3> HIDE DEF u
    <3>3. QED  BY <3>2 DEF Target
  <2>3. Target(g, x)
    BY <2>2, ImpossibleTarget, Zenon
  <2>4. t = <<DEACTIVATE(0, FALSE), SpareAt(g)!Settle(x)>>
    BY <1>2, <2>1, Zenon
  <2> HIDE DEF x
  <2>5. QED  BY <2>3, <2>4, Landing
<1>3. QED  BY <1>1, <1>2

\* Announcing the status changes nothing about the children.
LEMMA StatusCalm ==
  ASSUME NEW g \in Spares, SpareOK(g), node[g].mode = "live",
         NEW t \in SpareAt(g)!AnnounceFail \cup SpareAt(g)!AnnounceOnline
                     \cup SpareAt(g)!ReportRepaired
  PROVE  Calm(g, t[2]) /\ t[1] \in {FAIL(0), ONLINE(0), REPAIRED(0)}
<1> DEFINE x(d) == [node[g] EXCEPT !.done = d]
           y(d) == SpareAt(g)!Settle(x(d))
<1>1. \A d \in BOOLEAN : Target(g, x(d))
  <2>1. \A d \in BOOLEAN : x(d) \in SpareStates(g)
    BY Zenon DEF SpareOK, SpareStates
  <2>2. \A d : /\ x(d).cur_using = node[g].cur_using /\ x(d).prev_using = node[g].prev_using
               /\ x(d).unfailed = node[g].unfailed /\ x(d).unclaimed = node[g].unclaimed
    BY Zenon DEF SpareOK, SpareStates
  <2> HIDE DEF x
  <2>3. QED  BY <2>1, <2>2 DEF SpareOK, Target, Clean, Free
<1>2. \A d \in BOOLEAN : Calm(g, y(d))
  BY <1>1, Landing
<1>3. CASE t \in SpareAt(g)!AnnounceFail
  <2>1. t = <<FAIL(0), y(TRUE)>>
    BY <1>3, Zenon DEF SpareAt!AnnounceFail, SpareAt!When, SpareAt!Offer, FAIL, SpareAt!FAIL
  <2> HIDE DEF y
  <2>2. Calm(g, y(TRUE))
    BY <1>2
  <2>3. QED  BY <2>1, <2>2
<1>4. CASE t \in SpareAt(g)!AnnounceOnline
  <2>1. t = <<ONLINE(0), y(FALSE)>>
    BY <1>4, Zenon DEF SpareAt!AnnounceOnline, SpareAt!When, SpareAt!Offer, ONLINE, SpareAt!ONLINE
  <2> HIDE DEF y
  <2>2. Calm(g, y(FALSE))
    BY <1>2
  <2>3. QED  BY <2>1, <2>2
<1>5. CASE t \in SpareAt(g)!ReportRepaired
  <2>1. t = <<REPAIRED(0), SpareAt(g)!Settle(node[g])>>
    BY <1>5, Zenon DEF SpareAt!ReportRepaired, SpareAt!Step, REPAIRED, SpareAt!REPAIRED
  <2>2. Target(g, node[g])
    BY DEF SpareOK, Target, Clean, Free
  <2>3. QED  BY <2>1, <2>2, Landing
<1>6. QED  BY <1>3, <1>4, <1>5

\* Releasing a child.
LEMMA ReleaseCalm ==
  ASSUME NEW g \in Spares, SpareOK(g), node[g].mode = "live",
         NEW t \in SpareAt(g)!ReleaseFailed \cup SpareAt(g)!ReleaseWorse
  PROVE  Calm(g, t[2]) /\ \E i : t[1] = DEACTIVATE(i, TRUE)
<1>1. node[g] \in SpareStates(g) /\ 0 \in Places(g)
  BY SpareIsNode DEF SpareOK, Kids, Places
<1>2. CASE t \in SpareAt(g)!ReleaseFailed
  <2> DEFINE x == [node[g] EXCEPT !.prev_using = 0, !.cur_using = 0]
  <2>1. t = <<DEACTIVATE(node[g].prev_using, TRUE), SpareAt(g)!Settle(x)>>
    BY <1>2, Zenon DEF SpareAt!ReleaseFailed, SpareAt!When, SpareAt!Offer,
                       DEACTIVATE, SpareAt!DEACTIVATE
  <2>2. x \in SpareStates(g) /\ x.cur_using = 0 /\ x.prev_using = 0
    BY <1>1, Zenon DEF SpareStates
  <2> HIDE DEF x
  <2>3. Target(g, x)
    BY <2>2 DEF Target
  <2>4. QED  BY <2>1, <2>3, Landing
<1>3. CASE t \in SpareAt(g)!ReleaseWorse
  <2> DEFINE x == [node[g] EXCEPT !.repairing_deactivate = 0]
  <2>1. t = <<DEACTIVATE(node[g].repairing_deactivate, TRUE), SpareAt(g)!Settle(x)>>
    BY <1>3, Zenon DEF SpareAt!ReleaseWorse, SpareAt!When, SpareAt!Offer,
                       DEACTIVATE, SpareAt!DEACTIVATE
  <2>2. /\ x \in SpareStates(g)
        /\ x.cur_using = node[g].cur_using /\ x.prev_using = node[g].prev_using
    BY <1>1, Zenon DEF SpareStates
  <2> HIDE DEF x
  <2>3. Target(g, x)
    BY <2>2 DEF Target, SpareOK, Clean
  <2>4. QED  BY <2>1, <2>3, Landing
<1>4. QED  BY <1>2, <1>3

-----------------------------------------------------------------------------
(* The handlers that are about claims. *)

\* Another gate's claim of a child is heard only while the child is not used
\* here, and changes nothing about what is; an always-active gate that hears of
\* its primary gives up.
LEMMA ChildClaimedCalm ==
  ASSUME NEW g \in Spares, SpareOK(g), node[g].mode = "live",
         NEW t \in SpareAt(g)!ChildClaimed
  PROVE  /\ Calm(g, t[2]) /\ t[2].cur_using = node[g].cur_using
         /\ \E i \in Kids(g) :
              /\ t[1] = ACTIVATE(i, FALSE) /\ node[g].cur_using # i
              /\ g \in AlwaysActive /\ i = 1 => t[2].mode # "live"
<1> DEFINE c(i) == [node[g] EXCEPT !.unclaimed = @ \ {i}]
           w(i) == IF i = 1 /\ g \in AlwaysActive THEN SpareAt(g)!Impossible ELSE c(i)
<1>1. SpareAt(g)!ChildClaimed =
        {<<ACTIVATE(i, FALSE), SpareAt(g)!Settle(w(i))>> : i \in Kids(g) \ {node[g].cur_using}}
  BY Zenon DEF SpareAt!ChildClaimed, SpareAt!Step, SpareAt!Children, Kids,
               ACTIVATE, SpareAt!ACTIVATE
<1>2. PICK i \in Kids(g) \ {node[g].cur_using} :
        t = <<ACTIVATE(i, FALSE), SpareAt(g)!Settle(w(i))>>
  BY <1>1, Zenon
<1>3. /\ Target(g, c(i)) /\ Clean(g, c(i)) /\ c(i).cur_using = node[g].cur_using
  <2>1. node[g] \in SpareStates(g) /\ node[g].unclaimed \ {i} \in SUBSET Kids(g)
    BY DEF SpareOK, SpareStates
  <2>2. c(i) \in SpareStates(g)
    BY <2>1, Zenon DEF SpareStates
  <2>3. /\ c(i).cur_using = node[g].cur_using /\ c(i).prev_using = node[g].prev_using
        /\ c(i).unfailed = node[g].unfailed /\ c(i).unclaimed = node[g].unclaimed \ {i}
    BY <2>1, Zenon DEF SpareStates
  <2> HIDE DEF c
  <2>4. QED  BY <2>2, <2>3 DEF SpareOK, Target, Clean, Free
<1>4. /\ Target(g, w(i)) /\ Clean(g, w(i)) /\ w(i).cur_using = node[g].cur_using
      /\ g \in AlwaysActive /\ i = 1 => w(i).mode # "live"
  <2>1. CASE i = 1 /\ g \in AlwaysActive
    <3>1. w(i) = SpareAt(g)!Impossible
      BY <2>1, Zenon
    <3> HIDE DEF w
    <3>2. QED  BY <3>1, ImpossibleTarget
  <2>2. CASE ~(i = 1 /\ g \in AlwaysActive)
    <3>1. w(i) = c(i)
      BY <2>2, Zenon
    <3> HIDE DEF w, c
    <3>2. QED  BY <2>2, <3>1, <1>3
  <2>3. QED  BY <2>1, <2>2
<1> HIDE DEF w, c
<1>5. SpareAt(g)!Settle(w(i)) = w(i)
  BY <1>4, CleanSettles DEF Target
<1>6. t = <<ACTIVATE(i, FALSE), w(i)>>
  BY <1>2, <1>5, Zenon
<1>7. Calm(g, w(i))
  BY <1>4, <1>5, Landing
<1>8. QED  BY <1>4, <1>6, <1>7

\* The first element of a set<size_t> of children is its least.
LEMMA FirstIsLeast ==
  ASSUME NEW g \in Spares, NEW S \in SUBSET Kids(g), S # {}
  PROVE  SpareAt(g)!First(S) \in S /\ \A j \in S : SpareAt(g)!First(S) <= j
<1>1. S \in SUBSET Nat
  BY DEF Kids
<1>2. QED  BY <1>1, LeastNumber DEF SpareAt!First

\* A clean gate that claims a child claims it by sending ACTIVATE: it has no
\* reason to send the silent signal instead.
LEMMA ClaimsOpenly ==
  ASSUME NEW g \in Spares, SpareOK(g), node[g].mode = "live",
         NEW t \in SpareAt(g)!ClaimFirst \cup SpareAt(g)!ClaimBetter
  PROVE  /\ t[2] \in SpareStates(g) /\ Clean(g, t[2])
         /\ \E i \in Kids(g) : t[1] = ACTIVATE(i, TRUE) /\ t[2].cur_using = i
<1> DEFINE s == node[g]
           A == SpareAt(g)!avail
           f == SpareAt(g)!First(A)
<1>1. /\ s \in SpareStates(g) /\ A \in SUBSET Kids(g) /\ A = Free(s)
      /\ s.cur_using \in Places(g) /\ 0 \in Places(g)
  BY SpareIsNode DEF SpareOK, SpareStates, Free, SpareAt!avail, SpareAt!Available, Kids, Places
<1>2. A # {} => f \in Kids(g) /\ f \in Places(g) /\ \A j \in A : f <= j
  BY <1>1, FirstIsLeast DEF Kids, Places
<1>3. \A j \in Kids(g) : j >= 1 /\ j # 0
  BY DEF Kids
<1>4. CASE t \in SpareAt(g)!ClaimFirst
  <2> DEFINE r == IF s.repairing_deactivate = f THEN 0 ELSE s.repairing_deactivate
             x == [s EXCEPT !.cur_using = f, !.repairing_deactivate = r]
  <2>1. /\ s.cur_using = 0 /\ A # {}
        /\ t = <<ACTIVATE(f, TRUE), SpareAt(g)!Settle(x)>>
    BY <1>4, Zenon DEF SpareAt!ClaimFirst, SpareAt!When, SpareAt!Offer,
                       ACTIVATE, SpareAt!ACTIVATE
  <2>2. r \in Places(g)
    BY <1>1 DEF SpareStates
  <2> HIDE DEF s, A, f, r
  <2>3. x \in SpareStates(g)
    BY <1>1, <1>2, <2>1, <2>2, Zenon DEF SpareStates
  <2>4. /\ x.cur_using = f /\ x.prev_using = s.prev_using
        /\ x.unfailed = s.unfailed /\ x.unclaimed = s.unclaimed
    BY <1>1, Zenon DEF SpareStates
  <2> HIDE DEF x
  <2>5. Clean(g, x)
    BY <1>1, <1>2, <1>3, <2>1, <2>4 DEF SpareOK, Clean, Free, s
  <2>6. SpareAt(g)!Settle(x) = x
    BY <2>3, <2>5, CleanSettles
  <2>7. t = <<ACTIVATE(f, TRUE), x>>
    BY <2>1, <2>6, Zenon
  <2>8. t[1] = ACTIVATE(f, TRUE) /\ t[2] = x
    BY <2>7 DEF ACTIVATE
  <2>9. QED  BY <1>2, <2>1, <2>3, <2>4, <2>5, <2>8, Zenon
<1>5. CASE t \in SpareAt(g)!ClaimBetter
  <2> DEFINE l == SpareAt(g)!ClaimLabel
             x == [s EXCEPT !.repairing_deactivate = s.cur_using, !.cur_using = f]
  <2>1. /\ A # {} /\ s.prev_using = 0 /\ f # s.cur_using
        /\ t = <<l, SpareAt(g)!Settle(x)>>
    BY <1>5, Zenon DEF SpareAt!ClaimBetter, SpareAt!TakeBetter, SpareAt!When, SpareAt!Offer
  <2>2. g \in AlwaysActive => f > 1 /\ 1 \notin A
    <3>1. g \in AlwaysActive => s.cur_using = 1 \/ 1 \notin A
      BY <1>1 DEF SpareOK, Clean
    <3>2. f \in A /\ f \in Kids(g)
      BY <1>1, <1>2, <2>1, FirstIsLeast
    <3>3. g \in AlwaysActive => f # 1
      BY <2>1, <3>1, <3>2
    <3>4. f \in Nat /\ f >= 1 /\ (1 \in A => f <= 1)
      BY <1>2, <2>1 DEF Kids
    <3> HIDE DEF f, A
    <3>5. QED  BY <3>3, <3>4
  <2>3. l = ACTIVATE(f, TRUE)
    BY <1>1, <2>2, Zenon DEF SpareAt!ClaimLabel, ACTIVATE, SpareAt!ACTIVATE
  <2> HIDE DEF s, A, f, l
  <2>4. x \in SpareStates(g)
    BY <1>1, <1>2, <2>1, Zenon DEF SpareStates
  <2>5. /\ x.cur_using = f /\ x.prev_using = s.prev_using
        /\ x.unfailed = s.unfailed /\ x.unclaimed = s.unclaimed
    BY <1>1, Zenon DEF SpareStates
  <2> HIDE DEF x
  <2>6. Clean(g, x)
    BY <1>1, <2>1, <2>2, <2>5 DEF Clean, Free
  <2>7. SpareAt(g)!Settle(x) = x
    BY <2>4, <2>6, CleanSettles
  <2>8. t = <<ACTIVATE(f, TRUE), x>>
    BY <2>1, <2>3, <2>7, Zenon
  <2>9. t[1] = ACTIVATE(f, TRUE) /\ t[2] = x
    BY <2>8 DEF ACTIVATE
  <2>10. QED  BY <1>2, <2>1, <2>4, <2>5, <2>6, <2>9, Zenon
<1>6. QED  BY <1>4, <1>5

\* The silent step of a dormant gate changes nothing.
LEMMA ForgetChangesNothing ==
  ASSUME NEW g \in Spares, SpareOK(g), NEW t \in SpareAt(g)!ForgetRelease
  PROVE  t = <<TAU, node[g]>>
<1>1. t = <<TAU, SpareAt(g)!Settle(node[g])>>
  BY Zenon DEF SpareAt!ForgetRelease, SpareAt!When, SpareAt!Offer, TAU, SpareAt!TAU
<1>2. QED  BY <1>1, CleanSettles, Zenon DEF SpareOK

\* Labels with different names differ.
LEMMA Heads ==
  /\ TAU[1] = "" /\ IMPOSSIBLE[1] = "IMPOSSIBLE"
  /\ \A i : /\ FAIL(i)[1] = "FAIL" /\ ONLINE(i)[1] = "ONLINE" /\ REPAIRED(i)[1] = "REPAIRED"
           /\ INSPECT(i)[1] = "INSPECT"
           /\ ACTIVATE(i, TRUE)[1] = "ACTIVATE" /\ ACTIVATE(i, FALSE)[1] = "ACTIVATE"
           /\ ACTIVATE(i, TRUE)[2] = i /\ ACTIVATE(i, FALSE)[2] = i
           /\ DEACTIVATE(i, TRUE)[1] = "DEACTIVATE" /\ DEACTIVATE(i, FALSE)[1] = "DEACTIVATE"
  BY DEF TAU, IMPOSSIBLE, FAIL, ONLINE, REPAIRED, INSPECT, ACTIVATE, DEACTIVATE

\* What a step of a spare gate with label l to state y amounts to.
SpareMoves(g, l, y) ==
  /\ y \in SpareStates(g) /\ Clean(g, y) /\ (y.mode = "live" => node[g].mode = "live")
  /\ l = TAU => y = node[g]
  /\ Calm(g, y) \/ \E i \in Kids(g) : l = ACTIVATE(i, TRUE) /\ y.cur_using = i
  /\ \A i \in Kids(g) : l = ACTIVATE(i, FALSE) =>
       /\ node[g].cur_using # i /\ y.cur_using = node[g].cur_using
       /\ g \in AlwaysActive /\ i = 1 => y.mode # "live"

\* Most labels are neither silent nor about another gate's claim.
LEMMA CalmMoves ==
  ASSUME NEW g \in Spares, NEW l, NEW y, Calm(g, y),
         l = ACTIVATE(0, FALSE) \/ l[1] \notin {"ACTIVATE", ""}
  PROVE  SpareMoves(g, l, y)
<1>1. l # TAU /\ \A i \in Kids(g) : l # ACTIVATE(i, FALSE)
  <2>1. CASE l = ACTIVATE(0, FALSE)
    BY <2>1 DEF TAU, ACTIVATE, Kids
  <2>2. CASE l[1] \notin {"ACTIVATE", ""}
    BY <2>2, Heads
  <2>3. QED  BY <2>1, <2>2
<1>2. QED  BY <1>1, Zenon DEF SpareMoves, Calm

\* Every transition of a spare gate is calm, or openly claims a child.
LEMMA SpareStep ==
  ASSUME NEW g \in Spares, SpareOK(g), NEW t \in SpareAt(g)!Trans
  PROVE  SpareMoves(g, t[1], t[2])
<1>1. CASE node[g].mode = "terminated"
  BY <1>1 DEF SpareAt!Trans
<1>2. CASE node[g].mode = "impossible"
  <2> DEFINE x == [node[g] EXCEPT !.mode = "terminated"]
  <2>1. SpareAt(g)!Trans = {<<IMPOSSIBLE, x>>}
    BY <1>2 DEF SpareAt!Trans, SpareAt!Terminated, IMPOSSIBLE, SpareAt!IMPOSSIBLE
  <2>2. x \in SpareStates(g)
    BY Zenon DEF SpareOK, SpareStates
  <2>3. /\ x.cur_using = node[g].cur_using /\ x.prev_using = node[g].prev_using
        /\ x.unfailed = node[g].unfailed /\ x.unclaimed = node[g].unclaimed
        /\ x.mode = "terminated"
    BY Zenon DEF SpareOK, SpareStates
  <2> HIDE DEF x
  <2>4. Calm(g, x)
    BY <2>2, <2>3 DEF Calm, SpareOK, Clean, Free
  <2>5. t[1] = IMPOSSIBLE /\ t[2] = x /\ IMPOSSIBLE[1] = "IMPOSSIBLE"
    BY <2>1 DEF IMPOSSIBLE
  <2>6. QED  BY <2>4, <2>5, CalmMoves
<1>3. CASE node[g].mode \notin {"terminated", "impossible"}
  <2>1. node[g].mode = "live"
    BY <1>3 DEF SpareOK, SpareStates
  <2>2. \/ t \in SpareAt(g)!ChildFails
        \/ t \in SpareAt(g)!ChildOnline \cup SpareAt(g)!ChildReleased
        \/ t \in SpareAt(g)!Activated \cup SpareAt(g)!Deactivated
        \/ t \in SpareAt(g)!AnnounceFail \cup SpareAt(g)!AnnounceOnline
                  \cup SpareAt(g)!ReportRepaired
        \/ t \in SpareAt(g)!ReleaseFailed \cup SpareAt(g)!ReleaseWorse
        \/ t \in SpareAt(g)!ChildClaimed
        \/ t \in SpareAt(g)!ClaimFirst \cup SpareAt(g)!ClaimBetter
        \/ t \in SpareAt(g)!ForgetRelease
    BY <2>1 DEF SpareAt!Trans
  <2>3. CASE t \in SpareAt(g)!ChildFails
    <3>1. Calm(g, t[2]) /\ \E i : t[1] = FAIL(i)
      BY <2>1, <2>3, ChildFailsCalm
    <3>2. t[1][1] = "FAIL"
      BY <3>1, Heads
    <3>3. QED  BY <3>1, <3>2, CalmMoves
  <2>4. CASE t \in SpareAt(g)!ChildOnline \cup SpareAt(g)!ChildReleased
    <3>1. Calm(g, t[2]) /\ \E i : t[1] \in {ONLINE(i), DEACTIVATE(i, FALSE)}
      BY <2>1, <2>4, ChildBackCalm
    <3>2. PICK i : t[1] \in {ONLINE(i), DEACTIVATE(i, FALSE)}
      BY <3>1, Zenon
    <3>3. ONLINE(i)[1] = "ONLINE" /\ DEACTIVATE(i, FALSE)[1] = "DEACTIVATE"
      BY Heads
    <3>4. t[1][1] \notin {"ACTIVATE", ""}
      BY <3>2, <3>3
    <3>5. QED  BY <3>1, <3>4, CalmMoves
  <2>5. CASE t \in SpareAt(g)!Activated \cup SpareAt(g)!Deactivated
    <3>1. Calm(g, t[2]) /\ t[1] \in {ACTIVATE(0, FALSE), DEACTIVATE(0, FALSE)}
      BY <2>1, <2>5, CommandCalm
    <3>2. t[1] = ACTIVATE(0, FALSE) \/ t[1][1] = "DEACTIVATE"
      <4>1. DEACTIVATE(0, FALSE)[1] = "DEACTIVATE"
        BY Heads
      <4>2. QED  BY <3>1, <4>1, Zenon
    <3>3. QED  BY <3>1, <3>2, CalmMoves
  <2>6. CASE t \in SpareAt(g)!AnnounceFail \cup SpareAt(g)!AnnounceOnline
                   \cup SpareAt(g)!ReportRepaired
    <3>1. Calm(g, t[2]) /\ t[1] \in {FAIL(0), ONLINE(0), REPAIRED(0)}
      BY <2>1, <2>6, StatusCalm
    <3>2. t[1][1] \in {"FAIL", "ONLINE", "REPAIRED"}
      BY <3>1 DEF FAIL, ONLINE, REPAIRED
    <3>3. QED  BY <3>1, <3>2, CalmMoves
  <2>7. CASE t \in SpareAt(g)!ReleaseFailed \cup SpareAt(g)!ReleaseWorse
    <3>1. Calm(g, t[2]) /\ \E i : t[1] = DEACTIVATE(i, TRUE)
      BY <2>1, <2>7, ReleaseCalm
    <3>2. t[1][1] = "DEACTIVATE"
      BY <3>1, Heads
    <3>3. QED  BY <3>1, <3>2, CalmMoves
  <2>8. CASE t \in SpareAt(g)!ChildClaimed
    <3>1. /\ Calm(g, t[2]) /\ t[2].cur_using = node[g].cur_using
      BY <2>1, <2>8, ChildClaimedCalm
    <3>2. PICK i \in Kids(g) :
            /\ t[1] = ACTIVATE(i, FALSE) /\ node[g].cur_using # i
            /\ g \in AlwaysActive /\ i = 1 => t[2].mode # "live"
      BY <2>1, <2>8, ChildClaimedCalm, Zenon
    <3>3. t[1] # TAU /\ \A j : t[1] = ACTIVATE(j, FALSE) => j = i
      BY <3>2 DEF ACTIVATE, TAU
    <3>4. QED  BY <3>1, <3>2, <3>3, Zenon DEF SpareMoves, Calm
  <2>9. CASE t \in SpareAt(g)!ClaimFirst \cup SpareAt(g)!ClaimBetter
    <3>1. t[2] \in SpareStates(g) /\ Clean(g, t[2])
      BY <2>1, <2>9, ClaimsOpenly
    <3>2. PICK i \in Kids(g) : t[1] = ACTIVATE(i, TRUE) /\ t[2].cur_using = i
      BY <2>1, <2>9, ClaimsOpenly, Zenon
    <3>3. t[1] # TAU /\ \A j : t[1] # ACTIVATE(j, FALSE)
      BY <3>2 DEF ACTIVATE, TAU
    <3>4. QED  BY <2>1, <3>1, <3>2, <3>3, Zenon DEF SpareMoves
  <2>10. CASE t \in SpareAt(g)!ForgetRelease
    <3>1. t[1] = TAU /\ t[2] = node[g]
      BY <2>10, ForgetChangesNothing
    <3>2. \A j : t[1] # ACTIVATE(j, FALSE)
      BY <3>1, Heads
    <3>3. Calm(g, node[g])
      BY DEF Calm, SpareOK
    <3>4. QED  BY <3>1, <3>2, <3>3, Zenon DEF SpareMoves, SpareOK
  <2>11. QED
    BY <2>2, <2>3, <2>4, <2>5, <2>6, <2>7, <2>8, <2>9, <2>10
<1>4. QED  BY <1>1, <1>2, <1>3

-----------------------------------------------------------------------------
(* What the automata know and say. *)

\* The values of the fields of each automaton (voting.h, pand.h, fdep.h, be.h).
Modes == {"live", "impossible", "terminated"}

VotingStates(g) ==
  [nr_failed : Int, emit_fail : BOOLEAN, done : BOOLEAN, running : BOOLEAN,
   received : SUBSET Kids(g), activated : SUBSET Kids(g), mode : Modes]
PAndStates(g) ==
  [failed : SUBSET Kids(g), nr_failed : Int, nr_active : Int,
   in_order_mark : Places(g), done : BOOLEAN, mode : Modes]
FDepStates(f) ==
  [act : BOOLEAN, failed : BOOLEAN, notified : SUBSET (1..Len(Dependers(f)))]
Statuses == {"UP", "DOWN", "FAILING", "FAILSAFE", "IMPOSSIBLE", "TERMINATED"}
EventStates ==
  [status : Statuses, repair_status : {"NONE", "NEEDED", "WAITING", "BUSY", "DONE"},
   phase : Int, isactive : BOOLEAN, emit_fail : BOOLEAN, emit_online : BOOLEAN,
   emit_inspect : BOOLEAN, can_definitely_fail : BOOLEAN]

\* The states of the automaton of node n.
StatesOf(n) ==
  IF tree[n].type = "voting" THEN VotingStates(n)
  ELSE IF tree[n].type = "pand" THEN PAndStates(n)
  ELSE IF tree[n].type = "wsp" THEN SpareStates(n)
  ELSE IF tree[n].type = "fdep" THEN FDepStates(n)
  ELSE EventStates

\* Node n in state x has not received an impossible signal.
Works(n, x) ==
  IF tree[n].type = "be" THEN x.status \notin {"IMPOSSIBLE", "TERMINATED"}
  ELSE IF tree[n].type = "fdep" THEN TRUE ELSE x.mode = "live"

\* Gate p in state x has heard that its i-th child failed.
Hears(p, x, i) ==
  IF tree[p].type = "voting" THEN i \in x.received
  ELSE IF tree[p].type = "pand" THEN i \in x.failed
  ELSE IF tree[p].type = "wsp" THEN i \notin x.unfailed
  ELSE IF tree[p].type = "fdep" THEN x.failed
  ELSE FALSE

\* A basic event that has failed.
IsDown(x) == x.status \in {"DOWN", "FAILING"}

\* Node n in state x has last said that it failed.
Says(n, x) ==
  IF tree[n].type = "be" THEN (IsDown(x) /\ ~x.emit_fail) \/ x.emit_online
  ELSE IF tree[n].type = "fdep" THEN FALSE ELSE x.done

\* Dependency gate f in state x has told the parents of its k-th depender.
Tells(f, x, k) ==
  IF tree[f].type = "fdep" THEN k \in x.notified ELSE FALSE

\* What holds of a node's state besides.
Sound(n, x) ==
  IF tree[n].type = "voting"
  THEN /\ x.nr_failed = Cardinality(x.received)
       /\ x.nr_failed >= tree[n].threshold => x.emit_fail \/ x.done
       /\ n \notin Repairable /\ (x.emit_fail \/ x.done) => x.nr_failed >= tree[n].threshold
  ELSE IF tree[n].type = "pand"
  THEN n \notin Repairable /\ x.done => x.in_order_mark = Len(Children(n))
  ELSE IF tree[n].type = "wsp" THEN Clean(n, x)
  ELSE IF tree[n].type = "fdep" THEN x.notified # {} => x.failed
  ELSE /\ x.repair_status \in {"NONE", "BUSY"}
       /\ x.repair_status = "BUSY" => x.status = "DOWN"
       /\ Parents(n) # {} =>
            /\ x.emit_fail => IsDown(x) /\ ~x.emit_online
            /\ x.emit_online => ~IsDown(x) /\ tree[n].repair

\* What a node makes of a step with label l to state y.
Follows(n, l, y) ==
  /\ \A j \in Kids(n) :
       Hears(n, y, j) <=> l = FAIL(j) \/ (l # ONLINE(j) /\ Hears(n, node[n], j))
  /\ Parents(n) # {} =>
       (Says(n, y) <=> l = FAIL(0) \/ (l # ONLINE(0) /\ Says(n, node[n])))
  /\ \A k \in Nat \ {0} : Tells(n, y, k) <=> Tells(n, node[n], k)
                                \/ (tree[n].type = "fdep" /\ l = FAIL(k + 1))
  /\ l = ONLINE(0) /\ Parents(n) # {} =>
       tree[n].type = "wsp" \/ n \in Repairable

\* The labels in the rules, and who may be told that a child recovered.
RuleLabel(n, l) ==
  /\ l[1] \in {"FAIL", "ONLINE", "ACTIVATE", "DEACTIVATE", "INSPECT", "IMPOSSIBLE"}
  /\ \A j \in Kids(n) : l = ONLINE(j) => n \in Repairable

\* The present state of node n has its type, is no error, and is sound.
Typed(n) == node[n] \in StatesOf(n)
Working(n) == Works(n, node[n])
Good(n) == Typed(n) /\ Working(n) /\ Sound(n, node[n])

\* What a step with label l to state y amounts to: news, or an error.
Effect(n, l, y) ==
  /\ y \in StatesOf(n)
  /\ Works(n, y) => Sound(n, y) /\ Follows(n, l, y)

\* Labels that are no news about failures.
NoNews(l) == l[1] \notin {"FAIL", "ONLINE"}

\* The labels differ by their heads and by their indices.
LEMMA NewsDiffer ==
  /\ \A l : NoNews(l) => \A j : l # FAIL(j) /\ l # ONLINE(j)
  /\ \A i, j : FAIL(i) # ONLINE(j) /\ (FAIL(i) = FAIL(j) <=> i = j)
                 /\ (ONLINE(i) = ONLINE(j) <=> i = j)
  /\ NoNews(IMPOSSIBLE) /\ NoNews(TAU)
  /\ \A i : /\ NoNews(ACTIVATE(i, TRUE)) /\ NoNews(ACTIVATE(i, FALSE))
            /\ NoNews(DEACTIVATE(i, TRUE)) /\ NoNews(DEACTIVATE(i, FALSE))
            /\ NoNews(INSPECT(i)) /\ NoNews(REPAIRED(i))
  BY DEF NoNews, FAIL, ONLINE, IMPOSSIBLE, TAU, ACTIVATE, DEACTIVATE, INSPECT, REPAIRED

-----------------------------------------------------------------------------
(* A voting gate. *)

\* The type and the constants of a voting gate.
LEMMA VotingIs ==
  ASSUME NEW g \in Votings
  PROVE  /\ g \in Gates /\ tree[g].type = "voting" /\ tree[g].threshold \in Nat \ {0}
         /\ Len(Children(g)) \in Nat /\ StatesOf(g) = VotingStates(g)
<1>1. g \in Gates /\ tree[g].type = "voting" /\ tree[g].threshold \in Nat \ {0}
  BY NodeAssumption DEF Votings, OfType, Gates, BasicEvents
<1>2. QED  BY <1>1, GateIsNode DEF StatesOf

\* A step that leaves the counter, the flags and the announcement alone is no news.
LEMMA VotingQuiet ==
  ASSUME NEW g \in Votings, Good(g), NEW l, NoNews(l), NEW y \in VotingStates(g),
         y.nr_failed = node[g].nr_failed, y.emit_fail = node[g].emit_fail,
         y.done = node[g].done, y.received = node[g].received
  PROVE  Effect(g, l, y)
<1>1. Sound(g, y)
  BY VotingIs DEF Good, Sound
<1>2. \A j : Hears(g, y, j) <=> Hears(g, node[g], j)
  BY VotingIs DEF Hears
<1>3. Says(g, y) <=> Says(g, node[g])
  BY VotingIs DEF Says
<1>4. \A k : ~Tells(g, y, k) /\ ~Tells(g, node[g], k)
  BY VotingIs DEF Tells
<1>5. QED  BY <1>1, <1>2, <1>3, <1>4, VotingIs, NewsDiffer DEF Effect, Follows

\* Every step of a voting gate follows its label.
LEMMA VotingStep ==
  ASSUME NEW g \in Votings, Good(g), NEW t \in VotingAt(g)!Trans, RuleLabel(g, t[1])
  PROVE  Effect(g, t[1], t[2])
<1> DEFINE x == node[g]  k == tree[g].threshold
<1>1. /\ x \in VotingStates(g) /\ x.mode = "live" /\ k \in Nat \ {0}
      /\ x.nr_failed = Cardinality(x.received)
      /\ x.nr_failed >= k => x.emit_fail \/ x.done
      /\ g \notin Repairable /\ (x.emit_fail \/ x.done) => x.nr_failed >= k
      /\ tree[g].type = "voting" /\ g \in Gates /\ Len(Children(g)) \in Nat
      /\ StatesOf(g) = VotingStates(g)
  BY VotingIs DEF Good, Typed, Working, Works, Sound
<1>2. x.received \in SUBSET Kids(g) /\ x.nr_failed \in Int
  BY <1>1 DEF VotingStates
<1>3. CASE t \in VotingAt(g)!ChildFails
  <2>0. PICK i \in Kids(g) : t = <<FAIL(i), VotingAt(g)!AfterFail(i)>>
    BY <1>3, Zenon DEF VotingAt!ChildFails, VotingAt!Children, Kids, FAIL, VotingAt!FAIL
  <2>1. t[1] = FAIL(i) /\ t[2] = VotingAt(g)!AfterFail(i)
    BY <2>0
  <2>2. CASE i \in x.received
    <3>1. t[2] = x
      BY <2>1, <2>2, Zenon DEF VotingAt!AfterFail
    <3>2. /\ \A j : FAIL(i) # ONLINE(j) /\ (FAIL(i) = FAIL(j) <=> i = j)
          /\ i # 0
      BY NewsDiffer DEF Kids
    <3>3. Follows(g, FAIL(i), x)
      BY <1>1, <2>2, <3>2 DEF Follows, Hears, Tells
    <3>4. QED  BY <1>1, <2>1, <3>1, <3>3 DEF Effect, Good
  <2>3. CASE i \notin x.received
    <3> DEFINE e == x.emit_fail \/ (x.nr_failed + 1 = k /\ ~x.done)
               y == [x EXCEPT !.received = x.received \cup {i},
                              !.nr_failed = x.nr_failed + 1, !.emit_fail = e]
    <3>1. t[2] = y
      BY <2>1, <2>3, Zenon DEF VotingAt!AfterFail
    <3>2. e \in BOOLEAN /\ x.received \cup {i} \in SUBSET Kids(g) /\ x.nr_failed + 1 \in Int
      BY <1>1, <1>2 DEF VotingStates
    <3> HIDE DEF e
    <3>3. y \in VotingStates(g)
      BY <1>1, <3>2, Zenon DEF VotingStates
    <3>4. /\ y.received = x.received \cup {i} /\ y.nr_failed = x.nr_failed + 1
          /\ y.emit_fail = e /\ y.done = x.done
      BY <1>1, Zenon DEF VotingStates
    <3>5. e <=> x.emit_fail \/ (x.nr_failed + 1 = k /\ ~x.done)
      BY Zenon DEF e
    <3>6. y.nr_failed = Cardinality(y.received)
      BY <1>1, <1>2, <2>3, <3>4, FlagCounts DEF Kids
    <3> HIDE DEF y
    <3>7. Sound(g, y)
      BY <1>1, <1>2, <3>4, <3>5, <3>6 DEF Sound
    <3>8. /\ \A j : FAIL(i) # ONLINE(j) /\ (FAIL(i) = FAIL(j) <=> i = j)
          /\ i # 0
      BY NewsDiffer DEF Kids
    <3>9. Follows(g, FAIL(i), y)
      BY <1>1, <3>4, <3>8 DEF Follows, Hears, Says, Tells
    <3>10. QED  BY <1>1, <2>1, <3>1, <3>3, <3>7, <3>9 DEF Effect
  <2>4. QED  BY <2>2, <2>3
<1>4. CASE t \in VotingAt(g)!ChildOnline
  <2>0. PICK i \in Kids(g) : t = <<ONLINE(i), VotingAt(g)!AfterOnline(i)>>
    BY <1>4, Zenon DEF VotingAt!ChildOnline, VotingAt!Children, Kids, ONLINE, VotingAt!ONLINE
  <2>1. t[1] = ONLINE(i) /\ t[2] = VotingAt(g)!AfterOnline(i)
    BY <2>0
  <2>2. CASE i \notin x.received
    <3> DEFINE y == [x EXCEPT !.mode = "impossible"]
    <3>1. t[2] = y
      BY <2>1, <2>2, Zenon DEF VotingAt!AfterOnline, VotingAt!Impossible
    <3>2. y \in VotingStates(g) /\ y.mode = "impossible"
      BY <1>1 DEF VotingStates, Modes
    <3> HIDE DEF y
    <3>3. QED  BY <1>1, <3>1, <3>2 DEF Effect, Works
  <2>3. CASE i \in x.received
    <3> DEFINE y == [x EXCEPT !.received = x.received \ {i}, !.nr_failed = x.nr_failed - 1]
    <3>1. t[2] = y
      BY <2>1, <2>3, Zenon DEF VotingAt!AfterOnline
    <3>2. x.received \ {i} \in SUBSET Kids(g) /\ x.nr_failed - 1 \in Int
      BY <1>2
    <3>3. y \in VotingStates(g)
      BY <1>1, <3>2, Zenon DEF VotingStates
    <3>4. /\ y.received = x.received \ {i} /\ y.nr_failed = x.nr_failed - 1
          /\ y.emit_fail = x.emit_fail /\ y.done = x.done
      BY <1>1, Zenon DEF VotingStates
    <3> HIDE DEF y
    <3>5. y.nr_failed = Cardinality(y.received)
      <4>1. Cardinality(x.received \ {i}) = Cardinality(x.received) - 1
        <5>1. Len(Children(g)) \in Nat /\ x.received \in SUBSET Kids(g)
          BY <1>1, <1>2
        <5>2. QED  BY <2>3, <5>1, FlagCounts DEF Kids
      <4>2. QED  BY <1>1, <3>4, <4>1
    <3>6. g \in Repairable
      BY <2>1 DEF RuleLabel
    <3>7. Sound(g, y)
      BY <1>1, <1>2, <3>4, <3>5, <3>6 DEF Sound
    <3>8. /\ \A j : FAIL(j) # ONLINE(i) /\ (ONLINE(i) = ONLINE(j) <=> i = j)
          /\ i # 0
      BY NewsDiffer DEF Kids
    <3>9. Follows(g, ONLINE(i), y)
      BY <1>1, <3>4, <3>8 DEF Follows, Hears, Says, Tells
    <3>10. QED  BY <1>1, <2>1, <3>1, <3>3, <3>7, <3>9 DEF Effect
  <2>4. QED  BY <2>2, <2>3
<1>5. CASE t \in VotingAt(g)!AnnounceFail
  <2> DEFINE y == [x EXCEPT !.done = TRUE, !.emit_fail = FALSE]
  <2>1. t = <<FAIL(0), y>> /\ x.emit_fail
    BY <1>5, Zenon DEF VotingAt!AnnounceFail, VotingAt!Offer, FAIL, VotingAt!FAIL
  <2>2. y \in VotingStates(g)
    BY <1>1, Zenon DEF VotingStates
  <2>3. /\ y.received = x.received /\ y.nr_failed = x.nr_failed
        /\ y.emit_fail = FALSE /\ y.done = TRUE
    BY <1>1, Zenon DEF VotingStates
  <2> HIDE DEF y
  <2>4. Sound(g, y)
    BY <1>1, <2>1, <2>3 DEF Sound
  <2>5. /\ \A j : FAIL(0) # ONLINE(j) /\ (FAIL(0) = FAIL(j) <=> 0 = j)
        /\ 0 \notin Kids(g)
    BY NewsDiffer DEF Kids
  <2>6. Follows(g, FAIL(0), y)
    BY <1>1, <2>3, <2>5 DEF Follows, Hears, Says, Tells
  <2>7. QED  BY <1>1, <2>1, <2>2, <2>4, <2>6 DEF Effect
<1>6. CASE t \in VotingAt(g)!AnnounceOnline
  <2> DEFINE y == [x EXCEPT !.done = FALSE]
  <2>1. t = <<ONLINE(0), y>> /\ x.done /\ x.nr_failed < k
    BY <1>6, Zenon DEF VotingAt!AnnounceOnline, VotingAt!Offer, ONLINE, VotingAt!ONLINE
  <2>2. y \in VotingStates(g)
    BY <1>1, Zenon DEF VotingStates
  <2>3. /\ y.received = x.received /\ y.nr_failed = x.nr_failed
        /\ y.emit_fail = x.emit_fail /\ y.done = FALSE
    BY <1>1, Zenon DEF VotingStates
  <2>4. ~(x.nr_failed >= k) /\ g \in Repairable
    BY <1>1, <1>2, <2>1
  <2> HIDE DEF y
  <2>5. Sound(g, y)
    BY <1>1, <2>3, <2>4 DEF Sound
  <2>6. /\ \A j : FAIL(j) # ONLINE(0) /\ (ONLINE(0) = ONLINE(j) <=> 0 = j)
        /\ 0 \notin Kids(g)
    BY NewsDiffer DEF Kids
  <2>7. Follows(g, ONLINE(0), y)
    BY <1>1, <2>3, <2>4, <2>6 DEF Follows, Hears, Says, Tells
  <2>8. QED  BY <1>1, <2>1, <2>2, <2>5, <2>7 DEF Effect
<1>7. CASE t \in VotingAt(g)!Activated
  <2> DEFINE y == [x EXCEPT !.running = TRUE]
  <2>1. t = <<ACTIVATE(0, FALSE), y>>
    BY <1>7, Zenon DEF VotingAt!Activated, VotingAt!Offer, ACTIVATE, VotingAt!ACTIVATE
  <2>2. /\ y \in VotingStates(g) /\ y.received = x.received /\ y.nr_failed = x.nr_failed
        /\ y.emit_fail = x.emit_fail /\ y.done = x.done
    BY <1>1 DEF VotingStates
  <2> HIDE DEF y
  <2>3. Effect(g, ACTIVATE(0, FALSE), y)
    BY <2>2, NewsDiffer, VotingQuiet
  <2>4. QED  BY <2>1, <2>3
<1>8. CASE t \in VotingAt(g)!Deactivated
  <2> DEFINE r == [x EXCEPT !.running = FALSE]
             z == [x EXCEPT !.mode = "impossible"]
             y == IF g \in AlwaysActive THEN z ELSE r
  <2>1. t = <<DEACTIVATE(0, FALSE), y>>
    BY <1>8, Zenon DEF VotingAt!Deactivated, VotingAt!Impossible, DEACTIVATE, VotingAt!DEACTIVATE
  <2>2. /\ r \in VotingStates(g) /\ r.received = x.received /\ r.nr_failed = x.nr_failed
        /\ r.emit_fail = x.emit_fail /\ r.done = x.done
        /\ z \in VotingStates(g) /\ z.mode = "impossible"
    BY <1>1 DEF VotingStates, Modes
  <2>3. y \in {r, z}
    BY Zenon
  <2> HIDE DEF r, z, y
  <2>4. Effect(g, DEACTIVATE(0, FALSE), r)
    BY <2>2, NewsDiffer, VotingQuiet
  <2>5. Effect(g, DEACTIVATE(0, FALSE), z)
    BY <1>1, <2>2 DEF Effect, Works
  <2>6. QED  BY <2>1, <2>3, <2>4, <2>5
<1>9. CASE t \in VotingAt(g)!ActivateChild \cup VotingAt(g)!DeactivateChild
  <2> DEFINE a(i) == [x EXCEPT !.activated = @ \cup {i}]
             d(i) == [x EXCEPT !.activated = @ \ {i}]
  <2>1. x.activated \subseteq Kids(g)
    BY <1>1 DEF VotingStates
  <2>2. \E i \in Kids(g) : t = <<ACTIVATE(i, TRUE), a(i)>> \/ t = <<DEACTIVATE(i, TRUE), d(i)>>
    <3>1. CASE t \in VotingAt(g)!ActivateChild
      BY <3>1, Zenon DEF VotingAt!ActivateChild, VotingAt!ToActivate, VotingAt!Children,
                         Kids, ACTIVATE, VotingAt!ACTIVATE
    <3>2. CASE t \in VotingAt(g)!DeactivateChild
      BY <2>1, <3>2, Zenon DEF VotingAt!DeactivateChild, VotingAt!ToDeactivate,
                               DEACTIVATE, VotingAt!DEACTIVATE
    <3>3. QED  BY <1>9, <3>1, <3>2
  <2>3. PICK i \in Kids(g) : t = <<ACTIVATE(i, TRUE), a(i)>> \/ t = <<DEACTIVATE(i, TRUE), d(i)>>
    BY <2>2, Zenon
  <2>4. /\ a(i) \in VotingStates(g) /\ a(i).received = x.received
        /\ a(i).nr_failed = x.nr_failed
        /\ a(i).emit_fail = x.emit_fail /\ a(i).done = x.done
        /\ d(i) \in VotingStates(g) /\ d(i).received = x.received
        /\ d(i).nr_failed = x.nr_failed
        /\ d(i).emit_fail = x.emit_fail /\ d(i).done = x.done
    BY <1>1 DEF VotingStates
  <2> HIDE DEF a, d
  <2>5. Effect(g, ACTIVATE(i, TRUE), a(i)) /\ Effect(g, DEACTIVATE(i, TRUE), d(i))
    BY <2>4, NewsDiffer, VotingQuiet
  <2>6. CASE t = <<ACTIVATE(i, TRUE), a(i)>>
    BY <2>5, <2>6
  <2>7. CASE t = <<DEACTIVATE(i, TRUE), d(i)>>
    BY <2>5, <2>7
  <2>8. QED  BY <2>3, <2>6, <2>7
<1>10. \/ t \in VotingAt(g)!ChildFails \/ t \in VotingAt(g)!AnnounceFail
      \/ t \in VotingAt(g)!ChildOnline \/ t \in VotingAt(g)!AnnounceOnline
      \/ t \in VotingAt(g)!Activated \/ t \in VotingAt(g)!Deactivated
      \/ t \in VotingAt(g)!ActivateChild \cup VotingAt(g)!DeactivateChild
  BY <1>1 DEF VotingAt!Trans
<1>11. QED  BY <1>3, <1>4, <1>5, <1>6, <1>7, <1>8, <1>9, <1>10

-----------------------------------------------------------------------------
(* A priority-AND gate. *)

\* The type and the constants of a priority-AND gate.
LEMMA PAndIs ==
  ASSUME NEW g \in PAnds
  PROVE  /\ g \in Gates /\ tree[g].type = "pand" /\ Len(Children(g)) \in Nat \ {0}
         /\ StatesOf(g) = PAndStates(g)
<1>1. g \in Gates /\ tree[g].type = "pand"
  BY DEF PAnds, OfType, Gates, BasicEvents
<1>2. QED  BY <1>1, GateIsNode DEF StatesOf, Kids

\* A step that leaves the failed children and the announcement alone is no news.
LEMMA PAndQuiet ==
  ASSUME NEW g \in PAnds, Good(g), NEW l, NoNews(l), NEW y \in PAndStates(g),
         y.failed = node[g].failed, y.done = node[g].done,
         y.in_order_mark = node[g].in_order_mark
  PROVE  Effect(g, l, y)
<1>1. Sound(g, y)
  BY PAndIs DEF Good, Sound
<1>2. \A j : Hears(g, y, j) <=> Hears(g, node[g], j)
  BY PAndIs DEF Hears
<1>3. Says(g, y) <=> Says(g, node[g])
  BY PAndIs DEF Says
<1>4. \A k : ~Tells(g, y, k) /\ ~Tells(g, node[g], k)
  BY PAndIs DEF Tells
<1>5. QED  BY <1>1, <1>2, <1>3, <1>4, PAndIs, NewsDiffer DEF Effect, Follows

\* Every step of a priority-AND gate follows its label.
LEMMA PAndStep ==
  ASSUME NEW g \in PAnds, Good(g), NEW t \in PAndAt(g)!Trans, RuleLabel(g, t[1])
  PROVE  Effect(g, t[1], t[2])
<1> DEFINE x == node[g]  m == Len(Children(g))
           z == [x EXCEPT !.mode = "impossible"]
<1>1. /\ x \in PAndStates(g) /\ x.mode = "live" /\ m \in Nat \ {0}
      /\ g \notin Repairable /\ x.done => x.in_order_mark = m
      /\ tree[g].type = "pand" /\ g \in Gates /\ StatesOf(g) = PAndStates(g)
  BY PAndIs DEF Good, Typed, Working, Works, Sound
<1>2. /\ x.failed \in SUBSET Kids(g) /\ x.nr_failed \in Int /\ x.nr_active \in Int
      /\ x.in_order_mark \in Places(g)
  BY <1>1 DEF PAndStates
<1>3. ASSUME NEW l  PROVE  Effect(g, l, z)
  <2>1. z \in PAndStates(g) /\ z.mode = "impossible"
    BY <1>1 DEF PAndStates, Modes
  <2> HIDE DEF z
  <2>2. QED  BY <1>1, <2>1 DEF Effect, Works
<1>4. CASE t \in PAndAt(g)!ChildFails
  <2>1. PICK i \in Kids(g) : t = <<FAIL(i), PAndAt(g)!AfterFail(i)>>
    BY <1>4, Zenon DEF PAndAt!ChildFails, PAndAt!Children, Kids, FAIL, PAndAt!FAIL
  <2>2. /\ \A j : FAIL(i) # ONLINE(j) /\ (FAIL(i) = FAIL(j) <=> i = j)
        /\ i # 0
    BY NewsDiffer DEF Kids
  <2>3. CASE i \in x.failed
    <3>1. t = <<FAIL(i), x>>
      BY <2>1, <2>3, Zenon DEF PAndAt!AfterFail
    <3>2. Follows(g, FAIL(i), x)
      BY <1>1, <2>2, <2>3 DEF Follows, Hears, Tells
    <3>3. QED  BY <1>1, <3>1, <3>2 DEF Effect, Good
  <2>4. CASE i \notin x.failed
    <3> DEFINE o == IF i = x.in_order_mark + 1 THEN i ELSE x.in_order_mark
               y == [x EXCEPT !.failed = x.failed \cup {i},
                              !.nr_failed = x.nr_failed + 1, !.in_order_mark = o]
    <3>1. t = <<FAIL(i), y>>
      BY <2>1, <2>4, Zenon DEF PAndAt!AfterFail
    <3>2. /\ o \in Places(g) /\ x.failed \cup {i} \in SUBSET Kids(g) /\ x.nr_failed + 1 \in Int
          /\ x.in_order_mark = m => o = m
      BY <1>1, <1>2 DEF Kids, Places
    <3> HIDE DEF o
    <3>3. y \in PAndStates(g)
      BY <1>1, <3>2, Zenon DEF PAndStates
    <3>4. y.failed = x.failed \cup {i} /\ y.in_order_mark = o /\ y.done = x.done
      BY <1>1, Zenon DEF PAndStates
    <3> HIDE DEF y
    <3>5. Sound(g, y)
      BY <1>1, <3>2, <3>4 DEF Sound
    <3>6. Follows(g, FAIL(i), y)
      BY <1>1, <2>2, <3>4 DEF Follows, Hears, Says, Tells
    <3>7. QED  BY <1>1, <3>1, <3>3, <3>5, <3>6 DEF Effect
  <2>5. QED  BY <2>3, <2>4
<1>5. CASE t \in PAndAt(g)!ChildOnline
  <2>1. PICK i \in Kids(g) : t = <<ONLINE(i), PAndAt(g)!AfterOnline(i)>>
    BY <1>5, Zenon DEF PAndAt!ChildOnline, PAndAt!Children, Kids, ONLINE, PAndAt!ONLINE
  <2> DEFINE o == IF i <= x.in_order_mark THEN i - 1 ELSE x.in_order_mark
             y == [x EXCEPT !.failed = x.failed \ {i},
                            !.nr_failed = x.nr_failed - 1, !.in_order_mark = o]
  <2>2. t = <<ONLINE(i), z>> \/ t = <<ONLINE(i), y>>
    BY <2>1, Zenon DEF PAndAt!AfterOnline, PAndAt!Impossible
  <2>3. CASE t = <<ONLINE(i), z>>
    <3> HIDE DEF z
    <3>1. QED  BY <1>3, <2>3
  <2>4. CASE t = <<ONLINE(i), y>>
    <3>1. /\ o \in Places(g) /\ x.failed \ {i} \in SUBSET Kids(g) /\ x.nr_failed - 1 \in Int
      BY <1>1, <1>2 DEF Kids, Places
    <3> HIDE DEF o
    <3>2. y \in PAndStates(g)
      BY <1>1, <3>1, Zenon DEF PAndStates
    <3>3. y.failed = x.failed \ {i} /\ y.done = x.done
      BY <1>1, Zenon DEF PAndStates
    <3>4. g \in Repairable
      BY <2>4 DEF RuleLabel
    <3> HIDE DEF y
    <3>5. Sound(g, y)
      BY <1>1, <3>4 DEF Sound
    <3>6. /\ \A j : FAIL(j) # ONLINE(i) /\ (ONLINE(i) = ONLINE(j) <=> i = j)
          /\ i # 0
      BY NewsDiffer DEF Kids
    <3>7. Follows(g, ONLINE(i), y)
      BY <1>1, <3>3, <3>6 DEF Follows, Hears, Says, Tells
    <3>8. QED  BY <1>1, <2>4, <3>2, <3>5, <3>7 DEF Effect
  <2>5. QED  BY <2>2, <2>3, <2>4
<1>6. CASE t \in PAndAt(g)!AnnounceFail
  <2> DEFINE y == [x EXCEPT !.done = TRUE]
  <2>1. t = <<FAIL(0), y>> /\ x.in_order_mark = m
    BY <1>6, Zenon DEF PAndAt!AnnounceFail, PAndAt!Offer, FAIL, PAndAt!FAIL
  <2>2. /\ y \in PAndStates(g) /\ y.failed = x.failed /\ y.done = TRUE
        /\ y.in_order_mark = x.in_order_mark
    BY <1>1, Zenon DEF PAndStates
  <2> HIDE DEF y
  <2>3. Sound(g, y)
    BY <1>1, <2>1, <2>2 DEF Sound
  <2>4. /\ \A j : FAIL(0) # ONLINE(j) /\ (FAIL(0) = FAIL(j) <=> 0 = j)
        /\ 0 \notin Kids(g)
    BY NewsDiffer DEF Kids
  <2>5. Follows(g, FAIL(0), y)
    BY <1>1, <2>2, <2>4 DEF Follows, Hears, Says, Tells
  <2>6. QED  BY <1>1, <2>1, <2>2, <2>3, <2>5 DEF Effect
<1>7. CASE t \in PAndAt(g)!AnnounceOnline
  <2> DEFINE y == [x EXCEPT !.done = FALSE]
  <2>1. t = <<ONLINE(0), y>> /\ x.done /\ x.in_order_mark < m
    BY <1>7, Zenon DEF PAndAt!AnnounceOnline, PAndAt!Offer, ONLINE, PAndAt!ONLINE
  <2>2. y \in PAndStates(g) /\ y.failed = x.failed /\ y.done = FALSE
    BY <1>1, Zenon DEF PAndStates
  <2>3. g \in Repairable
    BY <1>1, <2>1
  <2> HIDE DEF y
  <2>4. Sound(g, y)
    BY <1>1, <2>2 DEF Sound
  <2>5. /\ \A j : FAIL(j) # ONLINE(0) /\ (ONLINE(0) = ONLINE(j) <=> 0 = j)
        /\ 0 \notin Kids(g)
    BY NewsDiffer DEF Kids
  <2>6. Follows(g, ONLINE(0), y)
    BY <1>1, <2>2, <2>3, <2>5 DEF Follows, Hears, Says, Tells
  <2>7. QED  BY <1>1, <2>1, <2>2, <2>4, <2>6 DEF Effect
<1>8. CASE t \in PAndAt(g)!Activated \cup PAndAt(g)!ActivateChild
  <2> DEFINE y(v) == [x EXCEPT !.nr_active = v]
             v1 == IF g \notin AlwaysActive /\ x.nr_active = 0 THEN 1 ELSE x.nr_active
             v2 == IF x.nr_active < m THEN x.nr_active + 1 ELSE 0
  <2>1. \/ t = <<ACTIVATE(0, FALSE), y(v1)>>
        \/ t = <<ACTIVATE(x.nr_active, TRUE), y(v2)>>
    <3>1. CASE t \in PAndAt(g)!Activated
      BY <3>1, Zenon DEF PAndAt!Activated, ACTIVATE, PAndAt!ACTIVATE
    <3>2. CASE t \in PAndAt(g)!ActivateChild
      BY <3>2, Zenon DEF PAndAt!ActivateChild, PAndAt!NextActive, PAndAt!Offer,
                         ACTIVATE, PAndAt!ACTIVATE
    <3>3. QED  BY <1>8, <3>1, <3>2
  <2>2. v1 \in Int /\ v2 \in Int
    BY <1>2
  <2>3. ASSUME NEW v \in Int
        PROVE  /\ y(v) \in PAndStates(g) /\ y(v).failed = x.failed /\ y(v).done = x.done
               /\ y(v).in_order_mark = x.in_order_mark
    BY <1>1, Zenon DEF PAndStates
  <2> HIDE DEF v1, v2, y
  <2>4. Effect(g, ACTIVATE(0, FALSE), y(v1)) /\ Effect(g, ACTIVATE(x.nr_active, TRUE), y(v2))
    BY <2>2, <2>3, NewsDiffer, PAndQuiet
  <2>5. CASE t = <<ACTIVATE(0, FALSE), y(v1)>>
    BY <2>4, <2>5
  <2>6. CASE t = <<ACTIVATE(x.nr_active, TRUE), y(v2)>>
    BY <2>4, <2>6
  <2>7. QED  BY <2>1, <2>5, <2>6
<1>9. CASE t \in PAndAt(g)!Deactivated
  <2>1. t = <<DEACTIVATE(0, FALSE), z>>
    BY <1>9, Zenon DEF PAndAt!Deactivated, PAndAt!Impossible, DEACTIVATE, PAndAt!DEACTIVATE
  <2> HIDE DEF z
  <2>2. QED  BY <1>3, <2>1
<1>10. \/ t \in PAndAt(g)!ChildFails \/ t \in PAndAt(g)!AnnounceFail
       \/ t \in PAndAt(g)!ChildOnline \/ t \in PAndAt(g)!AnnounceOnline
       \/ t \in PAndAt(g)!Activated \cup PAndAt(g)!ActivateChild
       \/ t \in PAndAt(g)!Deactivated
  BY <1>1 DEF PAndAt!Trans
<1>11. QED  BY <1>4, <1>5, <1>6, <1>7, <1>8, <1>9, <1>10

-----------------------------------------------------------------------------
(* A dependency gate. *)

\* The type and the constants of a dependency gate.
LEMMA FDepIs ==
  ASSUME NEW f \in FDeps
  PROVE  /\ f \in Gates /\ tree[f].type = "fdep" /\ Kids(f) = {1}
         /\ Dependers(f) \in Seq(Nodes) /\ Len(Dependers(f)) \in Nat
         /\ StatesOf(f) = FDepStates(f)
<1>1. f \in Gates /\ tree[f].type = "fdep" /\ Len(Children(f)) = 1 /\ Dependers(f) \in Seq(Nodes)
  BY NodeAssumption DEF FDeps, OfType, Gates, BasicEvents
<1>2. QED  BY <1>1 DEF StatesOf, Kids

\* Every step of a dependency gate follows its label.
LEMMA FDepStep ==
  ASSUME NEW f \in FDeps, Good(f), NEW t \in FDepAt(f)!Trans
  PROVE  Effect(f, t[1], t[2])
<1> DEFINE x == node[f]
<1>1. /\ x \in FDepStates(f)
      /\ x.notified # {} => x.failed
      /\ tree[f].type = "fdep" /\ StatesOf(f) = FDepStates(f) /\ Kids(f) = {1}
  BY FDepIs DEF Good, Typed, Working, Works, Sound
<1>2. CASE t \in FDepAt(f)!TriggerFails
  <2> DEFINE y == [x EXCEPT !.failed = TRUE]
  <2>1. t = <<FAIL(1), y>>
    BY <1>2, Zenon DEF FDepAt!TriggerFails, FAIL, FDepAt!FAIL
  <2>2. y \in FDepStates(f) /\ y.failed = TRUE /\ y.notified = x.notified
    BY <1>1, Zenon DEF FDepStates
  <2> HIDE DEF y
  <2>3. Sound(f, y)
    BY <1>1, <2>2 DEF Sound
  <2>4. /\ \A j : FAIL(1) # ONLINE(j) /\ (FAIL(1) = FAIL(j) <=> 1 = j)
        /\ \A k \in Nat \ {0} : k + 1 # 1
    BY NewsDiffer
  <2>5. Follows(f, FAIL(1), y)
    BY <1>1, <2>2, <2>4 DEF Follows, Hears, Says, Tells
  <2>6. QED  BY <1>1, <2>1, <2>2, <2>3, <2>5 DEF Effect
<1>3. CASE t \in FDepAt(f)!Activated \cup FDepAt(f)!ActivateTrigger
  <2> DEFINE y(v) == [x EXCEPT !.act = v]
  <2>1. \/ t = <<ACTIVATE(0, FALSE), y(TRUE)>>
        \/ t = <<ACTIVATE(1, TRUE), y(FALSE)>>
    <3>1. CASE t \in FDepAt(f)!Activated
      BY <3>1, Zenon DEF FDepAt!Activated, ACTIVATE, FDepAt!ACTIVATE
    <3>2. CASE t \in FDepAt(f)!ActivateTrigger
      BY <3>2, Zenon DEF FDepAt!ActivateTrigger, FDepAt!Offer, ACTIVATE, FDepAt!ACTIVATE
    <3>3. QED  BY <1>3, <3>1, <3>2
  <2>2. ASSUME NEW v \in BOOLEAN, NEW l, NoNews(l)  PROVE  Effect(f, l, y(v))
    <3>1. y(v) \in FDepStates(f) /\ y(v).failed = x.failed /\ y(v).notified = x.notified
      BY <1>1, Zenon DEF FDepStates
    <3> HIDE DEF y
    <3>2. Sound(f, y(v))
      BY <1>1, <3>1 DEF Sound
    <3>3. Follows(f, l, y(v))
      BY <1>1, <2>2, <3>1, NewsDiffer DEF Follows, Hears, Says, Tells
    <3>4. QED  BY <1>1, <3>1, <3>2, <3>3 DEF Effect
  <2> HIDE DEF y
  <2>3. Effect(f, ACTIVATE(0, FALSE), y(TRUE)) /\ Effect(f, ACTIVATE(1, TRUE), y(FALSE))
    BY <2>2, NewsDiffer
  <2>4. CASE t = <<ACTIVATE(0, FALSE), y(TRUE)>>
    BY <2>3, <2>4
  <2>5. CASE t = <<ACTIVATE(1, TRUE), y(FALSE)>>
    BY <2>3, <2>5
  <2>6. QED  BY <2>1, <2>4, <2>5
<1>4. CASE t \in FDepAt(f)!NotifyParents
  <2> DEFINE y(k) == [x EXCEPT !.notified = @ \cup {k}]
  <2>1. PICK k \in 1..Len(Dependers(f)) : t = <<FAIL(k + 1), y(k)>> /\ x.failed
    BY <1>4, Zenon DEF FDepAt!NotifyParents, FAIL, FDepAt!FAIL
  <2>2. /\ y(k) \in FDepStates(f) /\ y(k).failed = x.failed
        /\ y(k).notified = x.notified \cup {k}
    BY <1>1 DEF FDepStates
  <2> HIDE DEF y
  <2>3. Sound(f, y(k))
    BY <1>1, <2>1, <2>2 DEF Sound
  <2>4. /\ \A j : FAIL(k + 1) # ONLINE(j) /\ (FAIL(k + 1) = FAIL(j) <=> k + 1 = j)
        /\ k \in Nat \ {0} /\ Len(Dependers(f)) \in Nat
    BY NewsDiffer, FDepIs
  <2>5. Follows(f, FAIL(k + 1), y(k))
    BY <1>1, <2>1, <2>2, <2>4 DEF Follows, Hears, Says, Tells
  <2>6. QED  BY <1>1, <2>1, <2>2, <2>3, <2>5 DEF Effect
<1>5. QED  BY <1>2, <1>3, <1>4 DEF FDepAt!Trans

-----------------------------------------------------------------------------
(* What a spare gate hears and says. *)

\* The type of a spare gate.
LEMMA SpareIs ==
  ASSUME NEW g \in Spares
  PROVE  g \in Gates /\ tree[g].type = "wsp" /\ StatesOf(g) = SpareStates(g)
  BY DEF Spares, OfType, Gates, BasicEvents, StatesOf

\* add_transition changes nothing that a spare gate knows or says.
LEMMA SettleKeeps ==
  ASSUME NEW g \in Spares, NEW x \in SpareStates(g)
  PROVE  /\ SpareAt(g)!Settle(x).unfailed = x.unfailed
         /\ SpareAt(g)!Settle(x).done = x.done
         /\ SpareAt(g)!Settle(x).mode = x.mode
<1> DEFINE d == IF x.repairing_deactivate = 1 THEN 0 ELSE x.repairing_deactivate
           u == [x EXCEPT !.prev_using = x.cur_using, !.cur_using = 1,
                          !.repairing_deactivate = d]
           w(v) == [v EXCEPT !.prev_using = 0, !.cur_using = 0]
           F == {"unfailed", "unclaimed", "repairing_deactivate", "cur_using",
                 "prev_using", "done", "activated", "mode"}
           Like(v) == /\ DOMAIN v = F /\ v = [f \in F |-> v[f]]
                      /\ v.unfailed = x.unfailed /\ v.done = x.done /\ v.mode = x.mode
<1>1. Like(x)
  BY DEF SpareStates
<1>2. Like(u)
  <2>1. /\ DOMAIN u = F /\ u = [f \in F |-> u[f]]
    BY <1>1, Zenon
  <2>2. u.unfailed = x.unfailed /\ u.done = x.done /\ u.mode = x.mode
    BY <1>1, Zenon
  <2>3. QED  BY <2>1, <2>2
<1>3. ASSUME NEW v, Like(v)  PROVE  Like(w(v))
  <2>1. /\ DOMAIN w(v) = F /\ w(v) = [f \in F |-> w(v)[f]]
    BY <1>3, Zenon
  <2>2. w(v).unfailed = v.unfailed /\ w(v).done = v.done /\ w(v).mode = v.mode
    BY <1>3, Zenon
  <2>3. QED  BY <1>3, <2>1, <2>2
<1>4. SpareAt(g)!ReturnToPrimary(x) \in {x, u}
  BY Zenon DEF SpareAt!ReturnToPrimary
<1>5. \A v : SpareAt(g)!KeepPrimary(v) \in {v, w(v)}
  BY Zenon DEF SpareAt!KeepPrimary
<1>6. SpareAt(g)!Settle(x) \in {x, SpareAt(g)!KeepPrimary(SpareAt(g)!ReturnToPrimary(x))}
  BY Zenon DEF SpareAt!Settle
<1> HIDE DEF u, w, Like
<1>7. Like(SpareAt(g)!Settle(x))
  BY <1>1, <1>2, <1>3, <1>4, <1>5, <1>6
<1>8. QED  BY <1>7 DEF Like

\* What a step of a spare gate with label l does to what it knows and says.
SpareNews(g, l, y) ==
  \/ y.mode # "live"
  \/ /\ NoNews(l) /\ y.unfailed = node[g].unfailed /\ y.done = node[g].done
  \/ /\ l = FAIL(0) /\ y.unfailed = node[g].unfailed /\ y.done = TRUE
  \/ /\ l = ONLINE(0) /\ y.unfailed = node[g].unfailed /\ y.done = FALSE
  \/ \E i \in Kids(g) : /\ l = FAIL(i) /\ y.unfailed = node[g].unfailed \ {i}
                        /\ y.done = node[g].done
  \/ \E i \in Kids(g) : /\ l = ONLINE(i) /\ y.unfailed = node[g].unfailed \cup {i}
                        /\ y.done = node[g].done

\* Such a state follows the label.
LEMMA SpareNewsFollows ==
  ASSUME NEW g \in Spares, Good(g), NEW l, NEW y \in SpareStates(g), Clean(g, y),
         SpareNews(g, l, y)
  PROVE  Effect(g, l, y)
<1>1. /\ tree[g].type = "wsp" /\ g \in Gates /\ StatesOf(g) = SpareStates(g)
      /\ 0 \notin Kids(g)
  BY SpareIs DEF Kids
<1>2. Sound(g, y)
  BY <1>1 DEF Sound
<1>3. CASE y.mode # "live"
  BY <1>1, <1>3 DEF Effect, Works
<1>4. CASE NoNews(l) /\ y.unfailed = node[g].unfailed /\ y.done = node[g].done
  <2>1. Follows(g, l, y)
    BY <1>1, <1>4, NewsDiffer DEF Follows, Hears, Says, Tells
  <2>2. QED  BY <1>1, <1>2, <2>1 DEF Effect
<1>5. CASE l = FAIL(0) /\ y.unfailed = node[g].unfailed /\ y.done = TRUE
  <2>1. /\ \A j : l # ONLINE(j) /\ (l = FAIL(j) <=> 0 = j)
    BY <1>5, NewsDiffer
  <2>2. Follows(g, l, y)
    BY <1>1, <1>5, <2>1 DEF Follows, Hears, Says, Tells
  <2>3. QED  BY <1>1, <1>2, <2>2 DEF Effect
<1>6. CASE l = ONLINE(0) /\ y.unfailed = node[g].unfailed /\ y.done = FALSE
  <2>1. /\ \A j : l # FAIL(j) /\ (l = ONLINE(j) <=> 0 = j)
    BY <1>6, NewsDiffer
  <2>2. Follows(g, l, y)
    BY <1>1, <1>6, <2>1 DEF Follows, Hears, Says, Tells
  <2>3. QED  BY <1>1, <1>2, <2>2 DEF Effect
<1>7. ASSUME NEW i \in Kids(g), l = FAIL(i), y.unfailed = node[g].unfailed \ {i},
             y.done = node[g].done
      PROVE  Effect(g, l, y)
  <2>1. /\ \A j : l # ONLINE(j) /\ (l = FAIL(j) <=> i = j)
    BY <1>7, NewsDiffer
  <2>2. Follows(g, l, y)
    BY <1>1, <1>7, <2>1 DEF Follows, Hears, Says, Tells
  <2>3. QED  BY <1>1, <1>2, <2>2 DEF Effect
<1>8. ASSUME NEW i \in Kids(g), l = ONLINE(i), y.unfailed = node[g].unfailed \cup {i},
             y.done = node[g].done
      PROVE  Effect(g, l, y)
  <2>1. /\ \A j : l # FAIL(j) /\ (l = ONLINE(j) <=> i = j)
    BY <1>8, NewsDiffer
  <2>2. Follows(g, l, y)
    BY <1>1, <1>8, <2>1 DEF Follows, Hears, Says, Tells
  <2>3. QED  BY <1>1, <1>2, <2>2 DEF Effect
<1>9. QED  BY <1>3, <1>4, <1>5, <1>6, <1>7, <1>8 DEF SpareNews

\* add_transition makes no difference to that.
LEMMA SpareNewsLands ==
  ASSUME NEW g \in Spares, NEW l, NEW x \in SpareStates(g), SpareNews(g, l, x)
  PROVE  SpareNews(g, l, SpareAt(g)!Settle(x))
  BY SettleKeeps DEF SpareNews

\* Every handler of a spare gate leads to such a state, or to an error.
LEMMA SpareHandlers ==
  ASSUME NEW g \in Spares, Good(g), NEW t \in SpareAt(g)!Trans
  PROVE  SpareNews(g, t[1], t[2])
<1> DEFINE s == node[g]
           S(x) == SpareAt(g)!Settle(x)
           z == [s EXCEPT !.mode = "impossible"]
<1>1. s \in SpareStates(g) /\ s.mode = "live" /\ SpareOK(g)
  BY SpareIs DEF Good, Typed, Working, Works, Sound, SpareOK
<1>2. /\ 0 \in Places(g) /\ s.cur_using \in Places(g) /\ \A i \in Kids(g) : i \in Places(g)
      /\ s.prev_using \in Places(g) /\ s.repairing_deactivate \in Places(g)
      /\ s.unfailed \in SUBSET Kids(g) /\ s.unclaimed \in SUBSET Kids(g)
  BY <1>1, SpareIsNode DEF SpareStates, Kids, Places
<1>3. z \in SpareStates(g) /\ \A l : SpareNews(g, l, z)
  <2>1. z \in SpareStates(g) /\ z.mode # "live"
    BY <1>1 DEF SpareStates
  <2> HIDE DEF z
  <2>2. QED  BY <2>1 DEF SpareNews
<1>4. \A l : SpareNews(g, l, S(z))
  BY <1>3, SpareNewsLands
<1>5. CASE t \in SpareAt(g)!ChildFails
  <2>1. PICK i \in Kids(g) : t = <<FAIL(i), S(SpareAt(g)!AfterFail(i))>>
    BY <1>5, Zenon DEF SpareAt!ChildFails, SpareAt!Step, SpareAt!Children, Kids,
                       FAIL, SpareAt!FAIL
  <2> DEFINE p == IF i = s.cur_using THEN i ELSE s.prev_using
             x == [s EXCEPT !.unfailed = s.unfailed \ {i}, !.prev_using = p]
  <2>2. SpareAt(g)!AfterFail(i) = x
    BY Zenon DEF SpareAt!AfterFail
  <2>3. p \in Places(g) /\ s.unfailed \ {i} \in SUBSET Kids(g)
    BY <1>2
  <2> HIDE DEF p
  <2>4. x \in SpareStates(g) /\ x.unfailed = s.unfailed \ {i} /\ x.done = s.done
    BY <1>1, <2>3, Zenon DEF SpareStates
  <2> HIDE DEF x
  <2>5. SpareNews(g, FAIL(i), x)
    BY <2>4, Zenon DEF SpareNews
  <2>6. SpareNews(g, FAIL(i), S(x))
    BY <2>4, <2>5, SpareNewsLands
  <2> HIDE DEF S
  <2>7. QED  BY <2>1, <2>2, <2>6
<1>6. CASE t \in SpareAt(g)!ChildOnline
  <2> DEFINE x(i) == [s EXCEPT !.unfailed = @ \cup {i}]
             w(i) == IF ChildrenOf(g) \cap Repairable # {} THEN x(i)
                     ELSE SpareAt(g)!Impossible
  <2>1. SpareAt(g)!ChildOnline = {<<ONLINE(i), S(w(i))>> : i \in Kids(g)}
    BY Zenon DEF SpareAt!ChildOnline, SpareAt!Step, SpareAt!Children, Kids,
                 ONLINE, SpareAt!ONLINE
  <2>2. PICK i \in Kids(g) : t = <<ONLINE(i), S(w(i))>>
    BY <1>6, <2>1, Zenon
  <2>3. w(i) \in {x(i), z}
    BY Zenon DEF SpareAt!Impossible
  <2>4. s.unfailed \cup {i} \in SUBSET Kids(g)
    BY <1>2
  <2>5. x(i) \in SpareStates(g) /\ x(i).unfailed = s.unfailed \cup {i} /\ x(i).done = s.done
    BY <1>1, <2>4, Zenon DEF SpareStates
  <2> HIDE DEF x, w, z
  <2>6. SpareNews(g, ONLINE(i), x(i))
    BY <2>5, Zenon DEF SpareNews
  <2>7. SpareNews(g, ONLINE(i), S(x(i)))
    BY <2>5, <2>6, SpareNewsLands
  <2> HIDE DEF S
  <2>8. SpareNews(g, ONLINE(i), S(w(i)))
    BY <1>4, <2>3, <2>7
  <2>9. QED  BY <2>2, <2>8
<1>7. CASE t \in SpareAt(g)!AnnounceFail \cup SpareAt(g)!AnnounceOnline
  <2> DEFINE x(d) == [s EXCEPT !.done = d]
  <2>1. t = <<FAIL(0), S(x(TRUE))>> \/ t = <<ONLINE(0), S(x(FALSE))>>
    <3>1. CASE t \in SpareAt(g)!AnnounceFail
      BY <3>1, Zenon DEF SpareAt!AnnounceFail, SpareAt!When, SpareAt!Offer, FAIL, SpareAt!FAIL
    <3>2. CASE t \in SpareAt(g)!AnnounceOnline
      BY <3>2, Zenon DEF SpareAt!AnnounceOnline, SpareAt!When, SpareAt!Offer,
                         ONLINE, SpareAt!ONLINE
    <3>3. QED  BY <1>7, <3>1, <3>2
  <2>2. \A d \in BOOLEAN : /\ x(d) \in SpareStates(g) /\ x(d).unfailed = s.unfailed
                           /\ x(d).done = d
    BY <1>1, Zenon DEF SpareStates
  <2> HIDE DEF x
  <2>3. SpareNews(g, FAIL(0), x(TRUE)) /\ SpareNews(g, ONLINE(0), x(FALSE))
    BY <2>2, Zenon DEF SpareNews
  <2>4. SpareNews(g, FAIL(0), S(x(TRUE))) /\ SpareNews(g, ONLINE(0), S(x(FALSE)))
    BY <2>2, <2>3, SpareNewsLands
  <2> HIDE DEF S
  <2>5. CASE t = <<FAIL(0), S(x(TRUE))>>
    BY <2>4, <2>5
  <2>6. CASE t = <<ONLINE(0), S(x(FALSE))>>
    BY <2>4, <2>6
  <2>7. QED  BY <2>1, <2>5, <2>6
<1>8. ASSUME NEW l, NoNews(l), NEW x \in SpareStates(g), x.unfailed = s.unfailed,
             x.done = s.done, t = <<l, S(x)>>
      PROVE  SpareNews(g, t[1], t[2])
  <2>1. SpareNews(g, l, x)
    BY <1>8, Zenon DEF SpareNews
  <2>2. SpareNews(g, l, S(x))
    BY <2>1, SpareNewsLands
  <2> HIDE DEF S
  <2>3. QED  BY <1>8, <2>2
<1>9. CASE t \in SpareAt(g)!Activated
  <2> DEFINE x == [s EXCEPT !.activated = TRUE]
  <2>1. t = <<ACTIVATE(0, FALSE), S(x)>>
    BY <1>9 DEF SpareAt!Activated, SpareAt!Step, ACTIVATE, SpareAt!ACTIVATE
  <2>2. x \in SpareStates(g) /\ x.unfailed = s.unfailed /\ x.done = s.done
    BY <1>1, Zenon DEF SpareStates
  <2> HIDE DEF x, S
  <2>3. QED  BY <1>8, <2>1, <2>2, NewsDiffer
<1>10. CASE t \in SpareAt(g)!Deactivated
  <2> DEFINE u == [s EXCEPT !.activated = FALSE, !.prev_using = s.cur_using]
             x == IF g \in AlwaysActive THEN z ELSE u
  <2>1. t = <<DEACTIVATE(0, FALSE), S(x)>>
    BY <1>10, Zenon DEF SpareAt!Deactivated, SpareAt!Step, SpareAt!Impossible,
                       DEACTIVATE, SpareAt!DEACTIVATE
  <2>2. u \in SpareStates(g) /\ u.unfailed = s.unfailed /\ u.done = s.done
    BY <1>1, <1>2, Zenon DEF SpareStates
  <2>3. x \in {u, z}
    BY Zenon
  <2> HIDE DEF x, u, z, S
  <2>4. CASE x = u
    BY <1>8, <2>1, <2>2, <2>4, NewsDiffer
  <2>5. CASE x = z
    BY <1>4, <2>1, <2>5
  <2>6. QED  BY <2>3, <2>4, <2>5
<1>11. CASE t \in SpareAt(g)!ChildClaimed
  <2> DEFINE u(i) == [s EXCEPT !.unclaimed = @ \ {i}]
             w(i) == IF i = 1 /\ g \in AlwaysActive THEN z ELSE u(i)
  <2>1. PICK i \in Kids(g) : t = <<ACTIVATE(i, FALSE), S(w(i))>>
    BY <1>11, Zenon DEF SpareAt!ChildClaimed, SpareAt!Step, SpareAt!Children, Kids,
                 SpareAt!Impossible, ACTIVATE, SpareAt!ACTIVATE
  <2>2. s.unclaimed \ {i} \in SUBSET Kids(g)
    BY <1>2
  <2>3. u(i) \in SpareStates(g) /\ u(i).unfailed = s.unfailed /\ u(i).done = s.done
    BY <1>1, <2>2, Zenon DEF SpareStates
  <2>4. w(i) \in {u(i), z}
    BY Zenon
  <2> HIDE DEF w, u, z, S
  <2>5. CASE w(i) = u(i)
    BY <1>8, <2>1, <2>3, <2>5, NewsDiffer
  <2>6. CASE w(i) = z
    BY <1>4, <2>1, <2>6
  <2>7. QED  BY <2>4, <2>5, <2>6
<1>12. CASE t \in SpareAt(g)!ChildReleased
  <2> DEFINE u(i) == [s EXCEPT !.unclaimed = @ \cup {i}]
             w(i) == IF \/ i = 1 /\ g \in AlwaysActive
                        \/ i \in {s.prev_using, s.repairing_deactivate}
                     THEN z ELSE u(i)
  <2>1. PICK i \in Kids(g) : t = <<DEACTIVATE(i, FALSE), S(w(i))>>
    BY <1>12, Zenon DEF SpareAt!ChildReleased, SpareAt!Step, SpareAt!Children, Kids,
                 SpareAt!Impossible, DEACTIVATE, SpareAt!DEACTIVATE
  <2>2. s.unclaimed \cup {i} \in SUBSET Kids(g)
    BY <1>2
  <2>3. u(i) \in SpareStates(g) /\ u(i).unfailed = s.unfailed /\ u(i).done = s.done
    BY <1>1, <2>2, Zenon DEF SpareStates
  <2>4. w(i) \in {u(i), z}
    BY Zenon
  <2> HIDE DEF w, u, z, S
  <2>5. CASE w(i) = u(i)
    BY <1>8, <2>1, <2>3, <2>5, NewsDiffer
  <2>6. CASE w(i) = z
    BY <1>4, <2>1, <2>6
  <2>7. QED  BY <2>4, <2>5, <2>6
<1>13. CASE t \in SpareAt(g)!ReleaseFailed
  <2> DEFINE x == [s EXCEPT !.prev_using = 0, !.cur_using = 0]
  <2>1. t = <<DEACTIVATE(s.prev_using, TRUE), S(x)>>
    BY <1>13, Zenon DEF SpareAt!ReleaseFailed, SpareAt!When, SpareAt!Offer,
                       DEACTIVATE, SpareAt!DEACTIVATE
  <2>2. x \in SpareStates(g) /\ x.unfailed = s.unfailed /\ x.done = s.done
    BY <1>1, <1>2, Zenon DEF SpareStates
  <2> HIDE DEF x, S
  <2>3. QED  BY <1>8, <2>1, <2>2, NewsDiffer
<1>14. CASE t \in SpareAt(g)!ReleaseWorse
  <2> DEFINE x == [s EXCEPT !.repairing_deactivate = 0]
  <2>1. t = <<DEACTIVATE(s.repairing_deactivate, TRUE), S(x)>>
    BY <1>14, Zenon DEF SpareAt!ReleaseWorse, SpareAt!When, SpareAt!Offer,
                       DEACTIVATE, SpareAt!DEACTIVATE
  <2>2. x \in SpareStates(g) /\ x.unfailed = s.unfailed /\ x.done = s.done
    BY <1>1, <1>2, Zenon DEF SpareStates
  <2> HIDE DEF x, S
  <2>3. QED  BY <1>8, <2>1, <2>2, NewsDiffer
<1>15. CASE t \in SpareAt(g)!ReportRepaired \cup SpareAt(g)!ForgetRelease
  <2>1. t = <<REPAIRED(0), S(s)>> \/ t = <<TAU, S(s)>>
    <3>1. CASE t \in SpareAt(g)!ReportRepaired
      BY <3>1, Zenon DEF SpareAt!ReportRepaired, SpareAt!Step, REPAIRED, SpareAt!REPAIRED
    <3>2. CASE t \in SpareAt(g)!ForgetRelease
      BY <3>2, Zenon DEF SpareAt!ForgetRelease, SpareAt!When, SpareAt!Offer, TAU, SpareAt!TAU
    <3>3. QED  BY <1>15, <3>1, <3>2
  <2> HIDE DEF s, S
  <2>2. CASE t = <<REPAIRED(0), S(s)>>
    BY <1>1, <1>8, <2>2, NewsDiffer
  <2>3. CASE t = <<TAU, S(s)>>
    BY <1>1, <1>8, <2>3, NewsDiffer
  <2>4. QED  BY <2>1, <2>2, <2>3
<1>16. CASE t \in SpareAt(g)!ClaimFirst \cup SpareAt(g)!ClaimBetter
  <2> DEFINE f == SpareAt(g)!First(SpareAt(g)!avail)
             r == IF s.repairing_deactivate = f THEN 0 ELSE s.repairing_deactivate
             a == [s EXCEPT !.cur_using = f, !.repairing_deactivate = r]
             b == [s EXCEPT !.repairing_deactivate = s.cur_using, !.cur_using = f]
             l == SpareAt(g)!ClaimLabel
  <2>1. /\ SpareAt(g)!avail # {}
        /\ t = <<ACTIVATE(f, TRUE), S(a)>> \/ t = <<l, S(b)>>
    <3>1. CASE t \in SpareAt(g)!ClaimFirst
      BY <3>1, Zenon DEF SpareAt!ClaimFirst, SpareAt!When, SpareAt!Offer,
                         ACTIVATE, SpareAt!ACTIVATE
    <3>2. CASE t \in SpareAt(g)!ClaimBetter
      BY <3>2, Zenon DEF SpareAt!ClaimBetter, SpareAt!TakeBetter, SpareAt!When, SpareAt!Offer
    <3>3. QED  BY <1>16, <3>1, <3>2
  <2>2. f \in Places(g)
    <3>1. SpareAt(g)!avail \in SUBSET Kids(g)
      BY <1>2 DEF SpareAt!avail, SpareAt!Available
    <3>2. f \in Kids(g)
      BY <2>1, <3>1, FirstIsLeast
    <3>3. QED  BY <1>2, <3>2
  <2>3. NoNews(l) /\ NoNews(ACTIVATE(f, TRUE))
    <3>1. l = ACTIVATE(f, TRUE) \/ l = TAU
      BY Zenon DEF SpareAt!ClaimLabel, ACTIVATE, SpareAt!ACTIVATE, TAU, SpareAt!TAU
    <3>2. NoNews(ACTIVATE(f, TRUE)) /\ NoNews(TAU)
      BY NewsDiffer
    <3> HIDE DEF f, l
    <3>3. QED  BY <3>1, <3>2, Zenon
  <2>4. r \in Places(g)
    BY <1>2
  <2> HIDE DEF f, r, l
  <2>5. a \in SpareStates(g) /\ a.unfailed = s.unfailed /\ a.done = s.done
    BY <1>1, <2>2, <2>4, Zenon DEF SpareStates
  <2>6. b \in SpareStates(g) /\ b.unfailed = s.unfailed /\ b.done = s.done
    BY <1>1, <1>2, <2>2, Zenon DEF SpareStates
  <2> HIDE DEF a, b, S
  <2>7. CASE t = <<ACTIVATE(f, TRUE), S(a)>>
    BY <1>8, <2>3, <2>5, <2>7
  <2>8. CASE t = <<l, S(b)>>
    BY <1>8, <2>3, <2>6, <2>8
  <2>9. QED  BY <2>1, <2>7, <2>8
<1>17. \/ t \in SpareAt(g)!ChildFails
       \/ t \in SpareAt(g)!ChildOnline
       \/ t \in SpareAt(g)!AnnounceFail \cup SpareAt(g)!AnnounceOnline
       \/ t \in SpareAt(g)!Activated \/ t \in SpareAt(g)!Deactivated
       \/ t \in SpareAt(g)!ChildClaimed \/ t \in SpareAt(g)!ChildReleased
       \/ t \in SpareAt(g)!ReleaseFailed \/ t \in SpareAt(g)!ReleaseWorse
       \/ t \in SpareAt(g)!ReportRepaired \cup SpareAt(g)!ForgetRelease
       \/ t \in SpareAt(g)!ClaimFirst \cup SpareAt(g)!ClaimBetter
  BY <1>1 DEF SpareAt!Trans
<1>18. QED
  BY <1>5, <1>6, <1>7, <1>9, <1>10, <1>11, <1>12, <1>13, <1>14, <1>15, <1>16, <1>17

\* Every step of a spare gate follows its label.
LEMMA SpareEffect ==
  ASSUME NEW g \in Spares, Good(g), NEW t \in SpareAt(g)!Trans
  PROVE  Effect(g, t[1], t[2])
<1>1. SpareOK(g)
  BY SpareIs DEF Good, Typed, Sound, SpareOK
<1>2. t[2] \in SpareStates(g) /\ Clean(g, t[2])
  BY <1>1, SpareStep DEF SpareMoves
<1>3. QED  BY <1>2, SpareHandlers, SpareNewsFollows

-----------------------------------------------------------------------------
(* A basic event. *)

\* The type of a basic event, which has no children.
LEMMA EventIs ==
  ASSUME NEW b \in BasicEvents
  PROVE  /\ b \in Nodes /\ tree[b].type = "be" /\ Kids(b) = {} /\ tree[b].failed \in BOOLEAN
         /\ StatesOf(b) = EventStates
<1>1. b \in Nodes /\ tree[b].type = "be" /\ Children(b) = <<>> /\ tree[b].failed \in BOOLEAN
  BY TreeAssumption, NodeAssumption DEF BasicEvents, OfType
<1>2. QED  BY <1>1 DEF StatesOf, Kids

\* add_transition may end a repair at once, or make the event impossible.
LEMMA EventSettles ==
  ASSUME NEW b \in BasicEvents, NEW x \in EventStates
  PROVE  \E r \in {x.repair_status, "NONE"}, s \in {x.status, "IMPOSSIBLE"} :
           /\ x.repair_status = "DONE" => r = "NONE"
           /\ EventAt(b)!Settle(x) = [x EXCEPT !.status = s, !.repair_status = r]
<1> DEFINE early == x.phase = 1 /\ x.repair_status \in {"NEEDED", "BUSY"}
           over == early \/ x.repair_status = "DONE"
           s == IF early /\ (x.emit_inspect \/ ~(b \in Repairable)) THEN "IMPOSSIBLE" ELSE x.status
           r == IF over THEN "NONE" ELSE x.repair_status
<1>1. EventAt(b)!Settle(x) = [x EXCEPT !.status = s, !.repair_status = r]
  BY Zenon DEF EventAt!Settle, EventAt!Told
<1>2. s \in {x.status, "IMPOSSIBLE"} /\ r \in {x.repair_status, "NONE"}
  BY Zenon
<1>3. x.repair_status = "DONE" => r = "NONE"
  BY Zenon
<1> HIDE DEF s, r
<1>4. QED  BY <1>1, <1>2, <1>3, Zenon

\* The fields that matter of the target it leaves.
LEMMA EventLands ==
  ASSUME NEW b \in BasicEvents, NEW x \in EventStates
  PROVE  LET y == EventAt(b)!Settle(x)
         IN  /\ y \in EventStates
             /\ y.status \in {x.status, "IMPOSSIBLE"}
             /\ y.repair_status \in {x.repair_status, "NONE"}
             /\ x.repair_status = "DONE" => y.repair_status = "NONE"
             /\ y.emit_fail = x.emit_fail /\ y.emit_online = x.emit_online
<1>1. PICK r \in {x.repair_status, "NONE"}, s \in {x.status, "IMPOSSIBLE"} :
           /\ x.repair_status = "DONE" => r = "NONE"
           /\ EventAt(b)!Settle(x) = [x EXCEPT !.status = s, !.repair_status = r]
  BY EventSettles
<1> DEFINE y == [x EXCEPT !.status = s, !.repair_status = r]
<1>2. s \in Statuses /\ r \in {"NONE", "NEEDED", "WAITING", "BUSY", "DONE"}
  BY DEF EventStates, Statuses
<1>3. y \in EventStates
  BY <1>2, Zenon DEF EventStates
<1>4. /\ y.status = s /\ y.repair_status = r
      /\ y.emit_fail = x.emit_fail /\ y.emit_online = x.emit_online
  BY Zenon DEF EventStates
<1> HIDE DEF y
<1>5. QED  BY <1>1, <1>3, <1>4 DEF y

\* What a live event does in a rule.
LEMMA RuleOfEvent ==
  ASSUME NEW b \in BasicEvents, Good(b), NEW t \in EventAt(b)!Trans, RuleLabel(b, t[1])
  PROVE  \/ t \in EventAt(b)!AnnounceFail \/ t \in EventAt(b)!AnnounceOnline
         \/ t \in EventAt(b)!AnnounceInspect
         \/ t \in EventAt(b)!Activated \/ t \in EventAt(b)!Deactivated
<1>1. node[b].status \notin {"IMPOSSIBLE", "TERMINATED"}
  BY EventIs DEF Good, Typed, Working, Works
<1>2. t \notin EventAt(b)!RequestRepair \cup EventAt(b)!ReportRepaired
                 \cup EventAt(b)!RepairCommand \cup EventAt(b)!RepairStarts
                 \cup EventAt(b)!Degrade \cup EventAt(b)!Restore \cup EventAt(b)!FailSafe
                 \cup EventAt(b)!Repaired
  <2>1. ASSUME NEW guard, NEW labels, NEW target, t \in EventAt(b)!When(guard, labels, target)
        PROVE  t[1] \in labels
    BY <2>1 DEF EventAt!When
  <2>2. t[1][1] \in {"FAIL", "ONLINE", "ACTIVATE", "DEACTIVATE", "INSPECT", "IMPOSSIBLE"}
    BY DEF RuleLabel
  <2>3. t \notin EventAt(b)!RequestRepair
    <3>1. t \in EventAt(b)!RequestRepair => t[1] = EventAt(b)!REPAIR_CMD(TRUE)
      BY <2>1, Zenon DEF EventAt!RequestRepair
    <3>2. EventAt(b)!REPAIR_CMD(TRUE)[1] \notin {"FAIL", "ONLINE", "ACTIVATE", "DEACTIVATE", "INSPECT", "IMPOSSIBLE"}
      BY DEF EventAt!REPAIR_CMD
    <3>3. QED  BY <2>2, <3>1, <3>2
  <2>4. t \notin EventAt(b)!ReportRepaired
    BY <2>1, <2>2 DEF EventAt!ReportRepaired, EventAt!REPAIRED
  <2>5. t \notin EventAt(b)!RepairCommand
    <3>1. t \in EventAt(b)!RepairCommand => t[1] = EventAt(b)!REPAIR_CMD(FALSE)
      BY <2>1, Zenon DEF EventAt!RepairCommand
    <3>2. EventAt(b)!REPAIR_CMD(FALSE)[1] \notin {"FAIL", "ONLINE", "ACTIVATE", "DEACTIVATE", "INSPECT", "IMPOSSIBLE"}
      BY DEF EventAt!REPAIR_CMD
    <3>3. QED  BY <2>2, <3>1, <3>2
  <2>6. t \notin EventAt(b)!RepairStarts
    <3>1. t \in EventAt(b)!RepairStarts => t[1] = EventAt(b)!REPAIRING(0)
      BY <2>1, Zenon DEF EventAt!RepairStarts
    <3>2. EventAt(b)!REPAIRING(0)[1] \notin {"FAIL", "ONLINE", "ACTIVATE", "DEACTIVATE", "INSPECT", "IMPOSSIBLE"}
      BY DEF EventAt!REPAIRING
    <3>3. QED  BY <2>2, <3>1, <3>2
  <2>7. t \notin EventAt(b)!Degrade
    BY <2>1, <2>2 DEF EventAt!Degrade, EventAt!Rates, EventAt!RATE_FAIL
  <2>8. t \notin EventAt(b)!Restore
    BY <2>1, <2>2 DEF EventAt!Restore, EventAt!Rates, EventAt!RATE_FAIL
  <2>9. t \notin EventAt(b)!FailSafe
    BY <2>1, <2>2 DEF EventAt!FailSafe, EventAt!RATE_FAIL
  <2>10. t \notin EventAt(b)!Repaired
    BY <2>1, <2>2 DEF EventAt!Repaired, EventAt!RATE_REPAIR
  <2>11. QED  BY <2>3, <2>4, <2>5, <2>6, <2>7, <2>8, <2>9, <2>10
<1>3. QED  BY <1>1, <1>2 DEF EventAt!Trans

\* An announcement, a command, or an inspection.
LEMMA EventStep ==
  ASSUME NEW b \in BasicEvents, Good(b), NEW t \in EventAt(b)!Trans, RuleLabel(b, t[1])
  PROVE  Effect(b, t[1], t[2])
<1> DEFINE x == node[b]
           S(v) == EventAt(b)!Settle(v)
<1>1. /\ x \in EventStates /\ x.status \notin {"IMPOSSIBLE", "TERMINATED"}
      /\ x.repair_status \in {"NONE", "BUSY"}
      /\ x.repair_status = "BUSY" => x.status = "DOWN"
      /\ Parents(b) # {} => /\ x.emit_fail => IsDown(x) /\ ~x.emit_online
                            /\ x.emit_online => ~IsDown(x) /\ tree[b].repair
  BY EventIs DEF Good, Typed, Working, Works, Sound
<1>2. tree[b].type = "be" /\ Kids(b) = {} /\ StatesOf(b) = EventStates
  BY EventIs
<1>3. \A k, y : ~Tells(b, y, k)
  BY <1>2 DEF Tells
<1>4. ASSUME NEW l, NoNews(l), NEW u \in EventStates, u.status = x.status,
             u.repair_status = x.repair_status, u.emit_fail = x.emit_fail,
             u.emit_online = x.emit_online, t = <<l, S(u)>>
      PROVE  Effect(b, t[1], t[2])
  <2> DEFINE y == S(u)
  <2>1. /\ y \in EventStates /\ y.status \in {x.status, "IMPOSSIBLE"}
        /\ y.repair_status \in {x.repair_status, "NONE"}
        /\ y.emit_fail = x.emit_fail /\ y.emit_online = x.emit_online
    BY <1>4, EventLands
  <2> HIDE DEF y
  <2>2. Works(b, y) => y.status = x.status
    BY <1>2, <2>1 DEF Works
  <2>3. Works(b, y) => Sound(b, y)
    BY <1>1, <1>2, <2>1, <2>2 DEF Sound, IsDown
  <2>4. Works(b, y) => (Says(b, y) <=> Says(b, x))
    BY <1>2, <2>1, <2>2 DEF Says, IsDown
  <2>5. Works(b, y) => Follows(b, l, y)
    BY <1>2, <1>3, <1>4, <2>4, NewsDiffer DEF Follows
  <2>6. Effect(b, l, y)
    BY <1>2, <2>1, <2>3, <2>5 DEF Effect
  <2>7. t = <<l, y>>
    BY <1>4 DEF y
  <2>8. QED  BY <2>6, <2>7
<1>5. CASE t \in EventAt(b)!AnnounceFail
  <2> DEFINE u == [x EXCEPT !.emit_fail = FALSE]
             y == S(u)
  <2>1. t = <<FAIL(0), y>> /\ x.emit_fail
    BY <1>5, Zenon DEF EventAt!AnnounceFail, EventAt!When, FAIL, EventAt!FAIL
  <2>2. /\ u \in EventStates /\ u.status = x.status /\ u.repair_status = x.repair_status
        /\ u.emit_fail = FALSE /\ u.emit_online = x.emit_online
    BY <1>1, Zenon DEF EventStates
  <2> HIDE DEF u
  <2>3. /\ y \in EventStates /\ y.status \in {x.status, "IMPOSSIBLE"}
        /\ y.repair_status \in {x.repair_status, "NONE"}
        /\ y.emit_fail = FALSE /\ y.emit_online = x.emit_online
    BY <2>2, EventLands
  <2> HIDE DEF y
  <2>4. Works(b, y) => y.status = x.status
    BY <1>2, <2>3 DEF Works
  <2>5. Works(b, y) => Sound(b, y)
    BY <1>1, <1>2, <2>3, <2>4 DEF Sound, IsDown
  <2>6. Works(b, y) /\ Parents(b) # {} => Says(b, y)
    BY <1>1, <1>2, <2>1, <2>3, <2>4 DEF Says, IsDown
  <2>7. Works(b, y) => Follows(b, FAIL(0), y)
    BY <1>2, <1>3, <2>6, NewsDiffer DEF Follows
  <2>8. Effect(b, FAIL(0), y)
    BY <1>2, <2>3, <2>5, <2>7 DEF Effect
  <2>9. QED  BY <2>1, <2>8
<1>6. CASE t \in EventAt(b)!AnnounceOnline
  <2> DEFINE u == [x EXCEPT !.emit_online = FALSE]
             y == S(u)
  <2>1. t = <<ONLINE(0), y>> /\ ~x.emit_fail /\ x.emit_online
    BY <1>6, Zenon DEF EventAt!AnnounceOnline, EventAt!When, ONLINE, EventAt!ONLINE
  <2>2. /\ u \in EventStates /\ u.status = x.status /\ u.repair_status = x.repair_status
        /\ u.emit_fail = x.emit_fail /\ u.emit_online = FALSE
    BY <1>1, Zenon DEF EventStates
  <2> HIDE DEF u
  <2>3. /\ y \in EventStates /\ y.status \in {x.status, "IMPOSSIBLE"}
        /\ y.repair_status \in {x.repair_status, "NONE"}
        /\ y.emit_fail = x.emit_fail /\ y.emit_online = FALSE
    BY <2>2, EventLands
  <2> HIDE DEF y
  <2>4. Works(b, y) => y.status = x.status
    BY <1>2, <2>3 DEF Works
  <2>5. Works(b, y) => Sound(b, y)
    BY <1>1, <1>2, <2>3, <2>4 DEF Sound, IsDown
  <2>6. Works(b, y) /\ Parents(b) # {} => ~Says(b, y) /\ tree[b].repair
    BY <1>1, <1>2, <2>1, <2>3, <2>4 DEF Says, IsDown
  <2>7. tree[b].repair => b \in Repairable
    BY DEF Repairable, IsRepairableBE
  <2>8. Works(b, y) => Follows(b, ONLINE(0), y)
    BY <1>2, <1>3, <2>6, <2>7, NewsDiffer DEF Follows
  <2>9. Effect(b, ONLINE(0), y)
    BY <1>2, <2>3, <2>5, <2>8 DEF Effect
  <2>10. QED  BY <2>1, <2>9
<1>7. CASE t \in EventAt(b)!AnnounceInspect
  <2> DEFINE u == [x EXCEPT !.emit_inspect = FALSE]
  <2>1. t = <<INSPECT(0), S(u)>>
    BY <1>7, Zenon DEF EventAt!AnnounceInspect, EventAt!When, INSPECT, EventAt!INSPECT
  <2>2. /\ u \in EventStates /\ u.status = x.status /\ u.repair_status = x.repair_status
        /\ u.emit_fail = x.emit_fail /\ u.emit_online = x.emit_online
    BY <1>1, Zenon DEF EventStates
  <2> HIDE DEF u, S
  <2>3. QED  BY <1>4, <2>1, <2>2, NewsDiffer
<1>8. CASE t \in EventAt(b)!Activated
  <2> DEFINE u == [x EXCEPT !.isactive = TRUE]
  <2>1. t = <<ACTIVATE(0, FALSE), S(u)>>
    BY <1>8, Zenon DEF EventAt!Activated, EventAt!When, ACTIVATE, EventAt!ACTIVATE
  <2>2. /\ u \in EventStates /\ u.status = x.status /\ u.repair_status = x.repair_status
        /\ u.emit_fail = x.emit_fail /\ u.emit_online = x.emit_online
    BY <1>1, Zenon DEF EventStates
  <2> HIDE DEF u, S
  <2>3. QED  BY <1>4, <2>1, <2>2, NewsDiffer
<1>9. CASE t \in EventAt(b)!Deactivated
  <2> DEFINE u == [x EXCEPT !.isactive = FALSE]
             z == [x EXCEPT !.status = "IMPOSSIBLE"]
             v == IF b \in AlwaysActive THEN z ELSE u
  <2>1. t = <<DEACTIVATE(0, FALSE), S(v)>>
    BY <1>9, Zenon DEF EventAt!Deactivated, EventAt!When, EventAt!Impossible,
                       DEACTIVATE, EventAt!DEACTIVATE
  <2>2. v \in {u, z}
    BY Zenon
  <2>3. /\ u \in EventStates /\ u.status = x.status /\ u.repair_status = x.repair_status
        /\ u.emit_fail = x.emit_fail /\ u.emit_online = x.emit_online
    BY <1>1, Zenon DEF EventStates
  <2>4. z \in EventStates /\ z.status = "IMPOSSIBLE"
    BY <1>1 DEF EventStates, Statuses
  <2> HIDE DEF u, z, v
  <2>5. S(z) \in EventStates /\ S(z).status = "IMPOSSIBLE"
    BY <2>4, EventLands
  <2> HIDE DEF S
  <2>6. CASE v = u
    BY <1>4, <2>1, <2>3, <2>6, NewsDiffer
  <2>7. CASE v = z
    BY <1>2, <2>1, <2>5, <2>7 DEF Effect, Works
  <2>8. QED  BY <2>2, <2>6, <2>7
<1>10. \/ t \in EventAt(b)!AnnounceFail \/ t \in EventAt(b)!AnnounceOnline
       \/ t \in EventAt(b)!AnnounceInspect
       \/ t \in EventAt(b)!Activated \/ t \in EventAt(b)!Deactivated
  BY RuleOfEvent
<1>11. QED  BY <1>5, <1>6, <1>7, <1>8, <1>9, <1>10

\* What a live event does when a rate elapses.
LEMMA RatesOfEvent ==
  ASSUME NEW b \in BasicEvents, Good(b), NEW t \in EventAt(b)!Trans, t[1] \in Rated(b)
  PROVE  \/ t \in EventAt(b)!Degrade \/ t \in EventAt(b)!Restore
         \/ t \in EventAt(b)!FailSafe \/ t \in EventAt(b)!Repaired
<1>1. t[1][1] \in {"RATE_FAIL", "RATE_REPAIR"}
  BY DEF Rated, RATE_FAIL, RATE_REPAIR
<1>2. ASSUME NEW guard, NEW labels, NEW target, t \in EventAt(b)!When(guard, labels, target)
      PROVE  t[1] \in labels
  BY <1>2 DEF EventAt!When
<1>3. t \notin EventAt(b)!RequestRepair \cup EventAt(b)!ReportRepaired
               \cup EventAt(b)!RepairCommand \cup EventAt(b)!RepairStarts
               \cup EventAt(b)!Activated \cup EventAt(b)!Deactivated
               \cup EventAt(b)!AnnounceFail \cup EventAt(b)!AnnounceOnline
               \cup EventAt(b)!AnnounceInspect
  <2>1. t \in EventAt(b)!RequestRepair => t[1] = EventAt(b)!REPAIR_CMD(TRUE)
    BY <1>2, Zenon DEF EventAt!RequestRepair
  <2>2. t \in EventAt(b)!ReportRepaired => t[1] = EventAt(b)!REPAIRED(0)
    BY <1>2, Zenon DEF EventAt!ReportRepaired
  <2>3. t \in EventAt(b)!RepairCommand => t[1] = EventAt(b)!REPAIR_CMD(FALSE)
    BY <1>2, Zenon DEF EventAt!RepairCommand
  <2>4. t \in EventAt(b)!RepairStarts => t[1] = EventAt(b)!REPAIRING(0)
    BY <1>2, Zenon DEF EventAt!RepairStarts
  <2>5. t \in EventAt(b)!Activated => t[1] = EventAt(b)!ACTIVATE(0, FALSE)
    BY <1>2, Zenon DEF EventAt!Activated
  <2>6. t \in EventAt(b)!Deactivated => t[1] = EventAt(b)!DEACTIVATE(0, FALSE)
    BY <1>2, Zenon DEF EventAt!Deactivated
  <2>7. t \in EventAt(b)!AnnounceFail => t[1] = EventAt(b)!FAIL(0)
    BY <1>2, Zenon DEF EventAt!AnnounceFail
  <2>8. t \in EventAt(b)!AnnounceOnline => t[1] = EventAt(b)!ONLINE(0)
    BY <1>2, Zenon DEF EventAt!AnnounceOnline
  <2>9. t \in EventAt(b)!AnnounceInspect => t[1] = EventAt(b)!INSPECT(0)
    BY <1>2, Zenon DEF EventAt!AnnounceInspect
  <2>10. /\ EventAt(b)!REPAIR_CMD(TRUE)[1] = "REPAIR_CMD"
         /\ EventAt(b)!REPAIR_CMD(FALSE)[1] = "REPAIR_CMD"
         /\ EventAt(b)!REPAIRED(0)[1] = "REPAIRED"
         /\ EventAt(b)!REPAIRING(0)[1] = "REPAIRING"
         /\ EventAt(b)!ACTIVATE(0, FALSE)[1] = "ACTIVATE"
         /\ EventAt(b)!DEACTIVATE(0, FALSE)[1] = "DEACTIVATE"
         /\ EventAt(b)!FAIL(0)[1] = "FAIL" /\ EventAt(b)!ONLINE(0)[1] = "ONLINE"
         /\ EventAt(b)!INSPECT(0)[1] = "INSPECT"
    BY DEF EventAt!REPAIR_CMD, EventAt!REPAIRED, EventAt!REPAIRING, EventAt!ACTIVATE,
           EventAt!DEACTIVATE, EventAt!FAIL, EventAt!ONLINE, EventAt!INSPECT
  <2>11. QED
    BY <1>1, <2>1, <2>2, <2>3, <2>4, <2>5, <2>6, <2>7, <2>8, <2>9, <2>10
<1>4. node[b].status \notin {"IMPOSSIBLE", "TERMINATED"}
  BY EventIs DEF Good, Typed, Working, Works
<1>5. QED  BY <1>3, <1>4 DEF EventAt!Trans

\* A rate elapses when the event has nothing to announce: it says no more and no
\* less than before.
LEMMA EventRate ==
  ASSUME NEW b \in BasicEvents, Good(b), NEW t \in EventAt(b)!Trans, t[1] \in Rated(b),
         Parents(b) # {} => ~node[b].emit_fail /\ ~node[b].emit_online
  PROVE  /\ t[2] \in EventStates
         /\ Works(b, t[2]) => /\ Sound(b, t[2])
                              /\ Parents(b) # {} => (Says(b, t[2]) <=> Says(b, node[b]))
<1> DEFINE x == node[b]
           S(v) == EventAt(b)!Settle(v)
           Kept(y) ==
             /\ y \in EventStates
             /\ Works(b, y) => /\ Sound(b, y)
                               /\ Parents(b) # {} => (Says(b, y) <=> Says(b, x))
<1>1. /\ x \in EventStates /\ x.status \notin {"IMPOSSIBLE", "TERMINATED"}
      /\ x.repair_status \in {"NONE", "BUSY"}
      /\ x.repair_status = "BUSY" => x.status = "DOWN"
      /\ Parents(b) # {} => ~x.emit_fail /\ ~x.emit_online
  BY EventIs DEF Good, Typed, Working, Works, Sound
<1>2. tree[b].type = "be" /\ Kids(b) = {} /\ StatesOf(b) = EventStates /\ x.phase \in Int
  BY <1>1, EventIs DEF EventStates
<1>3. CASE t \in EventAt(b)!Degrade
  <2> DEFINE F == EventAt(b)!Failing
             A == IF TRUE THEN "BUSY" ELSE "NEEDED"
             f == x.emit_fail \/ F
             s == IF F THEN "DOWN" ELSE x.status
             r == IF F /\ b \in Repairable /\ TRUE /\ x.repair_status = "NONE"
                  THEN EventAt(b)!AskRepair ELSE x.repair_status
             i == x.emit_inspect \/ x.phase = tree[b].interval
             u == [x EXCEPT !.can_definitely_fail = TRUE, !.emit_fail = f, !.status = s,
                            !.repair_status = r, !.emit_inspect = i, !.phase = x.phase + 1]
  <2>1. t[2] = S(u) /\ x.status = "UP"
    <3>1. EventAt(b)!Degrade =
            EventAt(b)!When(EventAt(b)!can_failsig, EventAt(b)!Rates(1, 2), u)
      BY Zenon DEF EventAt!Degrade
    <3> HIDE DEF u
    <3>2. PICK l : t = <<l, S(u)>> /\ EventAt(b)!can_failsig
      BY <1>3, <3>1, Zenon DEF EventAt!When
    <3>3. x.status = "UP"
      BY <3>2 DEF EventAt!can_failsig
    <3> HIDE DEF S
    <3>4. QED  BY <3>2, <3>3
  <2>2. r \in {"NONE", "BUSY"} /\ (r = "BUSY" => s = "DOWN")
    BY <1>1, <2>1 DEF EventAt!AskRepair
  <2>3. /\ f \in BOOLEAN /\ i \in BOOLEAN /\ TRUE \in BOOLEAN /\ x.phase + 1 \in Int
        /\ s \in Statuses /\ r \in {"NONE", "NEEDED", "WAITING", "BUSY", "DONE"}
    BY <1>1, <1>2, <2>2 DEF EventStates, Statuses
  <2>4. f => s = "DOWN" \/ x.emit_fail
    BY Zenon
  <2>5. s = "DOWN" => f
    BY <2>1
  <2>6. s \in {"UP", "DOWN"}
    BY <2>1
  <2> HIDE DEF f, i, s, r, F
  <2>7. u \in EventStates
    BY <1>1, <2>3, Zenon DEF EventStates
  <2>8. /\ u.status = s /\ u.repair_status = r /\ u.emit_fail = f
        /\ u.emit_online = x.emit_online
    BY <1>1, Zenon DEF EventStates
  <2> HIDE DEF u
  <2> DEFINE y == S(u)
  <2>9. /\ y \in EventStates /\ y.status \in {s, "IMPOSSIBLE"}
        /\ y.repair_status \in {r, "NONE"}
        /\ y.emit_fail = f /\ y.emit_online = x.emit_online
    BY <2>7, <2>8, EventLands
  <2> HIDE DEF y
  <2>10. Works(b, y) => y.status = s
    BY <1>2, <2>9 DEF Works
  <2>11. Works(b, y) => Sound(b, y)
    BY <1>1, <1>2, <2>2, <2>3, <2>4, <2>9, <2>10 DEF Sound, IsDown
  <2>12. Works(b, y) /\ Parents(b) # {} => (Says(b, y) <=> Says(b, x))
    BY <1>1, <1>2, <2>1, <2>5, <2>6, <2>9, <2>10 DEF Says, IsDown
  <2>13. Kept(y)
    BY <2>9, <2>11, <2>12
  <2> HIDE DEF S, Kept
  <2>14. Kept(t[2])
    BY <2>1, <2>13 DEF y
  <2>15. QED  BY <2>14 DEF Kept
<1>4. ASSUME NEW s \in {"UP", "FAILSAFE"}, NEW u \in EventStates, u.status = s, x.status = "UP",
             u.repair_status = x.repair_status, u.emit_fail = x.emit_fail,
             u.emit_online = x.emit_online
      PROVE  Kept(S(u))
  <2> DEFINE y == S(u)
  <2>1. /\ y \in EventStates /\ y.status \in {s, "IMPOSSIBLE"}
        /\ y.repair_status \in {x.repair_status, "NONE"}
        /\ y.emit_fail = x.emit_fail /\ y.emit_online = x.emit_online
    BY <1>4, EventLands
  <2> HIDE DEF y
  <2>2. Works(b, y) => y.status = s
    BY <1>2, <2>1 DEF Works
  <2>3. Works(b, y) => Sound(b, y)
    BY <1>1, <1>2, <1>4, <2>1, <2>2 DEF Sound, IsDown
  <2>4. Works(b, y) /\ Parents(b) # {} => (Says(b, y) <=> Says(b, x))
    BY <1>1, <1>2, <1>4, <2>1, <2>2 DEF Says, IsDown
  <2>5. Kept(y)
    BY <2>1, <2>3, <2>4
  <2>6. QED  BY <2>5 DEF y
<1>5. CASE t \in EventAt(b)!Restore
  <2> DEFINE u == [x EXCEPT !.can_definitely_fail = TRUE, !.phase = 1]
  <2>1. t[2] = S(u) /\ x.status = "UP"
    <3>1. EventAt(b)!Restore =
            EventAt(b)!When(EventAt(b)!can_failsig, EventAt(b)!Rates(3, 4), u)
      BY Zenon DEF EventAt!Restore
    <3> HIDE DEF u
    <3>2. PICK l : t = <<l, S(u)>> /\ EventAt(b)!can_failsig
      BY <1>5, <3>1, Zenon DEF EventAt!When
    <3>3. x.status = "UP"
      BY <3>2 DEF EventAt!can_failsig
    <3> HIDE DEF S
    <3>4. QED  BY <3>2, <3>3
  <2>2. /\ u \in EventStates /\ u.status = x.status /\ u.repair_status = x.repair_status
        /\ u.emit_fail = x.emit_fail /\ u.emit_online = x.emit_online
    <3>1. 1 \in Int /\ TRUE \in BOOLEAN
      OBVIOUS
    <3>2. QED  BY <1>1, <3>1, Zenon DEF EventStates
  <2> HIDE DEF u
  <2>3. Kept(S(u))
    BY <1>4, <2>1, <2>2
  <2> HIDE DEF S, Kept
  <2>4. Kept(t[2])
    BY <2>1, <2>3
  <2>5. QED  BY <2>4 DEF Kept
<1>6. CASE t \in EventAt(b)!FailSafe
  <2> DEFINE u == [x EXCEPT !.status = "FAILSAFE"]
  <2>1. t[2] = S(u) /\ x.status = "UP"
    <3>1. PICK l : t = <<l, S(u)>> /\ EventAt(b)!can_failsig
      BY <1>6, Zenon DEF EventAt!FailSafe, EventAt!When
    <3>2. x.status = "UP"
      BY <3>1 DEF EventAt!can_failsig
    <3> HIDE DEF S, u
    <3>3. QED  BY <3>1, <3>2
  <2>2. /\ u \in EventStates /\ u.status = "FAILSAFE" /\ u.repair_status = x.repair_status
        /\ u.emit_fail = x.emit_fail /\ u.emit_online = x.emit_online
    BY <1>1, Zenon DEF EventStates, Statuses
  <2> HIDE DEF u
  <2>3. Kept(S(u))
    BY <1>4, <2>1, <2>2
  <2> HIDE DEF S, Kept
  <2>4. Kept(t[2])
    BY <2>1, <2>3
  <2>5. QED  BY <2>4 DEF Kept
<1>7. CASE t \in EventAt(b)!Repaired
  <2> DEFINE o == x.emit_online \/ x.status = "DOWN"
             s == IF x.emit_inspect THEN "IMPOSSIBLE"
                  ELSE IF x.status = "FAILSAFE" THEN x.status ELSE "UP"
             u == [x EXCEPT !.phase = 1, !.repair_status = "DONE", !.emit_online = o,
                            !.status = s]
  <2>1. t[1] = RATE_REPAIR /\ t[2] = S(u) /\ x.repair_status = "BUSY"
    <3>1. t = <<RATE_REPAIR, S(u)>> /\ x.repair_status = "BUSY"
      BY <1>7, Zenon DEF EventAt!Repaired, EventAt!When, RATE_REPAIR, EventAt!RATE_REPAIR
    <3> HIDE DEF S, u
    <3>2. QED  BY <3>1
  <2>2. x.status = "DOWN"
    BY <1>1, <2>1
  <2>3. o = TRUE /\ s \in {"UP", "IMPOSSIBLE"}
    BY <2>2
  <2>4. tree[b].repair
    <3>1. \A p, k : RATE_FAIL(p, k)[1] # RATE_REPAIR[1]
      BY DEF RATE_FAIL, RATE_REPAIR
    <3>2. \E r \in {TRUE} \cap {tree[b].repair} : TRUE
      BY <2>1, <3>1 DEF Rated
    <3>3. QED  BY <3>2
  <2>5. s \in Statuses /\ o \in BOOLEAN /\ 1 \in Int
        /\ "DONE" \in {"NONE", "NEEDED", "WAITING", "BUSY", "DONE"}
    BY <2>3 DEF Statuses
  <2> HIDE DEF s, o
  <2>6. u \in EventStates
    BY <1>1, <2>5, Zenon DEF EventStates
  <2>7. /\ u.status = s /\ u.repair_status = "DONE" /\ u.emit_fail = x.emit_fail
        /\ u.emit_online = o
    BY <1>1, Zenon DEF EventStates
  <2> HIDE DEF u
  <2> DEFINE y == S(u)
  <2>8. /\ y \in EventStates /\ y.status \in {s, "IMPOSSIBLE"}
        /\ y.repair_status = "NONE"
        /\ y.emit_fail = x.emit_fail /\ y.emit_online = TRUE
    BY <2>3, <2>6, <2>7, EventLands
  <2> HIDE DEF y
  <2>9. Works(b, y) => y.status = "UP"
    BY <1>2, <2>3, <2>8 DEF Works
  <2>10. Works(b, y) => Sound(b, y)
    BY <1>1, <1>2, <2>4, <2>8, <2>9 DEF Sound, IsDown
  <2>11. Works(b, y) /\ Parents(b) # {} => (Says(b, y) <=> Says(b, x))
    BY <1>1, <1>2, <2>2, <2>8, <2>9 DEF Says, IsDown
  <2>12. Kept(y)
    BY <2>8, <2>10, <2>11
  <2> HIDE DEF S, Kept
  <2>13. Kept(t[2])
    BY <2>1, <2>12 DEF y
  <2>14. QED  BY <2>13 DEF Kept
<1>8. \/ t \in EventAt(b)!Degrade \/ t \in EventAt(b)!Restore
      \/ t \in EventAt(b)!FailSafe \/ t \in EventAt(b)!Repaired
  BY RatesOfEvent
<1>9. QED  BY <1>3, <1>5, <1>6, <1>7, <1>8

-----------------------------------------------------------------------------
(* Any node. *)

\* What a node does comes from its automaton.
LEMMA TransOf ==
  /\ \A n \in Votings : Trans(n) = VotingAt(n)!Trans /\ InitialState(n) = VotingAt(n)!Initial
  /\ \A n \in PAnds : Trans(n) = PAndAt(n)!Trans /\ InitialState(n) = PAndAt(n)!Initial
  /\ \A n \in Spares : Trans(n) = SpareAt(n)!Trans /\ InitialState(n) = SpareAt(n)!Initial
  /\ \A n \in FDeps : Trans(n) = FDepAt(n)!Trans /\ InitialState(n) = FDepAt(n)!Initial
  /\ \A n \in BasicEvents : Trans(n) = EventAt(n)!Trans /\ InitialState(n) = EventAt(n)!Initial
<1> USE KindsOfNodes
<1>1. \A n \in Votings : n # toplevel /\ tree[n].type = "voting"
  BY DEF Votings, OfType
<1>2. \A n \in PAnds : n # toplevel /\ tree[n].type = "pand"
  BY DEF PAnds, OfType
<1>3. \A n \in Spares : n # toplevel /\ tree[n].type = "wsp"
  BY DEF Spares, OfType
<1>4. \A n \in FDeps : n # toplevel /\ tree[n].type = "fdep"
  BY DEF FDeps, OfType
<1>5. \A n \in BasicEvents : n # toplevel /\ tree[n].type = "be"
  BY DEF BasicEvents, OfType
<1>6. QED  BY <1>1, <1>2, <1>3, <1>4, <1>5 DEF Trans, InitialState

\* A working node makes of a rule what its kind makes of it.
LEMMA NodeStep ==
  ASSUME NEW n \in Nodes, Good(n), NEW t \in Trans(n), RuleLabel(n, t[1])
  PROVE  Effect(n, t[1], t[2])
<1>1. n \in Votings \/ n \in PAnds \/ n \in Spares \/ n \in FDeps \/ n \in BasicEvents
  BY KindsOfNodes DEF Votings, PAnds, FDeps
<1>2. CASE n \in Votings
  BY <1>2, TransOf, VotingStep
<1>3. CASE n \in PAnds
  BY <1>3, TransOf, PAndStep
<1>4. CASE n \in Spares
  BY <1>4, TransOf, SpareEffect
<1>5. CASE n \in FDeps
  BY <1>5, TransOf, FDepStep
<1>6. CASE n \in BasicEvents
  BY <1>6, TransOf, EventStep
<1>7. QED  BY <1>1, <1>2, <1>3, <1>4, <1>5, <1>6

\* A node that has received an impossible signal never works again.
LEMMA NodeStaysBroken ==
  ASSUME NEW n \in Nodes, Typed(n), ~Working(n), NEW t \in Trans(n)
  PROVE  t[2] \in StatesOf(n) /\ ~Works(n, t[2])
<1> DEFINE x == node[n]
           y == [x EXCEPT !.mode = "terminated"]
           z == [x EXCEPT !.status = "TERMINATED"]
<1>1. n \in Votings \/ n \in PAnds \/ n \in Spares \/ n \in FDeps \/ n \in BasicEvents
  BY KindsOfNodes DEF Votings, PAnds, FDeps
<1>2. CASE n \in Votings
  <2>1. x \in VotingStates(n) /\ x.mode \in {"impossible", "terminated"}
    <3>1. x \in VotingStates(n) /\ x.mode # "live"
      BY <1>2, VotingIs DEF Typed, Working, Works
    <3>2. QED  BY <3>1 DEF VotingStates, Modes
  <2>2. x.mode = "impossible" /\ t = <<IMPOSSIBLE, y>>
    BY <1>2, <2>1, TransOf DEF VotingAt!Trans, VotingAt!Terminated, IMPOSSIBLE, VotingAt!IMPOSSIBLE
  <2>3. y \in VotingStates(n) /\ y.mode = "terminated"
    BY <2>1 DEF VotingStates, Modes
  <2> HIDE DEF y
  <2>4. QED  BY <1>2, <2>2, <2>3, VotingIs DEF Works
<1>3. CASE n \in PAnds
  <2>1. x \in PAndStates(n) /\ x.mode \in {"impossible", "terminated"}
    <3>1. x \in PAndStates(n) /\ x.mode # "live"
      BY <1>3, PAndIs DEF Typed, Working, Works
    <3>2. QED  BY <3>1 DEF PAndStates, Modes
  <2>2. x.mode = "impossible" /\ t = <<IMPOSSIBLE, y>>
    BY <1>3, <2>1, TransOf DEF PAndAt!Trans, PAndAt!Terminated, IMPOSSIBLE, PAndAt!IMPOSSIBLE
  <2>3. y \in PAndStates(n) /\ y.mode = "terminated"
    BY <2>1 DEF PAndStates, Modes
  <2> HIDE DEF y
  <2>4. QED  BY <1>3, <2>2, <2>3, PAndIs DEF Works
<1>4. CASE n \in Spares
  <2>1. x \in SpareStates(n) /\ x.mode \in {"impossible", "terminated"}
    <3>1. x \in SpareStates(n) /\ x.mode # "live"
      BY <1>4, SpareIs DEF Typed, Working, Works
    <3>2. QED  BY <3>1 DEF SpareStates
  <2>2. x.mode = "impossible" /\ t = <<IMPOSSIBLE, y>>
    BY <1>4, <2>1, TransOf DEF SpareAt!Trans, SpareAt!Terminated, IMPOSSIBLE, SpareAt!IMPOSSIBLE
  <2>3. y \in SpareStates(n) /\ y.mode = "terminated"
    BY <2>1 DEF SpareStates
  <2> HIDE DEF y
  <2>4. QED  BY <1>4, <2>2, <2>3, SpareIs DEF Works
<1>5. CASE n \in FDeps
  BY <1>5, FDepIs DEF Working, Works
<1>6. CASE n \in BasicEvents
  <2>1. x \in EventStates /\ x.status \in {"IMPOSSIBLE", "TERMINATED"}
    BY <1>6, EventIs DEF Typed, Working, Works
  <2>2. x.status = "IMPOSSIBLE" /\ t = <<IMPOSSIBLE, z>>
    BY <1>6, <2>1, TransOf DEF EventAt!Trans, EventAt!Terminated, IMPOSSIBLE, EventAt!IMPOSSIBLE
  <2>3. z \in EventStates /\ z.status = "TERMINATED"
    BY <2>1 DEF EventStates, Statuses
  <2> HIDE DEF z
  <2>4. QED  BY <1>6, <2>2, <2>3, EventIs DEF Works
<1>7. QED  BY <1>1, <1>2, <1>3, <1>4, <1>5, <1>6

\* At first nobody has heard or said anything.
LEMMA NodeStarts ==
  ASSUME NEW n \in Nodes, node[n] = InitialState(n)
  PROVE  /\ Good(n) /\ ~Says(n, node[n])
         /\ \A j \in Kids(n) : ~Hears(n, node[n], j)
         /\ \A k : ~Tells(n, node[n], k)
<1> DEFINE x == node[n]
<1>1. n \in Votings \/ n \in PAnds \/ n \in Spares \/ n \in FDeps \/ n \in BasicEvents
  BY KindsOfNodes DEF Votings, PAnds, FDeps
<1>2. CASE n \in Votings
  <2>1. /\ x \in VotingStates(n) /\ x.mode = "live" /\ x.received = {} /\ x.nr_failed = 0
        /\ x.done = FALSE /\ x.emit_fail = FALSE
    <3>1. x = VotingAt(n)!Initial
      BY <1>2, TransOf
    <3> HIDE DEF x
    <3>2. QED  BY <1>2, <3>1 DEF VotingAt!Initial, VotingStates, Modes
  <2>2. Cardinality({}) = 0
    BY FS_EmptySet
  <2>3. QED  BY <1>2, <2>1, <2>2, VotingIs
                DEF Good, Typed, Working, Works, Sound, Hears, Says, Tells
<1>3. CASE n \in PAnds
  <2>1. /\ x \in PAndStates(n) /\ x.mode = "live" /\ x.failed = {} /\ x.done = FALSE
    <3>1. x = PAndAt(n)!Initial
      BY <1>3, TransOf
    <3> HIDE DEF x
    <3>2. QED  BY <1>3, <3>1, PAndIs DEF PAndAt!Initial, PAndStates, Modes, Places
  <2>2. QED  BY <1>3, <2>1, PAndIs
                DEF Good, Typed, Working, Works, Sound, Hears, Says, Tells
<1>4. CASE n \in Spares
  <2>1. x = SpareAt(n)!Initial
    BY <1>4, TransOf
  <2>2. /\ x \in SpareStates(n) /\ x.mode = "live" /\ x.unfailed = Kids(n) /\ x.done = FALSE
        /\ x.unclaimed = Kids(n) /\ x.prev_using = 0
        /\ n \in AlwaysActive => x.cur_using = 1
    BY <1>4, <2>1, SpareIsNode DEF SpareAt!Initial, SpareAt!Children, Kids, SpareStates, Places
  <2>3. Clean(n, x)
    BY <2>2 DEF Clean
  <2>4. QED  BY <1>4, <2>2, <2>3, SpareIs
                DEF Good, Typed, Working, Works, Sound, Hears, Says, Tells
<1>5. CASE n \in FDeps
  <2>1. x \in FDepStates(n) /\ x.failed = FALSE /\ x.notified = {}
    <3>1. x = FDepAt(n)!Initial
      BY <1>5, TransOf
    <3> HIDE DEF x
    <3>2. QED  BY <1>5, <3>1 DEF FDepAt!Initial, FDepStates
  <2>2. QED  BY <1>5, <2>1, FDepIs
                DEF Good, Typed, Working, Works, Sound, Hears, Says, Tells
<1>6. CASE n \in BasicEvents
  <2> DEFINE s == IF tree[n].failed THEN "FAILING" ELSE "UP"
             f == tree[n].failed
             a == n \in AlwaysActive
             i == [status |-> s, repair_status |-> "NONE", phase |-> 1, isactive |-> a,
                   emit_fail |-> f, emit_online |-> FALSE, emit_inspect |-> f,
                   can_definitely_fail |-> FALSE]
  <2>1. x = i
    BY <1>6, TransOf, Zenon DEF EventAt!Initial
  <2>2. f \in BOOLEAN /\ a \in BOOLEAN /\ s \in Statuses /\ (f => s = "FAILING")
        /\ (~f => s = "UP") /\ 1 \in Int
    BY <1>6, EventIs DEF Statuses
  <2> HIDE DEF s, f, a
  <2>3. i \in EventStates
    BY <2>2, Zenon DEF EventStates
  <2>4. /\ i.status = s /\ i.repair_status = "NONE" /\ i.emit_fail = f /\ i.emit_online = FALSE
    BY Zenon
  <2> HIDE DEF i
  <2>5. QED  BY <1>6, <2>1, <2>2, <2>3, <2>4, EventIs
                DEF Good, Typed, Working, Works, Sound, Hears, Says, Tells, IsDown
<1>7. QED  BY <1>1, <1>2, <1>3, <1>4, <1>5, <1>6

\* A working gate always listens to its children; only a dependency gate does not
\* hear of recoveries.
LEMMA GatesListen ==
  ASSUME NEW g \in Gates, Good(g), NEW i \in Kids(g)
  PROVE  /\ Targets(g, FAIL(i)) # {}
         /\ g \notin FDeps => Targets(g, ONLINE(i)) # {}
<1>1. g \in Votings \/ g \in PAnds \/ g \in Spares \/ g \in FDeps
  BY KindsOfNodes DEF Votings, PAnds, FDeps
<1>2. ASSUME NEW l, NEW y, <<l, y>> \in Trans(g)  PROVE  Targets(g, l) # {}
  BY <1>2 DEF Targets
<1>3. CASE g \in Votings
  <2>1. node[g].mode = "live"
    BY <1>3, VotingIs DEF Good, Working, Works
  <2>2. /\ <<FAIL(i), VotingAt(g)!AfterFail(i)>> \in VotingAt(g)!ChildFails
        /\ <<ONLINE(i), VotingAt(g)!AfterOnline(i)>> \in VotingAt(g)!ChildOnline
    BY DEF VotingAt!ChildFails, VotingAt!ChildOnline, VotingAt!Children, Kids,
           FAIL, VotingAt!FAIL, ONLINE, VotingAt!ONLINE
  <2>3. /\ VotingAt(g)!ChildFails \subseteq Trans(g) /\ VotingAt(g)!ChildOnline \subseteq Trans(g)
    BY <1>3, <2>1, TransOf DEF VotingAt!Trans
  <2>4. QED  BY <1>2, <2>2, <2>3
<1>4. CASE g \in PAnds
  <2>1. node[g].mode = "live"
    BY <1>4, PAndIs DEF Good, Working, Works
  <2>2. /\ <<FAIL(i), PAndAt(g)!AfterFail(i)>> \in PAndAt(g)!ChildFails
        /\ <<ONLINE(i), PAndAt(g)!AfterOnline(i)>> \in PAndAt(g)!ChildOnline
    BY DEF PAndAt!ChildFails, PAndAt!ChildOnline, PAndAt!Children, Kids,
           FAIL, PAndAt!FAIL, ONLINE, PAndAt!ONLINE
  <2>3. /\ PAndAt(g)!ChildFails \subseteq Trans(g) /\ PAndAt(g)!ChildOnline \subseteq Trans(g)
    BY <1>4, <2>1, TransOf DEF PAndAt!Trans
  <2>4. QED  BY <1>2, <2>2, <2>3
<1>5. CASE g \in Spares
  <2>1. node[g].mode = "live"
    BY <1>5, SpareIs DEF Good, Working, Works
  <2>2. /\ \E y : <<FAIL(i), y>> \in SpareAt(g)!ChildFails
        /\ \E y : <<ONLINE(i), y>> \in SpareAt(g)!ChildOnline
    BY Zenon DEF SpareAt!ChildFails, SpareAt!ChildOnline, SpareAt!Step, SpareAt!Children, Kids,
           FAIL, SpareAt!FAIL, ONLINE, SpareAt!ONLINE
  <2>3. /\ SpareAt(g)!ChildFails \subseteq Trans(g) /\ SpareAt(g)!ChildOnline \subseteq Trans(g)
    BY <1>5, <2>1, TransOf DEF SpareAt!Trans
  <2>4. QED  BY <1>2, <2>2, <2>3
<1>6. CASE g \in FDeps
  <2>1. i = 1
    BY <1>6, FDepIs
  <2>2. <<FAIL(1), [node[g] EXCEPT !.failed = TRUE]>> \in FDepAt(g)!TriggerFails
    BY DEF FDepAt!TriggerFails, FAIL, FDepAt!FAIL
  <2>3. FDepAt(g)!TriggerFails \subseteq Trans(g)
    BY <1>6, TransOf DEF FDepAt!Trans
  <2>4. QED  BY <1>2, <1>6, <2>1, <2>2, <2>3
<1>7. QED  BY <1>1, <1>3, <1>4, <1>5, <1>6

-----------------------------------------------------------------------------
(* Who is repairable. *)

\* The nodes of S with their parents.
Upward(S) == S \cup UNION {Parents(n) : n \in S}

\* F collects the ancestors of S up to the m-th generation.
Climbs(F, S, m) == F = [k \in 0..m |-> IF k = 0 THEN S ELSE Upward(F[k-1])]

\* There is such a function.
LEMMA ClimbExists ==
  ASSUME NEW S \in SUBSET Nodes, NEW m \in Nat
  PROVE  \E F : Climbs(F, S, m)
<1> DEFINE step == [X \in SUBSET Nodes |-> Upward(X)]
<1>1. \A X \in SUBSET Nodes : Upward(X) \in SUBSET Nodes
  BY DEF Upward, Parents
<1>2. /\ step \in [SUBSET Nodes -> SUBSET Nodes]
      /\ \A X \in SUBSET Nodes : step[X] = Upward(X)
  BY <1>1
<1> HIDE DEF step
<1>3. PICK F : IsChain(F, step, S, m)
  BY <1>2, ChainExists
<1>4. /\ F \in [0..m -> SUBSET Nodes] /\ F[0] = S
      /\ \A k \in 1..m : F[k-1] \in SUBSET Nodes /\ F[k] = step[F[k-1]]
  BY <1>3 DEF IsChain
<1>5. \A k \in 0..m : F[k] = IF k = 0 THEN S ELSE Upward(F[k-1])
  BY <1>2, <1>4
<1>6. F = [k \in 0..m |-> F[k]]
  BY <1>4
<1>7. Climbs(F, S, m)
  BY <1>5, <1>6 DEF Climbs
<1>8. QED  BY <1>7

\* Whoever is reached from S by going up is in S or above another one who is.
LEMMA ReachedFromBelow ==
  ASSUME NEW S \in SUBSET Nodes, NEW x \in Closure(S, Parents), x \notin S
  PROVE  \E y \in Closure(S, Parents) : x \in Parents(y)
<1> DEFINE N == Cardinality(Nodes)
           R == CHOOSE F : Climbs(F, S, N)
<1>1. N \in Nat
  BY NodesAreFinite
<1>2. Closure(S, Parents) = R[N]
  BY Zenon DEF Closure, Climbs, Upward
<1>3. Climbs(R, S, N)
  <2> HIDE DEF N
  <2>1. QED  BY <1>1, ClimbExists
<1> HIDE DEF R, N
<1>4. \A k \in 0..N : R[k] = IF k = 0 THEN S ELSE Upward(R[k-1])
  BY <1>1, <1>3 DEF Climbs
<1>5. \A k \in 1..N : R[k-1] \subseteq R[k]
  <2>1. SUFFICES ASSUME NEW k \in 1..N  PROVE  R[k-1] \subseteq R[k]
    OBVIOUS
  <2>2. k \in 0..N /\ k # 0
    BY <1>1
  <2>3. R[k] = Upward(R[k-1])
    BY <1>4, <2>2
  <2>4. QED  BY <2>3 DEF Upward
<1>6. ASSUME NEW y, NEW j \in 0..N, y \in R[j]  PROVE  y \in R[N]
  <2> DEFINE Bad == {k \in j..N : y \notin R[k]}
  <2>1. SUFFICES ASSUME Bad # {}  PROVE  FALSE
    BY <1>1, <1>6
  <2>2. PICK k \in Bad : \A i \in Bad : k <= i
    <3>1. Bad \in SUBSET Nat
      BY <1>1
    <3> HIDE DEF Bad
    <3>2. QED  BY <2>1, <3>1, LeastNumber
  <2>3. k \in j..N /\ y \notin R[k] /\ k # j
    BY <1>6
  <2>4. k - 1 \in j..N /\ k - 1 \notin Bad /\ k \in 1..N
    BY <1>1, <2>2, <2>3
  <2>5. QED  BY <1>5, <2>3, <2>4
<1>7. PICK k \in 0..N : x \in R[k] /\ \A j \in 0..N : x \in R[j] => k <= j
  <2> DEFINE T == {j \in 0..N : x \in R[j]}
  <2>1. T \in SUBSET Nat /\ N \in T
    BY <1>1, <1>2
  <2>2. PICK k \in T : \A j \in T : k <= j
    <3> HIDE DEF T
    <3>1. QED  BY <2>1, LeastNumber
  <2>3. QED  BY <2>2
<1>8. k # 0 /\ k - 1 \in 0..N
  BY <1>1, <1>4, <1>7
<1>9. x \notin R[k-1] /\ x \in Upward(R[k-1])
  BY <1>1, <1>4, <1>7, <1>8
<1>10. PICK y \in R[k-1] : x \in Parents(y)
  BY <1>9 DEF Upward
<1>11. y \in R[N]
  BY <1>6, <1>8, <1>10
<1>12. QED  BY <1>2, <1>10, <1>11

\* A repairable gate has a repairable child.
LEMMA RepairableAreKnown ==
  ASSUME NEW g \in Gates \cap Repairable
  PROVE  ChildrenOf(g) \cap Repairable # {}
<1> DEFINE S == {h \in Closure({top}, ChildrenOf) \cap Gates :
                   \E b \in ChildrenOf(h) \cap BasicEvents : IsRepairableBE(b)}
<1>1. Repairable = {b \in BasicEvents : IsRepairableBE(b)} \cup Closure(S, Parents)
  BY DEF Repairable
<1>2. CASE g \in S
  BY <1>1, <1>2
<1>3. CASE g \notin S
  <2>0. S \in SUBSET Nodes
    BY DEF Gates
  <2> HIDE DEF S
  <2>1. g \in Closure(S, Parents)
    BY <1>1, KindsOfNodes
  <2>2. PICK y \in Closure(S, Parents) : g \in Parents(y)
    BY <1>3, <2>0, <2>1, ReachedFromBelow
  <2>3. QED  BY <1>1, <2>2 DEF Parents
<1>4. QED  BY <1>2, <1>3

-----------------------------------------------------------------------------
(* What keeps an automaton from an impossible signal. *)

\* The children that a spare gate holds in state x: the one that it uses, those
\* that it has yet to release, and its primary if it is always active.
Held(g, x) ==
  {i \in Kids(g) : \/ i \in {x.cur_using, x.prev_using, x.repairing_deactivate}
                   \/ i = 1 /\ g \in AlwaysActive}

\* State x of node n commands and repairs only what it should: an always-active
\* voting gate commands nobody; a spare gate releases no child that it uses, and
\* an always-active one uses its primary only while it is free; a basic event
\* under repair has left its first phase.
Fit(n, x) ==
  IF tree[n].type = "voting"
  THEN n \in AlwaysActive => ~x.running /\ x.activated = {}
  ELSE IF tree[n].type = "wsp"
  THEN /\ x.repairing_deactivate # 0 =>
            x.repairing_deactivate \notin {x.cur_using, x.prev_using}
       /\ n \in AlwaysActive =>
            x.repairing_deactivate # 1 /\ (x.cur_using = 1 => 1 \in Free(x))
  ELSE IF tree[n].type = "be"
  THEN x.phase >= 1 /\ (x.repair_status = "BUSY" => x.phase > 1)
  ELSE TRUE

\* Label l is no impossible signal for node n: a recovery is that of a child it
\* heard failed, a command is one that it obeys, and other spare gates leave what
\* it holds alone.
Welcome(n, l) ==
  /\ \A i \in Kids(n) : l = ONLINE(i) =>
       /\ Hears(n, node[n], i)
       /\ tree[n].type = "wsp" => ChildrenOf(n) \cap Repairable # {}
  /\ l = DEACTIVATE(0, FALSE) => n \notin AlwaysActive /\ tree[n].type # "pand"
  /\ tree[n].type = "wsp" => \A i \in Kids(n) :
       /\ l = ACTIVATE(i, FALSE) => ~(n \in AlwaysActive /\ i = 1)
       /\ l = DEACTIVATE(i, FALSE) => i \notin Held(n, node[n])

\* What node n says with label l is so: it recovers from a failure that it has
\* announced, and it deactivates what it may.
Orderly(n, l) ==
  /\ l = ONLINE(0) => Says(n, node[n])
  /\ \A i \in Kids(n) : l = DEACTIVATE(i, TRUE) => Children(n)[i] \in MayDeactivate(n)

\* The commands differ by their heads, their indices and their directions.
LEMMA CommandsDiffer ==
  /\ \A l : l[1] # "DEACTIVATE" => \A j : l # DEACTIVATE(j, TRUE) /\ l # DEACTIVATE(j, FALSE)
  /\ \A l : l[1] # "ACTIVATE" => \A j : l # ACTIVATE(j, TRUE) /\ l # ACTIVATE(j, FALSE)
  /\ \A l : l[1] # "ONLINE" => \A j : l # ONLINE(j)
  /\ \A i, j : /\ DEACTIVATE(i, TRUE) # DEACTIVATE(j, FALSE)
               /\ ACTIVATE(i, TRUE) # ACTIVATE(j, FALSE)
               /\ DEACTIVATE(i, TRUE) = DEACTIVATE(j, TRUE) => i = j
               /\ DEACTIVATE(i, FALSE) = DEACTIVATE(j, FALSE) => i = j
               /\ ACTIVATE(i, TRUE) = ACTIVATE(j, TRUE) => i = j
               /\ ACTIVATE(i, FALSE) = ACTIVATE(j, FALSE) => i = j
<1>1. \A j : /\ ONLINE(j)[1] = "ONLINE"
             /\ DEACTIVATE(j, TRUE)[1] = "DEACTIVATE" /\ DEACTIVATE(j, FALSE)[1] = "DEACTIVATE"
             /\ ACTIVATE(j, TRUE)[1] = "ACTIVATE" /\ ACTIVATE(j, FALSE)[1] = "ACTIVATE"
  BY Heads
<1>2. \A i, j : DEACTIVATE(i, TRUE) # DEACTIVATE(j, FALSE) /\ ACTIVATE(i, TRUE) # ACTIVATE(j, FALSE)
  BY DEF ACTIVATE, DEACTIVATE
<1>3. \A l : l[1] # "DEACTIVATE" => \A j : l # DEACTIVATE(j, TRUE) /\ l # DEACTIVATE(j, FALSE)
  BY <1>1, Zenon
<1>4. \A l : l[1] # "ACTIVATE" => \A j : l # ACTIVATE(j, TRUE) /\ l # ACTIVATE(j, FALSE)
  BY <1>1, Zenon
<1>5. \A l : l[1] # "ONLINE" => \A j : l # ONLINE(j)
  BY <1>1, Zenon
<1>6. \A i, j : /\ DEACTIVATE(i, TRUE) = DEACTIVATE(j, TRUE) => i = j
                /\ DEACTIVATE(i, FALSE) = DEACTIVATE(j, FALSE) => i = j
                /\ ACTIVATE(i, TRUE) = ACTIVATE(j, TRUE) => i = j
                /\ ACTIVATE(i, FALSE) = ACTIVATE(j, FALSE) => i = j
  BY DEF ACTIVATE, DEACTIVATE
<1>7. QED  BY <1>2, <1>3, <1>4, <1>5, <1>6, Zenon

\* A step with label l to state y after which the node is as it should be.
Fine(n, l, y) == Works(n, y) /\ Fit(n, y) /\ Orderly(n, l)

\* Most labels say nothing that could be wrong.
LEMMA Harmless ==
  ASSUME NEW n, NEW l, l[1] \notin {"ONLINE", "DEACTIVATE"} \/ l = DEACTIVATE(0, FALSE)
                         \/ (\E i \in Kids(n) : l \in {ONLINE(i), DEACTIVATE(i, FALSE)})
  PROVE  Orderly(n, l)
<1>0. 0 \notin Kids(n)
  BY DEF Kids
<1>1. CASE l[1] \notin {"ONLINE", "DEACTIVATE"}
  BY <1>1, CommandsDiffer DEF Orderly
<1>2. CASE l = DEACTIVATE(0, FALSE)
  <2>1. l # ONLINE(0) /\ \A i : l # DEACTIVATE(i, TRUE)
    BY <1>2, CommandsDiffer DEF DEACTIVATE, ONLINE
  <2>2. QED  BY <2>1 DEF Orderly
<1>3. ASSUME NEW i \in Kids(n), l \in {ONLINE(i), DEACTIVATE(i, FALSE)}  PROVE  Orderly(n, l)
  <2>1. CASE l = ONLINE(i)
    <3>1. l[1] = "ONLINE"
      BY <2>1, Heads
    <3>2. i # 0
      BY <1>0
    <3>3. l # ONLINE(0)
      BY <2>1, <3>2, NewsDiffer
    <3>4. QED  BY <3>1, <3>3, CommandsDiffer DEF Orderly
  <2>2. CASE l = DEACTIVATE(i, FALSE)
    <3>1. l # ONLINE(0) /\ \A j : l # DEACTIVATE(j, TRUE)
      BY <2>2, CommandsDiffer DEF DEACTIVATE, ONLINE
    <3>2. QED  BY <3>1 DEF Orderly
  <2>3. QED  BY <1>3, <2>1, <2>2
<1>4. QED  BY <1>1, <1>2, <1>3

\* A voting gate.
LEMMA VotingFits ==
  ASSUME NEW g \in Votings, Good(g), Fit(g, node[g]), NEW t \in VotingAt(g)!Trans,
         Welcome(g, t[1])
  PROVE  Fine(g, t[1], t[2])
<1> DEFINE x == node[g]
<1>1. /\ x \in VotingStates(g) /\ x.mode = "live" /\ tree[g].type = "voting"
      /\ g \in AlwaysActive => ~x.running /\ x.activated = {}
  BY VotingIs DEF Good, Typed, Working, Works, Fit
<1>2. ASSUME NEW l, Orderly(g, l), NEW y, y.mode = "live", y.running = x.running,
             y.activated = x.activated, t = <<l, y>>
      PROVE  Fine(g, t[1], t[2])
  <2>1. Fine(g, l, y)
    BY <1>1, <1>2 DEF Fine, Works, Fit
  <2>2. QED  BY <1>2, <2>1
<1>3. CASE t \in VotingAt(g)!ChildFails
  <2>1. PICK i \in Kids(g) : t = <<FAIL(i), VotingAt(g)!AfterFail(i)>>
    BY <1>3, Zenon DEF VotingAt!ChildFails, VotingAt!Children, Kids, FAIL, VotingAt!FAIL
  <2> DEFINE y == VotingAt(g)!AfterFail(i)
  <2>2. y.mode = "live" /\ y.running = x.running /\ y.activated = x.activated
    <3> DEFINE e == x.emit_fail \/ (x.nr_failed + 1 = tree[g].threshold /\ ~x.done)
               u == [x EXCEPT !.received = x.received \cup {i},
                              !.nr_failed = x.nr_failed + 1, !.emit_fail = e]
    <3>1. y \in {x, u}
      BY Zenon DEF VotingAt!AfterFail
    <3>2. u.mode = x.mode /\ u.running = x.running /\ u.activated = x.activated
      BY <1>1, Zenon DEF VotingStates
    <3> HIDE DEF u, y
    <3>3. QED  BY <1>1, <3>1, <3>2
  <2>3. Orderly(g, FAIL(i))
    BY Harmless, Heads
  <2> HIDE DEF y
  <2>4. QED  BY <1>2, <2>1, <2>2, <2>3 DEF y
<1>4. CASE t \in VotingAt(g)!ChildOnline
  <2>1. PICK i \in Kids(g) : t = <<ONLINE(i), VotingAt(g)!AfterOnline(i)>>
    BY <1>4, Zenon DEF VotingAt!ChildOnline, VotingAt!Children, Kids, ONLINE, VotingAt!ONLINE
  <2>2. i \in x.received
    <3>1. t[1] = ONLINE(i)
      BY <2>1
    <3>2. Hears(g, x, i)
      BY <3>1, Zenon DEF Welcome
    <3>3. QED  BY <1>1, <3>2, Zenon DEF Hears
  <2> DEFINE y == [x EXCEPT !.received = x.received \ {i}, !.nr_failed = x.nr_failed - 1]
  <2>3. t = <<ONLINE(i), y>>
    BY <2>1, <2>2, Zenon DEF VotingAt!AfterOnline
  <2>4. y.mode = "live" /\ y.running = x.running /\ y.activated = x.activated
    BY <1>1, Zenon DEF VotingStates
  <2>5. Orderly(g, ONLINE(i))
    BY Harmless
  <2> HIDE DEF y
  <2>6. QED  BY <1>2, <2>3, <2>4, <2>5
<1>5. CASE t \in VotingAt(g)!AnnounceFail
  <2> DEFINE y == [x EXCEPT !.done = TRUE, !.emit_fail = FALSE]
  <2>1. t = <<FAIL(0), y>>
    BY <1>5, Zenon DEF VotingAt!AnnounceFail, VotingAt!Offer, FAIL, VotingAt!FAIL
  <2>2. y.mode = "live" /\ y.running = x.running /\ y.activated = x.activated
    BY <1>1, Zenon DEF VotingStates
  <2>3. Orderly(g, FAIL(0))
    BY Harmless, Heads
  <2> HIDE DEF y
  <2>4. QED  BY <1>2, <2>1, <2>2, <2>3
<1>6. CASE t \in VotingAt(g)!AnnounceOnline
  <2> DEFINE y == [x EXCEPT !.done = FALSE]
  <2>1. t = <<ONLINE(0), y>> /\ x.done
    BY <1>6, Zenon DEF VotingAt!AnnounceOnline, VotingAt!Offer, ONLINE, VotingAt!ONLINE
  <2>2. y.mode = "live" /\ y.running = x.running /\ y.activated = x.activated
    BY <1>1, Zenon DEF VotingStates
  <2>3. Orderly(g, ONLINE(0))
    <3>1. Says(g, x)
      BY <1>1, <2>1 DEF Says
    <3>2. \A i : ONLINE(0) # DEACTIVATE(i, TRUE)
      BY DEF ONLINE, DEACTIVATE
    <3>3. QED  BY <3>1, <3>2 DEF Orderly
  <2> HIDE DEF y
  <2>4. QED  BY <1>2, <2>1, <2>2, <2>3
<1>7. CASE t \in VotingAt(g)!Activated
  <2> DEFINE y == [x EXCEPT !.running = TRUE]
  <2>1. t = <<ACTIVATE(0, FALSE), y>> /\ g \notin AlwaysActive
    BY <1>7, Zenon DEF VotingAt!Activated, VotingAt!Offer, ACTIVATE, VotingAt!ACTIVATE
  <2>2. y.mode = "live"
    BY <1>1, Zenon DEF VotingStates
  <2>3. Orderly(g, ACTIVATE(0, FALSE))
    BY Harmless, Heads
  <2> HIDE DEF y
  <2>4. Fine(g, ACTIVATE(0, FALSE), y)
    BY <1>1, <2>1, <2>2, <2>3 DEF Fine, Works, Fit
  <2>5. QED  BY <2>1, <2>4
<1>8. CASE t \in VotingAt(g)!Deactivated
  <2> DEFINE y == [x EXCEPT !.running = FALSE]
             w == IF g \in AlwaysActive THEN VotingAt(g)!Impossible ELSE y
  <2>1. t = <<DEACTIVATE(0, FALSE), w>>
    BY <1>8, Zenon DEF VotingAt!Deactivated, DEACTIVATE, VotingAt!DEACTIVATE
  <2>2. g \notin AlwaysActive
    <3> HIDE DEF w
    <3>1. t[1] = DEACTIVATE(0, FALSE)
      BY <2>1
    <3>2. QED  BY <3>1, Zenon DEF Welcome
  <2>3. t = <<DEACTIVATE(0, FALSE), y>>
    BY <2>1, <2>2, Zenon
  <2>4. y.mode = "live"
    BY <1>1, Zenon DEF VotingStates
  <2>5. Orderly(g, DEACTIVATE(0, FALSE))
    BY Harmless
  <2> HIDE DEF y, w
  <2>6. Fine(g, DEACTIVATE(0, FALSE), y)
    BY <1>1, <2>2, <2>4, <2>5 DEF Fine, Works, Fit
  <2>7. QED  BY <2>3, <2>6
<1>9. CASE t \in VotingAt(g)!ActivateChild \cup VotingAt(g)!DeactivateChild
  <2> DEFINE a(i) == [x EXCEPT !.activated = @ \cup {i}]
             d(i) == [x EXCEPT !.activated = @ \ {i}]
  <2>1. x.activated \subseteq Kids(g)
    BY <1>1 DEF VotingStates
  <2>2. \E i \in Kids(g) : \/ t = <<ACTIVATE(i, TRUE), a(i)>> /\ x.running
                           \/ t = <<DEACTIVATE(i, TRUE), d(i)>> /\ i \in x.activated
    <3>1. CASE t \in VotingAt(g)!ActivateChild
      BY <3>1, Zenon DEF VotingAt!ActivateChild, VotingAt!ToActivate, VotingAt!Children,
                         Kids, ACTIVATE, VotingAt!ACTIVATE
    <3>2. CASE t \in VotingAt(g)!DeactivateChild
      BY <2>1, <3>2, Zenon DEF VotingAt!DeactivateChild, VotingAt!ToDeactivate,
                               DEACTIVATE, VotingAt!DEACTIVATE
    <3>3. QED  BY <1>9, <3>1, <3>2
  <2>3. PICK i \in Kids(g) : \/ t = <<ACTIVATE(i, TRUE), a(i)>> /\ x.running
                             \/ t = <<DEACTIVATE(i, TRUE), d(i)>> /\ i \in x.activated
    BY <2>2, Zenon
  <2>4. g \notin AlwaysActive
    BY <1>1, <2>3
  <2>5. a(i).mode = "live" /\ d(i).mode = "live"
    BY <1>1, Zenon DEF VotingStates
  <2>6. Orderly(g, ACTIVATE(i, TRUE))
    BY Harmless, Heads
  <2>7. Orderly(g, DEACTIVATE(i, TRUE))
    <3>1. \A j : DEACTIVATE(i, TRUE) = DEACTIVATE(j, TRUE) => j = i
      BY CommandsDiffer
    <3>2. DEACTIVATE(i, TRUE) # ONLINE(0)
      BY DEF ONLINE, DEACTIVATE
    <3>3. Children(g)[i] \in ChildrenOf(g)
      BY VotingIs, GateIsNode, ChildHasOnePlace
    <3>4. Children(g)[i] \in MayDeactivate(g)
      BY <1>1, <2>4, <3>3 DEF MayDeactivate
    <3>5. QED  BY <3>1, <3>2, <3>4, Zenon DEF Orderly
  <2> HIDE DEF a, d
  <2>8. Fine(g, ACTIVATE(i, TRUE), a(i)) /\ Fine(g, DEACTIVATE(i, TRUE), d(i))
    BY <1>1, <2>4, <2>5, <2>6, <2>7 DEF Fine, Works, Fit
  <2>9. CASE t = <<ACTIVATE(i, TRUE), a(i)>>
    BY <2>8, <2>9
  <2>10. CASE t = <<DEACTIVATE(i, TRUE), d(i)>>
    BY <2>8, <2>10
  <2>11. QED  BY <2>3, <2>9, <2>10
<1>10. \/ t \in VotingAt(g)!ChildFails \/ t \in VotingAt(g)!AnnounceFail
      \/ t \in VotingAt(g)!ChildOnline \/ t \in VotingAt(g)!AnnounceOnline
      \/ t \in VotingAt(g)!Activated \/ t \in VotingAt(g)!Deactivated
      \/ t \in VotingAt(g)!ActivateChild \cup VotingAt(g)!DeactivateChild
  BY <1>1 DEF VotingAt!Trans
<1>11. QED  BY <1>3, <1>4, <1>5, <1>6, <1>7, <1>8, <1>9, <1>10

\* A priority-AND gate.
LEMMA PAndFits ==
  ASSUME NEW g \in PAnds, Good(g), NEW t \in PAndAt(g)!Trans, Welcome(g, t[1])
  PROVE  Fine(g, t[1], t[2])
<1> DEFINE x == node[g]  m == Len(Children(g))
<1>1. /\ x \in PAndStates(g) /\ x.mode = "live" /\ m \in Nat \ {0} /\ tree[g].type = "pand"
  BY PAndIs DEF Good, Typed, Working, Works
<1>2. ASSUME NEW l, Orderly(g, l), NEW y, y.mode = "live", t = <<l, y>>
      PROVE  Fine(g, t[1], t[2])
  <2>1. Fine(g, l, y)
    BY <1>1, <1>2 DEF Fine, Works, Fit
  <2>2. QED  BY <1>2, <2>1
<1>3. CASE t \in PAndAt(g)!ChildFails
  <2>1. PICK i \in Kids(g) : t = <<FAIL(i), PAndAt(g)!AfterFail(i)>>
    BY <1>3, Zenon DEF PAndAt!ChildFails, PAndAt!Children, Kids, FAIL, PAndAt!FAIL
  <2> DEFINE y == PAndAt(g)!AfterFail(i)
  <2>2. y.mode = "live"
    <3> DEFINE o == IF i = x.in_order_mark + 1 THEN i ELSE x.in_order_mark
               u == [x EXCEPT !.failed = x.failed \cup {i},
                              !.nr_failed = x.nr_failed + 1, !.in_order_mark = o]
    <3>1. y \in {x, u}
      BY Zenon DEF PAndAt!AfterFail
    <3>2. u.mode = x.mode
      BY <1>1, Zenon DEF PAndStates
    <3> HIDE DEF u, y
    <3>3. QED  BY <1>1, <3>1, <3>2
  <2>3. Orderly(g, FAIL(i))
    BY Harmless, Heads
  <2> HIDE DEF y
  <2>4. QED  BY <1>2, <2>1, <2>2, <2>3 DEF y
<1>4. CASE t \in PAndAt(g)!ChildOnline
  <2>1. PICK i \in Kids(g) : t = <<ONLINE(i), PAndAt(g)!AfterOnline(i)>>
    BY <1>4, Zenon DEF PAndAt!ChildOnline, PAndAt!Children, Kids, ONLINE, PAndAt!ONLINE
  <2>2. i \in x.failed
    <3>1. t[1] = ONLINE(i)
      BY <2>1
    <3>2. Hears(g, x, i)
      BY <3>1, Zenon DEF Welcome
    <3>3. QED  BY <1>1, <3>2 DEF Hears
  <2>3. PAndAt(g)!repairable
    BY <1>1 DEF PAndAt!repairable
  <2> DEFINE o == IF i <= x.in_order_mark THEN i - 1 ELSE x.in_order_mark
             y == [x EXCEPT !.failed = x.failed \ {i},
                            !.nr_failed = x.nr_failed - 1, !.in_order_mark = o]
  <2>4. t = <<ONLINE(i), y>>
    BY <2>1, <2>2, <2>3, Zenon DEF PAndAt!AfterOnline
  <2>5. y.mode = "live"
    BY <1>1, Zenon DEF PAndStates
  <2>6. Orderly(g, ONLINE(i))
    BY Harmless
  <2> HIDE DEF y
  <2>7. QED  BY <1>2, <2>4, <2>5, <2>6
<1>5. CASE t \in PAndAt(g)!AnnounceFail
  <2> DEFINE y == [x EXCEPT !.done = TRUE]
  <2>1. t = <<FAIL(0), y>>
    BY <1>5, Zenon DEF PAndAt!AnnounceFail, PAndAt!Offer, FAIL, PAndAt!FAIL
  <2>2. y.mode = "live"
    BY <1>1, Zenon DEF PAndStates
  <2>3. Orderly(g, FAIL(0))
    BY Harmless, Heads
  <2> HIDE DEF y
  <2>4. QED  BY <1>2, <2>1, <2>2, <2>3
<1>6. CASE t \in PAndAt(g)!AnnounceOnline
  <2> DEFINE y == [x EXCEPT !.done = FALSE]
  <2>1. t = <<ONLINE(0), y>> /\ x.done
    BY <1>6, Zenon DEF PAndAt!AnnounceOnline, PAndAt!Offer, ONLINE, PAndAt!ONLINE
  <2>2. y.mode = "live"
    BY <1>1, Zenon DEF PAndStates
  <2>3. Orderly(g, ONLINE(0))
    <3>1. Says(g, x)
      BY <1>1, <2>1 DEF Says
    <3>2. \A i : ONLINE(0) # DEACTIVATE(i, TRUE)
      BY DEF ONLINE, DEACTIVATE
    <3>3. QED  BY <3>1, <3>2 DEF Orderly
  <2> HIDE DEF y
  <2>4. QED  BY <1>2, <2>1, <2>2, <2>3
<1>7. CASE t \in PAndAt(g)!Activated \cup PAndAt(g)!ActivateChild
  <2> DEFINE y(v) == [x EXCEPT !.nr_active = v]
  <2>1. \E i, d, v : t = <<ACTIVATE(i, d), y(v)>> /\ d \in BOOLEAN
    <3>1. CASE t \in PAndAt(g)!Activated
      BY <3>1, Zenon DEF PAndAt!Activated, ACTIVATE, PAndAt!ACTIVATE
    <3>2. CASE t \in PAndAt(g)!ActivateChild
      BY <3>2, Zenon DEF PAndAt!ActivateChild, PAndAt!Offer, ACTIVATE, PAndAt!ACTIVATE
    <3>3. QED  BY <1>7, <3>1, <3>2
  <2>2. PICK i, d, v : t = <<ACTIVATE(i, d), y(v)>> /\ d \in BOOLEAN
    BY <2>1, Zenon
  <2>3. y(v).mode = "live"
    BY <1>1, Zenon DEF PAndStates
  <2>4. Orderly(g, ACTIVATE(i, d))
    <3>1. ACTIVATE(i, d)[1] = "ACTIVATE"
      BY DEF ACTIVATE
    <3>2. QED  BY <3>1, Harmless
  <2> HIDE DEF y
  <2>5. QED  BY <1>2, <2>2, <2>3, <2>4
<1>8. CASE t \in PAndAt(g)!Deactivated
  <2>1. t = <<DEACTIVATE(0, FALSE), PAndAt(g)!Impossible>>
    BY <1>8, Zenon DEF PAndAt!Deactivated, DEACTIVATE, PAndAt!DEACTIVATE
  <2>2. t[1] = DEACTIVATE(0, FALSE)
    BY <2>1
  <2>3. QED  BY <1>1, <2>2, Zenon DEF Welcome
<1>9. \/ t \in PAndAt(g)!ChildFails \/ t \in PAndAt(g)!AnnounceFail
      \/ t \in PAndAt(g)!ChildOnline \/ t \in PAndAt(g)!AnnounceOnline
      \/ t \in PAndAt(g)!Activated \cup PAndAt(g)!ActivateChild
      \/ t \in PAndAt(g)!Deactivated
  BY <1>1 DEF PAndAt!Trans
<1>10. QED  BY <1>3, <1>4, <1>5, <1>6, <1>7, <1>8, <1>9

\* A dependency gate.
LEMMA FDepFits ==
  ASSUME NEW f \in FDeps, NEW t \in FDepAt(f)!Trans
  PROVE  Fine(f, t[1], t[2])
<1>1. tree[f].type = "fdep"
  BY FDepIs
<1>2. t[1][1] \in {"FAIL", "ACTIVATE"}
  <2>1. t \in FDepAt(f)!TriggerFails => t[1][1] = "FAIL"
    BY DEF FDepAt!TriggerFails, FDepAt!FAIL
  <2>2. t \in FDepAt(f)!Activated => t[1][1] = "ACTIVATE"
    BY DEF FDepAt!Activated, FDepAt!ACTIVATE
  <2>3. t \in FDepAt(f)!ActivateTrigger => t[1][1] = "ACTIVATE"
    <3> DEFINE y == [node[f] EXCEPT !.act = FALSE]
    <3>1. t \in FDepAt(f)!ActivateTrigger => t = <<ACTIVATE(1, TRUE), y>>
      BY Zenon DEF FDepAt!ActivateTrigger, FDepAt!Offer, ACTIVATE, FDepAt!ACTIVATE
    <3> HIDE DEF y
    <3>2. QED  BY <3>1 DEF ACTIVATE
  <2>4. t \in FDepAt(f)!NotifyParents => t[1][1] = "FAIL"
    BY DEF FDepAt!NotifyParents, FDepAt!FAIL
  <2>5. QED  BY <2>1, <2>2, <2>3, <2>4 DEF FDepAt!Trans
<1>3. QED  BY <1>1, <1>2, Harmless DEF Fine, Works, Fit

\* add_transition makes nothing impossible of an event that fits.
LEMMA EventSettlesFit ==
  ASSUME NEW b \in BasicEvents, NEW u \in EventStates, u.repair_status \in {"NONE", "BUSY"},
         u.status \notin {"IMPOSSIBLE", "TERMINATED"}, Fit(b, u)
  PROVE  Works(b, EventAt(b)!Settle(u)) /\ Fit(b, EventAt(b)!Settle(u))
<1> DEFINE early == u.phase = 1 /\ u.repair_status \in {"NEEDED", "BUSY"}
           over == early \/ u.repair_status = "DONE"
           s == IF early /\ (u.emit_inspect \/ ~(b \in Repairable)) THEN "IMPOSSIBLE" ELSE u.status
           r == IF over THEN "NONE" ELSE u.repair_status
           y == [u EXCEPT !.status = s, !.repair_status = r]
<1>1. tree[b].type = "be" /\ u.phase \in Int
  BY EventIs DEF EventStates
<1>2. u.phase >= 1 /\ (u.repair_status = "BUSY" => u.phase > 1)
  BY <1>1 DEF Fit
<1>3. ~early /\ ~over
  BY <1>1, <1>2
<1>4. s = u.status /\ r = u.repair_status
  BY <1>3
<1>5. EventAt(b)!Settle(u) = y
  BY Zenon DEF EventAt!Settle, EventAt!Told
<1>6. y.status = s /\ y.repair_status = r /\ y.phase = u.phase
  BY Zenon DEF EventStates
<1> HIDE DEF y, s, r
<1>7. Works(b, y) /\ Fit(b, y)
  BY <1>1, <1>2, <1>4, <1>6 DEF Works, Fit
<1>8. QED  BY <1>5, <1>7

\* A basic event, in a rule.
LEMMA EventFits ==
  ASSUME NEW b \in BasicEvents, Good(b), Fit(b, node[b]), NEW t \in EventAt(b)!Trans,
         RuleLabel(b, t[1]), Welcome(b, t[1])
  PROVE  Fine(b, t[1], t[2])
<1> DEFINE x == node[b]
           S(v) == EventAt(b)!Settle(v)
<1>1. /\ x \in EventStates /\ x.status \notin {"IMPOSSIBLE", "TERMINATED"}
      /\ x.repair_status \in {"NONE", "BUSY"} /\ tree[b].type = "be"
      /\ x.phase >= 1 /\ (x.repair_status = "BUSY" => x.phase > 1)
  BY EventIs DEF Good, Typed, Working, Works, Sound, Fit
<1>2. ASSUME NEW l, Orderly(b, l), NEW u \in EventStates, u.status = x.status,
             u.repair_status = x.repair_status, u.phase = x.phase, t = <<l, S(u)>>
      PROVE  Fine(b, t[1], t[2])
  <2>1. Fit(b, u)
    BY <1>1, <1>2 DEF Fit
  <2>2. Works(b, S(u)) /\ Fit(b, S(u))
    BY <1>1, <1>2, <2>1, EventSettlesFit
  <2> HIDE DEF S
  <2>3. Fine(b, l, S(u))
    BY <1>2, <2>2 DEF Fine
  <2>4. QED  BY <1>2, <2>3
<1>3. CASE t \in EventAt(b)!AnnounceFail
  <2> DEFINE u == [x EXCEPT !.emit_fail = FALSE]
  <2>1. t = <<FAIL(0), S(u)>>
    BY <1>3, Zenon DEF EventAt!AnnounceFail, EventAt!When, FAIL, EventAt!FAIL
  <2>2. /\ u \in EventStates /\ u.status = x.status /\ u.repair_status = x.repair_status
        /\ u.phase = x.phase
    BY <1>1, Zenon DEF EventStates
  <2>3. Orderly(b, FAIL(0))
    BY Harmless, Heads
  <2> HIDE DEF u, S
  <2>4. QED  BY <1>2, <2>1, <2>2, <2>3
<1>4. CASE t \in EventAt(b)!AnnounceOnline
  <2> DEFINE u == [x EXCEPT !.emit_online = FALSE]
  <2>1. t = <<ONLINE(0), S(u)>> /\ x.emit_online
    BY <1>4, Zenon DEF EventAt!AnnounceOnline, EventAt!When, ONLINE, EventAt!ONLINE
  <2>2. /\ u \in EventStates /\ u.status = x.status /\ u.repair_status = x.repair_status
        /\ u.phase = x.phase
    BY <1>1, Zenon DEF EventStates
  <2>3. Orderly(b, ONLINE(0))
    <3>1. Says(b, x)
      BY <1>1, <2>1 DEF Says
    <3>2. \A i : ONLINE(0) # DEACTIVATE(i, TRUE)
      BY DEF ONLINE, DEACTIVATE
    <3>3. QED  BY <3>1, <3>2 DEF Orderly
  <2> HIDE DEF u, S
  <2>4. QED  BY <1>2, <2>1, <2>2, <2>3
<1>5. CASE t \in EventAt(b)!AnnounceInspect
  <2> DEFINE u == [x EXCEPT !.emit_inspect = FALSE]
  <2>1. t = <<INSPECT(0), S(u)>>
    BY <1>5, Zenon DEF EventAt!AnnounceInspect, EventAt!When, INSPECT, EventAt!INSPECT
  <2>2. /\ u \in EventStates /\ u.status = x.status /\ u.repair_status = x.repair_status
        /\ u.phase = x.phase
    BY <1>1, Zenon DEF EventStates
  <2>3. Orderly(b, INSPECT(0))
    BY Harmless, Heads
  <2> HIDE DEF u, S
  <2>4. QED  BY <1>2, <2>1, <2>2, <2>3
<1>6. CASE t \in EventAt(b)!Activated
  <2> DEFINE u == [x EXCEPT !.isactive = TRUE]
  <2>1. t = <<ACTIVATE(0, FALSE), S(u)>>
    BY <1>6, Zenon DEF EventAt!Activated, EventAt!When, ACTIVATE, EventAt!ACTIVATE
  <2>2. /\ u \in EventStates /\ u.status = x.status /\ u.repair_status = x.repair_status
        /\ u.phase = x.phase
    BY <1>1, Zenon DEF EventStates
  <2>3. Orderly(b, ACTIVATE(0, FALSE))
    BY Harmless, Heads
  <2> HIDE DEF u, S
  <2>4. QED  BY <1>2, <2>1, <2>2, <2>3
<1>7. CASE t \in EventAt(b)!Deactivated
  <2> DEFINE u == [x EXCEPT !.isactive = FALSE]
             v == IF b \in AlwaysActive THEN EventAt(b)!Impossible ELSE u
  <2>1. t = <<DEACTIVATE(0, FALSE), S(v)>>
    BY <1>7, Zenon DEF EventAt!Deactivated, EventAt!When, DEACTIVATE, EventAt!DEACTIVATE
  <2>2. b \notin AlwaysActive
    <3> HIDE DEF v, S
    <3>1. t[1] = DEACTIVATE(0, FALSE)
      BY <2>1
    <3>2. QED  BY <3>1, Zenon DEF Welcome
  <2>3. t = <<DEACTIVATE(0, FALSE), S(u)>>
    BY <2>1, <2>2, Zenon
  <2>4. /\ u \in EventStates /\ u.status = x.status /\ u.repair_status = x.repair_status
        /\ u.phase = x.phase
    BY <1>1, Zenon DEF EventStates
  <2>5. Orderly(b, DEACTIVATE(0, FALSE))
    BY Harmless
  <2> HIDE DEF u, S, v
  <2>6. QED  BY <1>2, <2>3, <2>4, <2>5
<1>8. \/ t \in EventAt(b)!AnnounceFail \/ t \in EventAt(b)!AnnounceOnline
      \/ t \in EventAt(b)!AnnounceInspect
      \/ t \in EventAt(b)!Activated \/ t \in EventAt(b)!Deactivated
  BY RuleOfEvent
<1>9. QED  BY <1>3, <1>4, <1>5, <1>6, <1>7, <1>8

\* A basic event whose rate elapses once its inspection is over: the repair that
\* ends then was not for nothing.
LEMMA EventRateFits ==
  ASSUME NEW b \in BasicEvents, Good(b), Fit(b, node[b]), ~node[b].emit_inspect,
         NEW t \in EventAt(b)!Trans, t[1] \in Rated(b)
  PROVE  Works(b, t[2]) /\ Fit(b, t[2])
<1> DEFINE x == node[b]
           S(v) == EventAt(b)!Settle(v)
<1>1. /\ x \in EventStates /\ x.status \notin {"IMPOSSIBLE", "TERMINATED"}
      /\ x.repair_status \in {"NONE", "BUSY"} /\ tree[b].type = "be"
      /\ x.phase >= 1 /\ (x.repair_status = "BUSY" => x.phase > 1)
      /\ x.repair_status = "BUSY" => x.status = "DOWN"
      /\ x.phase \in Int
  <2>1. x \in EventStates
    BY EventIs DEF Good, Typed
  <2>2. x.phase \in Int
    BY <2>1 DEF EventStates
  <2>3. QED  BY <2>1, <2>2, EventIs DEF Good, Working, Works, Sound, Fit
<1>2. ASSUME NEW u \in EventStates, u.status \notin {"IMPOSSIBLE", "TERMINATED"},
             u.repair_status \in {"NONE", "BUSY"}, u.phase >= 1,
             u.repair_status = "BUSY" => u.phase > 1, t[2] = S(u)
      PROVE  Works(b, t[2]) /\ Fit(b, t[2])
  <2>1. Fit(b, u)
    BY <1>1, <1>2 DEF Fit
  <2>2. Works(b, S(u)) /\ Fit(b, S(u))
    BY <1>2, <2>1, EventSettlesFit
  <2> HIDE DEF S
  <2>3. QED  BY <1>2, <2>2
<1>3. CASE t \in EventAt(b)!Degrade
  <2> DEFINE F == EventAt(b)!Failing
             f == x.emit_fail \/ F
             s == IF F THEN "DOWN" ELSE x.status
             r == IF F /\ b \in Repairable /\ TRUE /\ x.repair_status = "NONE"
                  THEN EventAt(b)!AskRepair ELSE x.repair_status
             i == x.emit_inspect \/ x.phase = tree[b].interval
             u == [x EXCEPT !.can_definitely_fail = TRUE, !.emit_fail = f, !.status = s,
                            !.repair_status = r, !.emit_inspect = i, !.phase = x.phase + 1]
  <2>1. t[2] = S(u) /\ x.status = "UP"
    <3>1. EventAt(b)!Degrade =
            EventAt(b)!When(EventAt(b)!can_failsig, EventAt(b)!Rates(1, 2), u)
      BY Zenon DEF EventAt!Degrade
    <3> HIDE DEF u
    <3>2. PICK l : t = <<l, S(u)>> /\ EventAt(b)!can_failsig
      BY <1>3, <3>1, Zenon DEF EventAt!When
    <3>3. x.status = "UP"
      BY <3>2 DEF EventAt!can_failsig
    <3> HIDE DEF S
    <3>4. QED  BY <3>2, <3>3
  <2>2. r \in {"NONE", "BUSY"}
    BY <1>1 DEF EventAt!AskRepair
  <2>3. /\ f \in BOOLEAN /\ i \in BOOLEAN /\ TRUE \in BOOLEAN /\ x.phase + 1 \in Int
        /\ s \in Statuses /\ r \in {"NONE", "NEEDED", "WAITING", "BUSY", "DONE"}
        /\ s \notin {"IMPOSSIBLE", "TERMINATED"}
    BY <1>1, <2>2 DEF EventStates, Statuses
  <2> HIDE DEF f, i, s, r, F
  <2>4. u \in EventStates
    BY <1>1, <2>3, Zenon DEF EventStates
  <2>5. u.status = s /\ u.repair_status = r /\ u.phase = x.phase + 1
    BY <1>1, Zenon DEF EventStates
  <2>6. x.phase + 1 > 1
    BY <1>1
  <2> HIDE DEF u, S
  <2>7. QED  BY <1>2, <2>1, <2>2, <2>3, <2>4, <2>5, <2>6
<1>4. CASE t \in EventAt(b)!Restore
  <2> DEFINE u == [x EXCEPT !.can_definitely_fail = TRUE, !.phase = 1]
  <2>1. t[2] = S(u) /\ x.status = "UP"
    <3>1. EventAt(b)!Restore =
            EventAt(b)!When(EventAt(b)!can_failsig, EventAt(b)!Rates(3, 4), u)
      BY Zenon DEF EventAt!Restore
    <3> HIDE DEF u
    <3>2. PICK l : t = <<l, S(u)>> /\ EventAt(b)!can_failsig
      BY <1>4, <3>1, Zenon DEF EventAt!When
    <3>3. x.status = "UP"
      BY <3>2 DEF EventAt!can_failsig
    <3> HIDE DEF S
    <3>4. QED  BY <3>2, <3>3
  <2>2. /\ u \in EventStates /\ u.status = x.status /\ u.repair_status = x.repair_status
        /\ u.phase = 1
    <3>1. 1 \in Int /\ TRUE \in BOOLEAN
      OBVIOUS
    <3>2. QED  BY <1>1, <3>1, Zenon DEF EventStates
  <2> HIDE DEF u, S
  <2>3. QED  BY <1>1, <1>2, <2>1, <2>2
<1>5. CASE t \in EventAt(b)!FailSafe
  <2> DEFINE u == [x EXCEPT !.status = "FAILSAFE"]
  <2>1. t[2] = S(u) /\ x.status = "UP"
    <3>1. PICK l : t = <<l, S(u)>> /\ EventAt(b)!can_failsig
      BY <1>5, Zenon DEF EventAt!FailSafe, EventAt!When
    <3>2. x.status = "UP"
      BY <3>1 DEF EventAt!can_failsig
    <3> HIDE DEF S, u
    <3>3. QED  BY <3>1, <3>2
  <2>2. /\ u \in EventStates /\ u.status = "FAILSAFE" /\ u.repair_status = x.repair_status
        /\ u.phase = x.phase
    BY <1>1, Zenon DEF EventStates, Statuses
  <2> HIDE DEF u, S
  <2>3. QED  BY <1>1, <1>2, <2>1, <2>2
<1>6. CASE t \in EventAt(b)!Repaired
  <2> DEFINE o == x.emit_online \/ x.status = "DOWN"
             s == IF x.emit_inspect THEN "IMPOSSIBLE"
                  ELSE IF x.status = "FAILSAFE" THEN x.status ELSE "UP"
             u == [x EXCEPT !.phase = 1, !.repair_status = "DONE", !.emit_online = o,
                            !.status = s]
             v == [u EXCEPT !.status = s, !.repair_status = "NONE"]
  <2>1. t[2] = S(u)
    <3>1. t = <<RATE_REPAIR, S(u)>>
      BY <1>6, Zenon DEF EventAt!Repaired, EventAt!When, RATE_REPAIR, EventAt!RATE_REPAIR
    <3> HIDE DEF S, u
    <3>2. QED  BY <3>1
  <2>2. s \in {"UP", "FAILSAFE"} /\ o \in BOOLEAN /\ 1 \in Int
    BY <1>1
  <2>3. s \in Statuses
    BY <2>2 DEF Statuses
  <2> HIDE DEF s, o
  <2>4. u \in EventStates
    <3>1. "DONE" \in {"NONE", "NEEDED", "WAITING", "BUSY", "DONE"}
      OBVIOUS
    <3>2. QED  BY <1>1, <2>2, <2>3, <3>1, Zenon DEF EventStates
  <2>5. u.status = s /\ u.repair_status = "DONE" /\ u.phase = 1
    BY <1>1, Zenon DEF EventStates
  <2>6. S(u) = v
    <3> DEFINE early == u.phase = 1 /\ u.repair_status \in {"NEEDED", "BUSY"}
               over == early \/ u.repair_status = "DONE"
               p == IF early /\ (u.emit_inspect \/ ~(b \in Repairable)) THEN "IMPOSSIBLE" ELSE u.status
               r == IF over THEN "NONE" ELSE u.repair_status
    <3>1. S(u) = [u EXCEPT !.status = p, !.repair_status = r]
      BY Zenon DEF EventAt!Settle, EventAt!Told
    <3>2. ~early /\ over
      BY <2>5
    <3>3. p = s /\ r = "NONE"
      BY <2>5, <3>2
    <3> HIDE DEF p, r
    <3>4. QED  BY <3>1, <3>3, Zenon
  <2>7. v.status = s /\ v.repair_status = "NONE" /\ v.phase = 1
    <3> HIDE DEF u
    <3>1. QED  BY <2>4, <2>5, Zenon DEF EventStates
  <2> HIDE DEF u, v, S
  <2>8. Works(b, v) /\ Fit(b, v)
    BY <1>1, <2>2, <2>7 DEF Works, Fit
  <2>9. QED  BY <2>1, <2>6, <2>8
<1>7. \/ t \in EventAt(b)!Degrade \/ t \in EventAt(b)!Restore
      \/ t \in EventAt(b)!FailSafe \/ t \in EventAt(b)!Repaired
  BY RatesOfEvent
<1>8. QED  BY <1>3, <1>4, <1>5, <1>6, <1>7

\* State x of a gate that is back on its primary and has yet to release the child
\* that it used instead.
Returning(x) == x.prev_using \notin {0, x.cur_using}

\* State x of spare gate g releases what it used only on the way back to its
\* primary or because it gives up the child it uses, as it does if that failed.
Steady(g, x) ==
  /\ Returning(x) => g \in AlwaysActive /\ x.cur_using = 1
  /\ x.cur_using # 0 /\ x.cur_using \notin x.unfailed => x.prev_using = x.cur_using

\* A step of a steady gate to state y loses hold only of what it releases, unless
\* its primary fails again on the way back to it.
Keeps(g, l, y) ==
  Steady(g, node[g]) /\ ~(l = FAIL(1) /\ Returning(node[g])) =>
    /\ Steady(g, y)
    /\ Held(g, node[g]) \cup {i \in Kids(g) : l = ACTIVATE(i, TRUE)}
         \subseteq Held(g, y) \cup {i \in Kids(g) : l = DEACTIVATE(i, TRUE)}
    /\ Returning(y) => Returning(node[g]) \/ (g \in AlwaysActive /\ l = ONLINE(1))

\* What a step of a spare gate with label l to state y does to what it holds and
\* to what it takes for unclaimed: it takes hold only of what it claims, which it
\* took for unclaimed; what it releases it held, and holds no longer; it
\* follows the claims of others; and it keeps the rest.
SpareClaims(g, l, y) ==
  /\ Held(g, y) \subseteq Held(g, node[g]) \cup {i \in Kids(g) : l = ACTIVATE(i, TRUE)}
  /\ \A i \in Kids(g) :
       /\ l = ACTIVATE(i, TRUE) => i \in node[g].unclaimed
       /\ l = DEACTIVATE(i, TRUE) => i \in Held(g, node[g]) /\ i \notin Held(g, y)
       /\ l = ACTIVATE(i, FALSE) => i \notin y.unclaimed
       /\ i \in y.unclaimed => i \in node[g].unclaimed \/ l = DEACTIVATE(i, FALSE)
       /\ i \in node[g].unclaimed => i \in y.unclaimed \/ l = ACTIVATE(i, FALSE)
       /\ l = DEACTIVATE(i, FALSE) => i \in y.unclaimed
  /\ Keeps(g, l, y)

\* What a handler must ensure of its target, for add_transition to leave a state
\* that fits.
Ready(g, v) ==
  /\ v \in SpareStates(g) /\ v.mode = "live"
  /\ v.repairing_deactivate # 0 => v.repairing_deactivate \notin {v.cur_using, v.prev_using}
  /\ g \in AlwaysActive =>
       /\ v.repairing_deactivate # 1
       /\ v.cur_using = 1 => 1 \in Free(v) \/ v.prev_using = 1
       /\ v.prev_using = 1 => 1 \notin Free(v)

\* add_transition takes hold of nothing but an always-active gate's primary.
LEMMA SettlesFit ==
  ASSUME NEW g \in Spares, NEW v, Ready(g, v)
  PROVE  LET w == SpareAt(g)!Settle(v)
         IN  /\ w.mode = "live" /\ w.unclaimed = v.unclaimed
             /\ Fit(g, w) /\ Held(g, w) \subseteq Held(g, v)
<1> DEFINE w == SpareAt(g)!Settle(v)
           Goal(y) == /\ y.mode = "live" /\ y.unclaimed = v.unclaimed
                      /\ Fit(g, y) /\ Held(g, y) \subseteq Held(g, v)
<1>1. /\ v \in SpareStates(g) /\ v.mode = "live" /\ tree[g].type = "wsp" /\ 0 \notin Kids(g)
      /\ v.repairing_deactivate # 0 =>
           v.repairing_deactivate \notin {v.cur_using, v.prev_using}
  BY SpareIs DEF Ready, Kids
<1>2. CASE g \notin AlwaysActive
  <2>1. w = v
    BY <1>2 DEF SpareAt!Settle
  <2>2. Goal(v)
    BY <1>1, <1>2 DEF Fit
  <2> HIDE DEF w, Goal
  <2>3. Goal(w)
    BY <2>1, <2>2
  <2>4. QED  BY <2>3 DEF Goal, w
<1>3. CASE g \in AlwaysActive
  <2> DEFINE r == SpareAt(g)!ReturnToPrimary(v)
             k == SpareAt(g)!KeepPrimary(r)
  <2>1. w = k
    BY <1>3 DEF SpareAt!Settle
  <2>2. /\ v.repairing_deactivate # 1
        /\ v.cur_using = 1 => 1 \in Free(v) \/ v.prev_using = 1
        /\ v.prev_using = 1 => 1 \notin Free(v)
    BY <1>3 DEF Ready
  <2>3. CASE (v.cur_using = 1 \/ 1 \notin Free(v)) /\ v.prev_using # 1
    <3>1. r = v
      BY <2>3 DEF SpareAt!ReturnToPrimary, SpareAt!Available, Free
    <3> HIDE DEF r
    <3>2. k = v
      BY <2>3, <3>1 DEF SpareAt!KeepPrimary
    <3>3. Goal(v)
      BY <1>1, <2>2, <2>3 DEF Fit
    <3> HIDE DEF k, w, Goal
    <3>4. Goal(w)
      BY <2>1, <3>2, <3>3
    <3>5. QED  BY <3>4 DEF Goal, w
  <2>4. CASE (v.cur_using = 1 \/ 1 \notin Free(v)) /\ v.prev_using = 1
    <3> DEFINE u == [v EXCEPT !.prev_using = 0, !.cur_using = 0]
    <3>1. r = v
      BY <2>4 DEF SpareAt!ReturnToPrimary, SpareAt!Available, Free
    <3> HIDE DEF r
    <3>2. k = u
      BY <2>4, <3>1, Zenon DEF SpareAt!KeepPrimary
    <3>3. /\ u.mode = v.mode /\ u.unfailed = v.unfailed /\ u.unclaimed = v.unclaimed
          /\ u.cur_using = 0 /\ u.prev_using = 0
          /\ u.repairing_deactivate = v.repairing_deactivate
      BY <1>1, Zenon DEF SpareStates
    <3> HIDE DEF u
    <3>4. Fit(g, u)
      BY <1>1, <2>2, <3>3 DEF Fit
    <3>5. Held(g, u) \subseteq Held(g, v)
      BY <1>1, <3>3 DEF Held
    <3>6. Goal(u)
      BY <1>1, <3>3, <3>4, <3>5
    <3> HIDE DEF k, w, Goal
    <3>7. Goal(w)
      BY <2>1, <3>2, <3>6
    <3>8. QED  BY <3>7 DEF Goal, w
  <2>5. CASE ~(v.cur_using = 1 \/ 1 \notin Free(v))
    <3> DEFINE d == IF v.repairing_deactivate = 1 THEN 0 ELSE v.repairing_deactivate
               u == [v EXCEPT !.prev_using = v.cur_using, !.cur_using = 1,
                              !.repairing_deactivate = d]
    <3>1. r = u
      BY <2>5, Zenon DEF SpareAt!ReturnToPrimary, SpareAt!Available, Free
    <3>2. d = v.repairing_deactivate
      BY <2>2
    <3> HIDE DEF d
    <3>3. /\ u.mode = v.mode /\ u.unfailed = v.unfailed /\ u.unclaimed = v.unclaimed
          /\ u.cur_using = 1 /\ u.prev_using = v.cur_using
          /\ u.repairing_deactivate = v.repairing_deactivate
      BY <1>1, <3>2, Zenon DEF SpareStates
    <3> HIDE DEF u, r
    <3>4. k = u
      BY <2>5, <3>1, <3>3 DEF SpareAt!KeepPrimary
    <3>5. Fit(g, u)
      BY <1>1, <2>2, <2>5, <3>3 DEF Fit, Free
    <3>6. Held(g, u) \subseteq Held(g, v)
      BY <1>1, <1>3, <3>3 DEF Held
    <3>7. Goal(u)
      BY <1>1, <3>3, <3>5, <3>6
    <3> HIDE DEF k, w, Goal
    <3>8. Goal(w)
      BY <2>1, <3>4, <3>7
    <3>9. QED  BY <3>8 DEF Goal, w
  <2>6. QED  BY <2>3, <2>4, <2>5
<1>4. QED  BY <1>2, <1>3

\* Nor does it lose hold of anything, but it may send the gate back to its primary.
LEMMA SettlesSteady ==
  ASSUME NEW g \in Spares, NEW v \in SpareStates(g), Steady(g, v)
  PROVE  LET w == SpareAt(g)!Settle(v)
         IN  /\ Steady(g, w) /\ Held(g, v) \subseteq Held(g, w)
             /\ Returning(w) => \/ Returning(v)
                                \/ g \in AlwaysActive /\ 1 \in Free(v) /\ v.cur_using \notin {0, 1}
<1> DEFINE w == SpareAt(g)!Settle(v)
           Goal(y) == /\ Steady(g, y) /\ Held(g, v) \subseteq Held(g, y)
                      /\ Returning(y) => \/ Returning(v)
                                         \/ g \in AlwaysActive /\ 1 \in Free(v) /\ v.cur_using \notin {0, 1}
<1>1. Goal(v)
  OBVIOUS
<1>2. CASE g \notin AlwaysActive
  <2>1. w = v
    BY <1>2 DEF SpareAt!Settle
  <2> HIDE DEF w, Goal
  <2>2. Goal(w)
    BY <1>1, <2>1
  <2>3. QED  BY <2>2 DEF Goal, w
<1>3. CASE g \in AlwaysActive
  <2> DEFINE r == SpareAt(g)!ReturnToPrimary(v)
             k == SpareAt(g)!KeepPrimary(r)
  <2>1. w = k
    BY <1>3 DEF SpareAt!Settle
  <2>2. ASSUME NEW y \in SpareStates(g), Steady(g, y), Held(g, v) \subseteq Held(g, y), r = y,
               Returning(y) => Returning(v) \/ (1 \in Free(v) /\ v.cur_using \notin {0, 1})
        PROVE  Goal(w)
    <3> DEFINE u == [y EXCEPT !.prev_using = 0, !.cur_using = 0]
    <3>1. k = IF y.prev_using = 1 THEN u ELSE y
      BY <2>2, Zenon DEF SpareAt!KeepPrimary
    <3>2. /\ u.cur_using = 0 /\ u.prev_using = 0
          /\ u.repairing_deactivate = y.repairing_deactivate
      BY <2>2, Zenon DEF SpareStates
    <3> HIDE DEF u
    <3>3. CASE y.prev_using = 1
      <4>1. y.cur_using = 1
        BY <2>2, <3>3 DEF Steady, Returning
      <4>2. Steady(g, u) /\ ~Returning(u)
        BY <3>2 DEF Steady, Returning
      <4>3. Held(g, y) \subseteq Held(g, u)
        BY <1>3, <3>2, <3>3, <4>1 DEF Held
      <4>4. Goal(u)
        BY <2>2, <4>2, <4>3
      <4> HIDE DEF k, w, Goal
      <4>5. QED  BY <2>1, <3>1, <3>3, <4>4
    <3>4. CASE y.prev_using # 1
      <4>1. Goal(y)
        BY <1>3, <2>2
      <4> HIDE DEF k, w, Goal
      <4>2. QED  BY <2>1, <3>1, <3>4, <4>1
    <3>5. QED  BY <3>3, <3>4
  <2>3. CASE v.cur_using = 1 \/ 1 \notin Free(v)
    <3>1. r = v
      BY <2>3 DEF SpareAt!ReturnToPrimary, SpareAt!Available, Free
    <3> HIDE DEF r, w, k
    <3>2. Goal(w)
      BY <2>2, <3>1
    <3> HIDE DEF Goal
    <3>3. QED  BY <3>2 DEF Goal, w
  <2>4. CASE ~(v.cur_using = 1 \/ 1 \notin Free(v))
    <3> DEFINE d == IF v.repairing_deactivate = 1 THEN 0 ELSE v.repairing_deactivate
               u == [v EXCEPT !.prev_using = v.cur_using, !.cur_using = 1,
                              !.repairing_deactivate = d]
    <3>1. r = u
      BY <2>4, Zenon DEF SpareAt!ReturnToPrimary, SpareAt!Available, Free
    <3>2. d \in Places(g) /\ v.cur_using \in Places(g) /\ 1 \in Places(g)
      <4>1. 0 \in Places(g) /\ 1 \in Places(g)
        BY SpareIsNode DEF Places, Kids
      <4>2. v.cur_using \in Places(g) /\ v.repairing_deactivate \in Places(g)
        BY Zenon DEF SpareStates
      <4>3. QED  BY <4>1, <4>2
    <3>3. d \in {0, 1} \/ d = v.repairing_deactivate
      OBVIOUS
    <3>4. v.repairing_deactivate \in {1, d}
      OBVIOUS
    <3> HIDE DEF d
    <3>5. u \in SpareStates(g)
      BY <3>2, Zenon DEF SpareStates
    <3>6. /\ u.unfailed = v.unfailed /\ u.cur_using = 1 /\ u.prev_using = v.cur_using
          /\ u.repairing_deactivate = d
      BY <3>2, Zenon DEF SpareStates
    <3> HIDE DEF u, r, w, k
    <3>7. Steady(g, u)
      BY <1>3, <2>4, <3>6 DEF Steady, Returning, Free
    <3>8. v.prev_using \in {0, v.cur_using}
      BY <2>4 DEF Steady, Returning
    <3>9. Held(g, v) \subseteq Held(g, u)
      BY <1>3, <3>4, <3>6, <3>8 DEF Held, Kids
    <3>10. Returning(u) => 1 \in Free(v) /\ v.cur_using \notin {0, 1}
      BY <2>4, <3>6 DEF Returning
    <3>11. Goal(w)
      BY <2>2, <3>1, <3>5, <3>7, <3>9, <3>10
    <3> HIDE DEF Goal
    <3>12. QED  BY <3>11 DEF Goal, w
  <2>5. QED  BY <2>3, <2>4
<1>4. QED  BY <1>2, <1>3

\* A spare gate that fits is a state in which a handler may leave it.
FitSpare(g) == g \in Spares /\ Good(g) /\ Fit(g, node[g])

\* What that says of its fields.
LEMMA FitIsReady ==
  ASSUME NEW g, FitSpare(g)
  PROVE  /\ Ready(g, node[g]) /\ node[g] \in SpareStates(g) /\ node[g].mode = "live"
         /\ node[g].repairing_deactivate # 0 =>
              node[g].repairing_deactivate \notin {node[g].cur_using, node[g].prev_using}
         /\ g \in AlwaysActive =>
              /\ node[g].repairing_deactivate # 1 /\ node[g].prev_using # 1
              /\ node[g].cur_using = 1 <=> 1 \in Free(node[g])
         /\ tree[g].type = "wsp" /\ 0 \notin Kids(g) /\ 1 \in Kids(g) /\ SpareOK(g)
<1>1. /\ g \in Spares /\ tree[g].type = "wsp" /\ 0 \notin Kids(g) /\ 1 \in Kids(g)
      /\ StatesOf(g) = SpareStates(g)
  BY SpareIs, SpareIsNode DEF FitSpare, Kids
<1>2. node[g] \in SpareStates(g) /\ node[g].mode = "live" /\ Clean(g, node[g])
  BY <1>1 DEF FitSpare, Good, Typed, Working, Works, Sound
<1>3. QED  BY <1>1, <1>2 DEF FitSpare, Fit, Clean, Ready, SpareOK

\* Nothing but its recovery makes an always-active gate turn back to its primary.
Prompt(g, l, v) ==
  g \in AlwaysActive /\ 1 \in Free(v) /\ v.cur_using \notin {0, 1} => l = ONLINE(1)

\* What a handler with such a target does.
LEMMA SpareLands ==
  ASSUME NEW g, FitSpare(g), NEW l, Orderly(g, l), NEW v, Ready(g, v), SpareClaims(g, l, v),
         Prompt(g, l, v)
  PROVE  LET w == SpareAt(g)!Settle(v)
         IN  Fine(g, l, w) /\ SpareClaims(g, l, w)
<1> DEFINE w == SpareAt(g)!Settle(v)
<1>1. /\ w.mode = "live" /\ w.unclaimed = v.unclaimed
      /\ Fit(g, w) /\ Held(g, w) \subseteq Held(g, v)
  BY SettlesFit DEF FitSpare
<1> HIDE DEF w
<1>2. Fine(g, l, w)
  BY <1>1, FitIsReady DEF Fine, Works
<1>3. Keeps(g, l, w)
  <2>1. SUFFICES ASSUME Steady(g, node[g]), ~(l = FAIL(1) /\ Returning(node[g]))
        PROVE  /\ Steady(g, w)
               /\ Held(g, node[g]) \cup {i \in Kids(g) : l = ACTIVATE(i, TRUE)}
                    \subseteq Held(g, w) \cup {i \in Kids(g) : l = DEACTIVATE(i, TRUE)}
               /\ Returning(w) => Returning(node[g]) \/ (g \in AlwaysActive /\ l = ONLINE(1))
    BY DEF Keeps
  <2>2. /\ Steady(g, v)
        /\ Held(g, node[g]) \cup {i \in Kids(g) : l = ACTIVATE(i, TRUE)}
             \subseteq Held(g, v) \cup {i \in Kids(g) : l = DEACTIVATE(i, TRUE)}
        /\ Returning(v) => Returning(node[g]) \/ (g \in AlwaysActive /\ l = ONLINE(1))
    BY <2>1 DEF SpareClaims, Keeps
  <2>3. /\ Steady(g, w) /\ Held(g, v) \subseteq Held(g, w)
        /\ Returning(w) => \/ Returning(v)
                           \/ g \in AlwaysActive /\ 1 \in Free(v) /\ v.cur_using \notin {0, 1}
    BY <2>2, SettlesSteady DEF FitSpare, Ready, w
  <2>4. QED  BY <2>2, <2>3 DEF Prompt
<1>4. SpareClaims(g, l, w)
  BY <1>1, <1>3 DEF SpareClaims
<1>5. QED  BY <1>2, <1>4 DEF w

\* Handlers that neither take nor give: the gate holds no more than before.
LEMMA QuietClaims ==
  ASSUME NEW g, FitSpare(g), NEW l,
         l[1] \notin {"ACTIVATE", "DEACTIVATE"} \/ l \in {ACTIVATE(0, FALSE), DEACTIVATE(0, FALSE)},
         NEW v, Held(g, v) \subseteq Held(g, node[g]), v.unclaimed = node[g].unclaimed,
         Steady(g, node[g]) /\ ~(l = FAIL(1) /\ Returning(node[g])) =>
           /\ Steady(g, v) /\ Held(g, node[g]) \subseteq Held(g, v)
           /\ Returning(v) => Returning(node[g])
  PROVE  SpareClaims(g, l, v)
<1>1. \A i \in Kids(g) : /\ l # ACTIVATE(i, TRUE) /\ l # DEACTIVATE(i, TRUE)
                         /\ l # ACTIVATE(i, FALSE) /\ l # DEACTIVATE(i, FALSE)
  <2>1. CASE l[1] \notin {"ACTIVATE", "DEACTIVATE"}
    BY <2>1, CommandsDiffer
  <2>2. CASE l \in {ACTIVATE(0, FALSE), DEACTIVATE(0, FALSE)}
    <3>1. 0 \notin Kids(g)
      BY FitIsReady
    <3>2. \A i : /\ ACTIVATE(0, FALSE) # DEACTIVATE(i, TRUE)
                 /\ ACTIVATE(0, FALSE) # DEACTIVATE(i, FALSE)
                 /\ DEACTIVATE(0, FALSE) # ACTIVATE(i, TRUE)
                 /\ DEACTIVATE(0, FALSE) # ACTIVATE(i, FALSE)
      BY DEF ACTIVATE, DEACTIVATE
    <3>3. QED  BY <2>2, <3>1, <3>2, CommandsDiffer
  <2>3. QED  BY <2>1, <2>2
<1>2. Keeps(g, l, v)
  BY <1>1 DEF Keeps
<1>3. QED  BY <1>1, <1>2 DEF SpareClaims

\* The handlers of a spare gate that are about its children's failures.
LEMMA SpareHearsFit ==
  ASSUME NEW g, FitSpare(g), NEW t \in SpareAt(g)!ChildFails \cup SpareAt(g)!ChildOnline,
         Welcome(g, t[1])
  PROVE  Fine(g, t[1], t[2]) /\ SpareClaims(g, t[1], t[2])
<1> DEFINE x == node[g]
           S(v) == SpareAt(g)!Settle(v)
<1>1. /\ x \in SpareStates(g) /\ x.mode = "live" /\ tree[g].type = "wsp"
      /\ x.repairing_deactivate # 0 => x.repairing_deactivate \notin {x.cur_using, x.prev_using}
      /\ g \in AlwaysActive => /\ x.repairing_deactivate # 1 /\ x.prev_using # 1
                               /\ x.cur_using = 1 <=> 1 \in Free(x)
  BY FitIsReady
<1>2. CASE t \in SpareAt(g)!ChildFails
  <2>1. PICK i \in Kids(g) : t = <<FAIL(i), S(SpareAt(g)!AfterFail(i))>>
    BY <1>2, Zenon DEF SpareAt!ChildFails, SpareAt!Step, SpareAt!Children, Kids,
                       FAIL, SpareAt!FAIL
  <2> DEFINE p == IF i = x.cur_using THEN i ELSE x.prev_using
             v == [x EXCEPT !.unfailed = x.unfailed \ {i}, !.prev_using = p]
  <2>2. SpareAt(g)!AfterFail(i) = v
    BY Zenon DEF SpareAt!AfterFail
  <2>3. /\ p \in Places(g) /\ x.unfailed \ {i} \in SUBSET Kids(g)
        /\ p = x.prev_using \/ (p = i /\ i = x.cur_using)
        /\ i = x.cur_using => p = i
    BY <1>1 DEF SpareStates, Kids, Places
  <2> HIDE DEF p
  <2>4. v \in SpareStates(g)
    BY <1>1, <2>3, Zenon DEF SpareStates
  <2>5. /\ v.mode = x.mode /\ v.unfailed = x.unfailed \ {i} /\ v.unclaimed = x.unclaimed
        /\ v.cur_using = x.cur_using /\ v.prev_using = p
        /\ v.repairing_deactivate = x.repairing_deactivate
    BY <1>1, Zenon DEF SpareStates
  <2> HIDE DEF v
  <2>6. Ready(g, v)
    BY <1>1, <2>3, <2>4, <2>5 DEF Ready, Free
  <2>7. Held(g, v) \subseteq Held(g, x)
    BY <2>3, <2>5 DEF Held
  <2>8. Steady(g, x) /\ ~(FAIL(i) = FAIL(1) /\ Returning(x)) =>
          /\ Steady(g, v) /\ Held(g, x) \subseteq Held(g, v)
          /\ Returning(v) => Returning(x)
    <3>1. SUFFICES ASSUME Steady(g, x), i = 1 => ~Returning(x)
          PROVE  /\ Steady(g, v) /\ Held(g, x) \subseteq Held(g, v)
                 /\ Returning(v) => Returning(x)
      OBVIOUS
    <3>2. CASE i = x.cur_using
      <4>1. x.prev_using \in {0, i}
        BY <3>1, <3>2 DEF Steady, Returning
      <4>2. p = i
        BY <2>3, <3>2
      <4>3. 0 \notin Kids(g)
        BY FitIsReady
      <4>4. QED  BY <2>5, <3>2, <4>1, <4>2, <4>3 DEF Steady, Returning, Held
    <3>3. CASE i # x.cur_using
      <4>1. p = x.prev_using
        BY <2>3, <3>3
      <4>2. QED  BY <2>5, <3>1, <3>3, <4>1 DEF Steady, Returning, Held
    <3>4. QED  BY <3>2, <3>3
  <2>9. SpareClaims(g, FAIL(i), v) /\ Orderly(g, FAIL(i))
    BY <2>5, <2>7, <2>8, QuietClaims, Harmless, Heads
  <2>10. Prompt(g, FAIL(i), v)
    BY <1>1, <2>5 DEF Prompt, Free
  <2> HIDE DEF S
  <2>11. t = <<FAIL(i), S(v)>>
    BY <2>1, <2>2, Zenon
  <2>12. Fine(g, FAIL(i), S(v)) /\ SpareClaims(g, FAIL(i), S(v))
    BY <2>6, <2>9, <2>10, SpareLands DEF S
  <2>13. QED  BY <2>11, <2>12
<1>3. CASE t \in SpareAt(g)!ChildOnline
  <2> DEFINE v(i) == [x EXCEPT !.unfailed = x.unfailed \cup {i}]
             w(i) == IF ChildrenOf(g) \cap Repairable # {} THEN v(i) ELSE SpareAt(g)!Impossible
  <2>1. PICK i \in Kids(g) : t = <<ONLINE(i), S(w(i))>>
    BY <1>3, Zenon DEF SpareAt!ChildOnline, SpareAt!Step, SpareAt!Children, Kids,
                       ONLINE, SpareAt!ONLINE
  <2>2. ChildrenOf(g) \cap Repairable # {}
    <3> HIDE DEF S, w
    <3>1. t[1] = ONLINE(i)
      BY <2>1
    <3>2. QED  BY <1>1, <3>1, Zenon DEF Welcome
  <2>3. t = <<ONLINE(i), S(v(i))>>
    BY <2>1, <2>2, Zenon
  <2>4. x.unfailed \cup {i} \in SUBSET Kids(g)
    BY <1>1 DEF SpareStates
  <2>5. v(i) \in SpareStates(g)
    BY <1>1, <2>4, Zenon DEF SpareStates
  <2>6. /\ v(i).mode = x.mode /\ v(i).unfailed = x.unfailed \cup {i}
        /\ v(i).unclaimed = x.unclaimed
        /\ v(i).cur_using = x.cur_using /\ v(i).prev_using = x.prev_using
        /\ v(i).repairing_deactivate = x.repairing_deactivate
    BY <1>1, Zenon DEF SpareStates
  <2> HIDE DEF v, w
  <2>7. Ready(g, v(i))
    BY <1>1, <2>5, <2>6 DEF Ready, Free
  <2>8. Held(g, v(i)) \subseteq Held(g, x)
    BY <2>6 DEF Held
  <2>9. Steady(g, x) =>
          /\ Steady(g, v(i)) /\ Held(g, x) \subseteq Held(g, v(i))
          /\ Returning(v(i)) => Returning(x)
    BY <2>6 DEF Steady, Returning, Held
  <2>10. SpareClaims(g, ONLINE(i), v(i)) /\ Orderly(g, ONLINE(i))
    BY <2>6, <2>8, <2>9, QuietClaims, Harmless, Heads
  <2>11. Prompt(g, ONLINE(i), v(i))
    BY <1>1, <2>6 DEF Prompt, Free
  <2>12. Fine(g, ONLINE(i), S(v(i))) /\ SpareClaims(g, ONLINE(i), S(v(i)))
    BY <2>7, <2>10, <2>11, SpareLands
  <2> HIDE DEF S
  <2>13. QED  BY <2>3, <2>12
<1>4. QED  BY <1>2, <1>3

\* Those that are about its own activation and status.
LEMMA SpareStatusFits ==
  ASSUME NEW g, FitSpare(g),
         NEW t \in SpareAt(g)!Activated \cup SpareAt(g)!AnnounceFail
                     \cup SpareAt(g)!AnnounceOnline \cup SpareAt(g)!ReportRepaired
                     \cup SpareAt(g)!ForgetRelease
  PROVE  Fine(g, t[1], t[2]) /\ SpareClaims(g, t[1], t[2])
<1> DEFINE x == node[g]
           S(v) == SpareAt(g)!Settle(v)
           a == [x EXCEPT !.activated = TRUE]
           d(b) == [x EXCEPT !.done = b]
           Same(v) == /\ v \in SpareStates(g) /\ v.mode = x.mode
                      /\ v.unfailed = x.unfailed /\ v.unclaimed = x.unclaimed
                      /\ v.cur_using = x.cur_using /\ v.prev_using = x.prev_using
                      /\ v.repairing_deactivate = x.repairing_deactivate
<1>1. /\ Ready(g, x) /\ x \in SpareStates(g) /\ tree[g].type = "wsp"
      /\ g \in AlwaysActive => (x.cur_using = 1 <=> 1 \in Free(x))
  BY FitIsReady
<1>2. ASSUME NEW l, l[1] \notin {"ACTIVATE", "DEACTIVATE"} \/ l = ACTIVATE(0, FALSE),
             Orderly(g, l), NEW v, Same(v), t = <<l, S(v)>>
      PROVE  Fine(g, t[1], t[2]) /\ SpareClaims(g, t[1], t[2])
  <2>1. Ready(g, v)
    BY <1>1, <1>2 DEF Ready, Free
  <2>2. Held(g, v) \subseteq Held(g, x)
    BY <1>2 DEF Held
  <2>3. Steady(g, x) =>
          /\ Steady(g, v) /\ Held(g, x) \subseteq Held(g, v)
          /\ Returning(v) => Returning(x)
    BY <1>2 DEF Steady, Returning, Held
  <2>4. SpareClaims(g, l, v)
    BY <1>2, <2>2, <2>3, QuietClaims
  <2>5. Prompt(g, l, v)
    BY <1>1, <1>2 DEF Prompt, Free
  <2>6. Fine(g, l, S(v)) /\ SpareClaims(g, l, S(v))
    BY <1>2, <2>1, <2>4, <2>5, SpareLands
  <2> HIDE DEF S
  <2>7. QED  BY <1>2, <2>6
<1>3. Same(x) /\ Same(a) /\ Same(d(TRUE)) /\ Same(d(FALSE))
  <2>1. Same(x)
    BY <1>1
  <2>2. Same(a)
    <3>1. a \in SpareStates(g)
      BY <1>1, Zenon DEF SpareStates
    <3>2. QED  BY <1>1, <3>1, Zenon DEF SpareStates
  <2>3. ASSUME NEW b \in BOOLEAN  PROVE  Same(d(b))
    <3>1. d(b) \in SpareStates(g)
      BY <1>1, Zenon DEF SpareStates
    <3>2. QED  BY <1>1, <3>1, Zenon DEF SpareStates
  <2> HIDE DEF Same, d, a
  <2>4. QED  BY <2>1, <2>2, <2>3
<1>4. CASE t \in SpareAt(g)!Activated
  <2>1. t = <<ACTIVATE(0, FALSE), S(a)>>
    BY <1>4, Zenon DEF SpareAt!Activated, SpareAt!Step, ACTIVATE, SpareAt!ACTIVATE
  <2>2. Orderly(g, ACTIVATE(0, FALSE))
    BY Harmless, Heads
  <2> HIDE DEF S, a, Same
  <2>3. QED  BY <1>2, <1>3, <2>1, <2>2
<1>5. CASE t \in SpareAt(g)!AnnounceFail
  <2>1. t = <<FAIL(0), S(d(TRUE))>>
    BY <1>5, Zenon DEF SpareAt!AnnounceFail, SpareAt!When, SpareAt!Offer, FAIL, SpareAt!FAIL
  <2>2. Orderly(g, FAIL(0)) /\ FAIL(0)[1] = "FAIL"
    BY Harmless, Heads
  <2> HIDE DEF S, d, Same
  <2>3. QED  BY <1>2, <1>3, <2>1, <2>2
<1>6. CASE t \in SpareAt(g)!AnnounceOnline
  <2>1. t = <<ONLINE(0), S(d(FALSE))>> /\ x.done
    BY <1>6, Zenon DEF SpareAt!AnnounceOnline, SpareAt!When, SpareAt!Offer, ONLINE, SpareAt!ONLINE
  <2>2. Orderly(g, ONLINE(0)) /\ ONLINE(0)[1] = "ONLINE"
    <3>1. Says(g, x)
      BY <1>1, <2>1 DEF Says
    <3>2. \A i : ONLINE(0) # DEACTIVATE(i, TRUE)
      BY DEF ONLINE, DEACTIVATE
    <3>3. QED  BY <3>1, <3>2, Heads DEF Orderly
  <2> HIDE DEF S, d, Same
  <2>3. QED  BY <1>2, <1>3, <2>1, <2>2
<1>7. CASE t \in SpareAt(g)!ReportRepaired
  <2>1. t = <<REPAIRED(0), S(x)>>
    BY <1>7, Zenon DEF SpareAt!ReportRepaired, SpareAt!Step, REPAIRED, SpareAt!REPAIRED
  <2>2. Orderly(g, REPAIRED(0)) /\ REPAIRED(0)[1] = "REPAIRED"
    BY Harmless, Heads
  <2> HIDE DEF S, Same
  <2>3. QED  BY <1>2, <1>3, <2>1, <2>2
<1>8. CASE t \in SpareAt(g)!ForgetRelease
  <2>1. t = <<TAU, S(x)>>
    BY <1>8, Zenon DEF SpareAt!ForgetRelease, SpareAt!When, SpareAt!Offer, TAU, SpareAt!TAU
  <2>2. Orderly(g, TAU) /\ TAU[1] = ""
    BY Harmless, Heads
  <2> HIDE DEF S, Same
  <2>3. QED  BY <1>2, <1>3, <2>1, <2>2
<1>9. QED  BY <1>4, <1>5, <1>6, <1>7, <1>8

\* The commands of its parents and of other spare gates.
LEMMA SpareObeysFit ==
  ASSUME NEW g, FitSpare(g),
         NEW t \in SpareAt(g)!Deactivated \cup SpareAt(g)!ChildClaimed
                     \cup SpareAt(g)!ChildReleased,
         Welcome(g, t[1])
  PROVE  Fine(g, t[1], t[2]) /\ SpareClaims(g, t[1], t[2])
<1> DEFINE x == node[g]
           S(v) == SpareAt(g)!Settle(v)
<1>1. /\ x \in SpareStates(g) /\ x.mode = "live" /\ tree[g].type = "wsp" /\ 0 \notin Kids(g)
      /\ x.repairing_deactivate # 0 => x.repairing_deactivate \notin {x.cur_using, x.prev_using}
      /\ g \in AlwaysActive => /\ x.repairing_deactivate # 1 /\ x.prev_using # 1
                               /\ x.cur_using = 1 <=> 1 \in Free(x)
  BY FitIsReady
<1>2. CASE t \in SpareAt(g)!Deactivated
  <2> DEFINE v == [x EXCEPT !.activated = FALSE, !.prev_using = x.cur_using]
             w == IF g \in AlwaysActive THEN SpareAt(g)!Impossible ELSE v
  <2>1. t = <<DEACTIVATE(0, FALSE), S(w)>>
    BY <1>2, Zenon DEF SpareAt!Deactivated, SpareAt!Step, DEACTIVATE, SpareAt!DEACTIVATE
  <2>2. g \notin AlwaysActive
    <3> HIDE DEF S, w
    <3>1. t[1] = DEACTIVATE(0, FALSE)
      BY <2>1
    <3>2. QED  BY <3>1, Zenon DEF Welcome
  <2>3. t = <<DEACTIVATE(0, FALSE), S(v)>>
    BY <2>1, <2>2, Zenon
  <2>4. x.cur_using \in Places(g)
    BY <1>1 DEF SpareStates
  <2>5. v \in SpareStates(g)
    BY <1>1, <2>4, Zenon DEF SpareStates
  <2>6. /\ v.mode = x.mode /\ v.unfailed = x.unfailed /\ v.unclaimed = x.unclaimed
        /\ v.cur_using = x.cur_using /\ v.prev_using = x.cur_using
        /\ v.repairing_deactivate = x.repairing_deactivate
    BY <1>1, Zenon DEF SpareStates
  <2> HIDE DEF v, w
  <2>7. Ready(g, v)
    BY <1>1, <2>2, <2>5, <2>6 DEF Ready
  <2>8. Held(g, v) \subseteq Held(g, x)
    BY <2>6 DEF Held
  <2>9. Steady(g, x) =>
          /\ Steady(g, v) /\ Held(g, x) \subseteq Held(g, v)
          /\ Returning(v) => Returning(x)
    BY <2>2, <2>6 DEF Steady, Returning, Held, Kids
  <2>10. SpareClaims(g, DEACTIVATE(0, FALSE), v) /\ Orderly(g, DEACTIVATE(0, FALSE))
    BY <2>6, <2>8, <2>9, QuietClaims, Harmless
  <2>11. Prompt(g, DEACTIVATE(0, FALSE), v)
    BY <2>2 DEF Prompt
  <2>12. Fine(g, DEACTIVATE(0, FALSE), S(v)) /\ SpareClaims(g, DEACTIVATE(0, FALSE), S(v))
    BY <2>7, <2>10, <2>11, SpareLands
  <2> HIDE DEF S
  <2>13. QED  BY <2>3, <2>12
<1>3. CASE t \in SpareAt(g)!ChildClaimed
  <2> DEFINE v(i) == [x EXCEPT !.unclaimed = x.unclaimed \ {i}]
             w(i) == IF i = 1 /\ g \in AlwaysActive THEN SpareAt(g)!Impossible ELSE v(i)
  <2>1. PICK i \in Kids(g) \ {x.cur_using} : t = <<ACTIVATE(i, FALSE), S(w(i))>>
    BY <1>3, Zenon DEF SpareAt!ChildClaimed, SpareAt!Step, SpareAt!Children, Kids,
                       ACTIVATE, SpareAt!ACTIVATE
  <2>2. ~(i = 1 /\ g \in AlwaysActive)
    <3> HIDE DEF S, w
    <3>1. t[1] = ACTIVATE(i, FALSE)
      BY <2>1
    <3>2. QED  BY <1>1, <3>1, Zenon DEF Welcome
  <2>3. t = <<ACTIVATE(i, FALSE), S(v(i))>>
    BY <2>1, <2>2, Zenon
  <2>4. x.unclaimed \ {i} \in SUBSET Kids(g)
    BY <1>1 DEF SpareStates
  <2>5. v(i) \in SpareStates(g)
    BY <1>1, <2>4, Zenon DEF SpareStates
  <2>6. /\ v(i).mode = x.mode /\ v(i).unfailed = x.unfailed
        /\ v(i).unclaimed = x.unclaimed \ {i}
        /\ v(i).cur_using = x.cur_using /\ v(i).prev_using = x.prev_using
        /\ v(i).repairing_deactivate = x.repairing_deactivate
    BY <1>1, Zenon DEF SpareStates
  <2> HIDE DEF v, w
  <2>7. Ready(g, v(i))
    BY <1>1, <2>2, <2>5, <2>6 DEF Ready, Free
  <2>8. Held(g, v(i)) = Held(g, x)
    BY <2>6 DEF Held
  <2>9. /\ \A j : ACTIVATE(i, FALSE) = ACTIVATE(j, FALSE) => i = j
        /\ \A j : /\ ACTIVATE(i, FALSE) # ACTIVATE(j, TRUE) /\ ACTIVATE(i, FALSE) # DEACTIVATE(j, TRUE)
                  /\ ACTIVATE(i, FALSE) # DEACTIVATE(j, FALSE)
    <3>1. \A j : ACTIVATE(i, FALSE) # DEACTIVATE(j, TRUE) /\ ACTIVATE(i, FALSE) # DEACTIVATE(j, FALSE)
      BY DEF ACTIVATE, DEACTIVATE
    <3>2. QED  BY <3>1, CommandsDiffer
  <2>10. Keeps(g, ACTIVATE(i, FALSE), v(i))
    BY <2>6, <2>8, <2>9 DEF Keeps, Steady, Returning
  <2>11. SpareClaims(g, ACTIVATE(i, FALSE), v(i))
    BY <2>6, <2>8, <2>9, <2>10 DEF SpareClaims
  <2>12. Orderly(g, ACTIVATE(i, FALSE))
    BY Harmless, Heads
  <2>13. Prompt(g, ACTIVATE(i, FALSE), v(i))
    BY <1>1, <2>6 DEF Prompt, Free
  <2>14. Fine(g, ACTIVATE(i, FALSE), S(v(i))) /\ SpareClaims(g, ACTIVATE(i, FALSE), S(v(i)))
    BY <2>7, <2>11, <2>12, <2>13, SpareLands
  <2> HIDE DEF S
  <2>15. QED  BY <2>3, <2>14
<1>4. CASE t \in SpareAt(g)!ChildReleased
  <2> DEFINE v(i) == [x EXCEPT !.unclaimed = x.unclaimed \cup {i}]
             w(i) == IF \/ i = 1 /\ g \in AlwaysActive
                        \/ i \in {x.prev_using, x.repairing_deactivate}
                     THEN SpareAt(g)!Impossible ELSE v(i)
  <2>1. PICK i \in Kids(g) : t = <<DEACTIVATE(i, FALSE), S(w(i))>>
    BY <1>4, Zenon DEF SpareAt!ChildReleased, SpareAt!Step, SpareAt!Children, Kids,
                       DEACTIVATE, SpareAt!DEACTIVATE
  <2>2. i \notin Held(g, x)
    <3> HIDE DEF S, w
    <3>1. t[1] = DEACTIVATE(i, FALSE)
      BY <2>1
    <3>2. QED  BY <1>1, <3>1, Zenon DEF Welcome
  <2>3. ~(i = 1 /\ g \in AlwaysActive) /\ i \notin {x.prev_using, x.repairing_deactivate}
    BY <2>2 DEF Held
  <2>4. t = <<DEACTIVATE(i, FALSE), S(v(i))>>
    BY <2>1, <2>3, Zenon
  <2>5. x.unclaimed \cup {i} \in SUBSET Kids(g)
    BY <1>1 DEF SpareStates
  <2>6. v(i) \in SpareStates(g)
    BY <1>1, <2>5, Zenon DEF SpareStates
  <2>7. /\ v(i).mode = x.mode /\ v(i).unfailed = x.unfailed
        /\ v(i).unclaimed = x.unclaimed \cup {i}
        /\ v(i).cur_using = x.cur_using /\ v(i).prev_using = x.prev_using
        /\ v(i).repairing_deactivate = x.repairing_deactivate
    BY <1>1, Zenon DEF SpareStates
  <2> HIDE DEF v, w
  <2>8. Ready(g, v(i))
    BY <1>1, <2>3, <2>6, <2>7 DEF Ready, Free
  <2>9. Held(g, v(i)) = Held(g, x)
    BY <2>7 DEF Held
  <2>10. \A j : DEACTIVATE(i, FALSE) # ACTIVATE(j, FALSE) /\ DEACTIVATE(i, FALSE) # ACTIVATE(j, TRUE)
    BY DEF ACTIVATE, DEACTIVATE
  <2>11. \A j : /\ DEACTIVATE(i, FALSE) # DEACTIVATE(j, TRUE)
                /\ DEACTIVATE(i, FALSE) = DEACTIVATE(j, FALSE) => i = j
    BY CommandsDiffer
  <2>12. Keeps(g, DEACTIVATE(i, FALSE), v(i))
    BY <2>7, <2>9, <2>10, <2>11 DEF Keeps, Steady, Returning
  <2>13. SpareClaims(g, DEACTIVATE(i, FALSE), v(i))
    BY <2>7, <2>9, <2>10, <2>11, <2>12 DEF SpareClaims
  <2>14. Orderly(g, DEACTIVATE(i, FALSE))
    BY Harmless
  <2>15. Prompt(g, DEACTIVATE(i, FALSE), v(i))
    BY <1>1, <2>3, <2>7 DEF Prompt, Free
  <2>16. Fine(g, DEACTIVATE(i, FALSE), S(v(i))) /\ SpareClaims(g, DEACTIVATE(i, FALSE), S(v(i)))
    BY <2>8, <2>13, <2>14, <2>15, SpareLands
  <2> HIDE DEF S
  <2>17. QED  BY <2>4, <2>16
<1>5. QED  BY <1>2, <1>3, <1>4

\* A release: of a child that it holds, and never of an always-active primary.
LEMMA SpareReleasesFit ==
  ASSUME NEW g, FitSpare(g), NEW t \in SpareAt(g)!ReleaseFailed \cup SpareAt(g)!ReleaseWorse
  PROVE  Fine(g, t[1], t[2]) /\ SpareClaims(g, t[1], t[2])
<1> DEFINE x == node[g]
           S(v) == SpareAt(g)!Settle(v)
<1>1. /\ x \in SpareStates(g) /\ x.mode = "live" /\ tree[g].type = "wsp" /\ 0 \notin Kids(g)
      /\ x.repairing_deactivate # 0 => x.repairing_deactivate \notin {x.cur_using, x.prev_using}
      /\ g \in AlwaysActive => /\ x.repairing_deactivate # 1 /\ x.prev_using # 1
                               /\ x.cur_using = 1 <=> 1 \in Free(x)
      /\ 0 \in Places(g) /\ g \in Spares
  BY FitIsReady, SpareIsNode DEF Kids, Places, FitSpare
<1>2. ASSUME NEW i \in Places(g) \ {0}, g \in AlwaysActive => i # 1,
             i \in {x.prev_using, x.repairing_deactivate},
             NEW v, Ready(g, v), Held(g, v) \subseteq Held(g, x), v.unclaimed = x.unclaimed,
             i \notin {v.cur_using, v.prev_using, v.repairing_deactivate},
             Steady(g, x) => /\ Steady(g, v) /\ Held(g, x) \subseteq Held(g, v) \cup {i}
                             /\ Returning(v) => Returning(x),
             g \in AlwaysActive /\ 1 \in Free(v) => v.cur_using \in {0, 1},
             t = <<DEACTIVATE(i, TRUE), S(v)>>
      PROVE  Fine(g, t[1], t[2]) /\ SpareClaims(g, t[1], t[2])
  <2>1. i \in Kids(g) /\ Kids(g) = DOMAIN Children(g)
    BY <1>1, <1>2, SpareIsNode DEF Kids, Places
  <2>2. i \in Held(g, x) /\ i \notin Held(g, v)
    BY <1>2, <2>1 DEF Held
  <2>3. /\ \A j : DEACTIVATE(i, TRUE) = DEACTIVATE(j, TRUE) => i = j
        /\ \A j : DEACTIVATE(i, TRUE) # DEACTIVATE(j, FALSE)
    BY CommandsDiffer
  <2>4. \A j : /\ DEACTIVATE(i, TRUE) # ACTIVATE(j, FALSE) /\ DEACTIVATE(i, TRUE) # ACTIVATE(j, TRUE)
               /\ DEACTIVATE(i, TRUE) # ONLINE(j)
    BY DEF ACTIVATE, DEACTIVATE, ONLINE
  <2>5. Keeps(g, DEACTIVATE(i, TRUE), v)
    BY <1>2, <2>1, <2>4 DEF Keeps
  <2>6. SpareClaims(g, DEACTIVATE(i, TRUE), v)
    BY <1>2, <2>2, <2>3, <2>4, <2>5 DEF SpareClaims
  <2>7. Children(g)[i] \in MayDeactivate(g)
    BY <1>1, <1>2, <2>1 DEF MayDeactivate
  <2>8. Orderly(g, DEACTIVATE(i, TRUE))
    BY <2>3, <2>4, <2>7, Zenon DEF Orderly
  <2>9. Prompt(g, DEACTIVATE(i, TRUE), v)
    BY <1>2 DEF Prompt
  <2>10. Fine(g, DEACTIVATE(i, TRUE), S(v)) /\ SpareClaims(g, DEACTIVATE(i, TRUE), S(v))
    BY <1>2, <2>6, <2>8, <2>9, SpareLands
  <2> HIDE DEF S
  <2>11. QED  BY <1>2, <2>10
<1>3. CASE t \in SpareAt(g)!ReleaseFailed
  <2> DEFINE v == [x EXCEPT !.prev_using = 0, !.cur_using = 0]
  <2>1. t = <<DEACTIVATE(x.prev_using, TRUE), S(v)>> /\ x.prev_using # 0
    BY <1>3, Zenon DEF SpareAt!ReleaseFailed, SpareAt!When, SpareAt!Offer,
                       DEACTIVATE, SpareAt!DEACTIVATE
  <2>2. v \in SpareStates(g)
    BY <1>1, Zenon DEF SpareStates
  <2>3. /\ v.mode = x.mode /\ v.unclaimed = x.unclaimed /\ v.cur_using = 0 /\ v.prev_using = 0
        /\ v.repairing_deactivate = x.repairing_deactivate
    BY <1>1, Zenon DEF SpareStates
  <2>4. x.prev_using \in Places(g) \ {0}
    BY <1>1, <2>1 DEF SpareStates
  <2> HIDE DEF v, S
  <2>5. Ready(g, v)
    BY <1>1, <2>2, <2>3 DEF Ready
  <2>6. Held(g, v) \subseteq Held(g, x)
    BY <1>1, <2>3 DEF Held
  <2>7. x.prev_using \notin {v.cur_using, v.prev_using, v.repairing_deactivate}
    BY <1>1, <2>1, <2>3
  <2>8. g \in AlwaysActive => x.prev_using # 1
    BY <1>1
  <2>9. Steady(g, x) => /\ Steady(g, v) /\ Held(g, x) \subseteq Held(g, v) \cup {x.prev_using}
                        /\ Returning(v) => Returning(x)
    BY <2>1, <2>3 DEF Steady, Returning, Held
  <2>10. QED  BY <1>2, <2>1, <2>3, <2>4, <2>5, <2>6, <2>7, <2>8, <2>9
<1>4. CASE t \in SpareAt(g)!ReleaseWorse
  <2> DEFINE v == [x EXCEPT !.repairing_deactivate = 0]
  <2>1. /\ t = <<DEACTIVATE(x.repairing_deactivate, TRUE), S(v)>>
        /\ x.repairing_deactivate # 0
    BY <1>4, Zenon DEF SpareAt!ReleaseWorse, SpareAt!When, SpareAt!Offer,
                       DEACTIVATE, SpareAt!DEACTIVATE
  <2>2. v \in SpareStates(g)
    BY <1>1, Zenon DEF SpareStates
  <2>3. /\ v.mode = x.mode /\ v.unfailed = x.unfailed /\ v.unclaimed = x.unclaimed
        /\ v.cur_using = x.cur_using /\ v.prev_using = x.prev_using
        /\ v.repairing_deactivate = 0
    BY <1>1, Zenon DEF SpareStates
  <2>4. x.repairing_deactivate \in Places(g) \ {0}
    BY <1>1, <2>1 DEF SpareStates
  <2> HIDE DEF v, S
  <2>5. Ready(g, v)
    BY <1>1, <2>2, <2>3 DEF Ready, Free
  <2>6. Held(g, v) \subseteq Held(g, x)
    BY <1>1, <2>3 DEF Held
  <2>7. x.repairing_deactivate \notin {v.cur_using, v.prev_using, v.repairing_deactivate}
    BY <1>1, <2>1, <2>3
  <2>8. g \in AlwaysActive => x.repairing_deactivate # 1
    BY <1>1
  <2>9. Steady(g, x) => /\ Steady(g, v) /\ Held(g, x) \subseteq Held(g, v) \cup {x.repairing_deactivate}
                        /\ Returning(v) => Returning(x)
    BY <2>3 DEF Steady, Returning, Held
  <2>10. g \in AlwaysActive /\ 1 \in Free(v) => v.cur_using \in {0, 1}
    BY <1>1, <2>3 DEF Free
  <2>11. QED  BY <1>2, <2>1, <2>3, <2>4, <2>5, <2>6, <2>7, <2>8, <2>9, <2>10
<1>5. QED  BY <1>3, <1>4

\* A claim: of a child that is free.
LEMMA SpareClaimsFit ==
  ASSUME NEW g, FitSpare(g), NEW t \in SpareAt(g)!ClaimFirst \cup SpareAt(g)!ClaimBetter
  PROVE  Fine(g, t[1], t[2]) /\ SpareClaims(g, t[1], t[2])
<1> DEFINE x == node[g]
           S(v) == SpareAt(g)!Settle(v)
           A == SpareAt(g)!avail
           f == SpareAt(g)!First(A)
           v(r) == [x EXCEPT !.repairing_deactivate = r, !.cur_using = f]
<1>1. /\ x \in SpareStates(g) /\ x.mode = "live" /\ tree[g].type = "wsp" /\ 0 \notin Kids(g)
      /\ x.repairing_deactivate # 0 => x.repairing_deactivate \notin {x.cur_using, x.prev_using}
      /\ g \in AlwaysActive => /\ x.repairing_deactivate # 1 /\ x.prev_using # 1
                               /\ x.cur_using = 1 <=> 1 \in Free(x)
      /\ g \in Spares /\ 0 \in Places(g)
  BY FitIsReady, SpareIsNode DEF Kids, Places, FitSpare
<1>2. A = Free(x) /\ A \in SUBSET Kids(g)
  BY <1>1 DEF SpareStates, Free, SpareAt!avail, SpareAt!Available
<1>3. A # {} => f \in Kids(g) /\ f \in Places(g) /\ f \in A /\ \A j \in A : f <= j
  BY <1>1, <1>2, FirstIsLeast DEF Kids, Places
<1> HIDE DEF A, f
<1>4. ASSUME A # {}, NEW r \in Places(g), r \in {0, x.repairing_deactivate, x.cur_using},
             r # 0 => r \notin {f, x.prev_using},
             g \in AlwaysActive => f # 1 /\ r # 1 /\ 1 \notin Free(x),
             x.cur_using \in {0, r} /\ x.repairing_deactivate \in {0, r, f},
             x.cur_using = 0 \/ x.prev_using = 0,
             t = <<ACTIVATE(f, TRUE), S(v(r))>>
      PROVE  Fine(g, t[1], t[2]) /\ SpareClaims(g, t[1], t[2])
  <2>1. v(r) \in SpareStates(g)
    BY <1>1, <1>3, <1>4, Zenon DEF SpareStates
  <2>2. /\ v(r).mode = x.mode /\ v(r).unfailed = x.unfailed /\ v(r).unclaimed = x.unclaimed
        /\ v(r).cur_using = f /\ v(r).prev_using = x.prev_using
        /\ v(r).repairing_deactivate = r
    BY <1>1, Zenon DEF SpareStates
  <2> HIDE DEF v, S
  <2>3. Ready(g, v(r))
    BY <1>1, <1>4, <2>1, <2>2 DEF Ready
  <2>4. Held(g, v(r)) \subseteq Held(g, x) \cup {f}
    BY <1>1, <1>4, <2>2 DEF Held
  <2>5. \A j : ACTIVATE(f, TRUE) = ACTIVATE(j, TRUE) => f = j
    BY CommandsDiffer
  <2>6. \A j : ACTIVATE(f, TRUE) # ACTIVATE(j, FALSE) /\ ACTIVATE(f, TRUE) # DEACTIVATE(j, TRUE)
    <3>1. \A j : ACTIVATE(f, TRUE) # DEACTIVATE(j, TRUE)
      BY DEF ACTIVATE, DEACTIVATE
    <3>2. QED  BY <3>1, CommandsDiffer
  <2>7. f \in x.unclaimed /\ f \in x.unfailed
    BY <1>2, <1>3, <1>4 DEF Free
  <2>8. \A j : ACTIVATE(f, TRUE) # DEACTIVATE(j, FALSE)
    BY DEF ACTIVATE, DEACTIVATE
  <2>9. Keeps(g, ACTIVATE(f, TRUE), v(r))
    <3>1. SUFFICES ASSUME Steady(g, x)
          PROVE  /\ Steady(g, v(r)) /\ ~Returning(v(r))
                 /\ Held(g, x) \subseteq Held(g, v(r)) /\ f \in Held(g, v(r))
      BY <2>5 DEF Keeps
    <3>2. x.prev_using = 0
      BY <1>4, <3>1 DEF Steady, Returning
    <3>3. Steady(g, v(r)) /\ ~Returning(v(r))
      BY <2>2, <2>7, <3>2 DEF Steady, Returning
    <3>4. Held(g, x) \subseteq Held(g, v(r)) /\ f \in Held(g, v(r))
      BY <1>1, <1>3, <1>4, <2>2, <3>2 DEF Held
    <3>5. QED  BY <3>3, <3>4
  <2>10. SpareClaims(g, ACTIVATE(f, TRUE), v(r))
    BY <1>3, <1>4, <2>2, <2>4, <2>5, <2>6, <2>7, <2>8, <2>9 DEF SpareClaims
  <2>11. Orderly(g, ACTIVATE(f, TRUE))
    BY Harmless, Heads
  <2>12. Prompt(g, ACTIVATE(f, TRUE), v(r))
    BY <1>4, <2>2 DEF Prompt, Free
  <2>13. Fine(g, ACTIVATE(f, TRUE), S(v(r))) /\ SpareClaims(g, ACTIVATE(f, TRUE), S(v(r)))
    BY <2>3, <2>10, <2>11, <2>12, SpareLands DEF S
  <2>14. QED  BY <1>4, <2>13
<1>5. CASE t \in SpareAt(g)!ClaimFirst
  <2> DEFINE r == IF x.repairing_deactivate = f THEN 0 ELSE x.repairing_deactivate
             u == [x EXCEPT !.cur_using = f, !.repairing_deactivate = r]
  <2>1. /\ x.cur_using = 0 /\ A # {}
        /\ t = <<ACTIVATE(f, TRUE), S(u)>>
    BY <1>5, Zenon DEF SpareAt!ClaimFirst, SpareAt!When, SpareAt!Offer,
                       ACTIVATE, SpareAt!ACTIVATE, A, f
  <2>2. /\ r \in Places(g) /\ r \in {0, x.repairing_deactivate}
        /\ r # 0 => r \notin {f, x.prev_using}
        /\ g \in AlwaysActive => r # 1
        /\ x.repairing_deactivate \in {0, r, f}
    BY <1>1 DEF SpareStates
  <2>3. g \in AlwaysActive => f # 1 /\ 1 \notin Free(x)
    BY <1>1, <1>2, <1>3, <2>1
  <2> HIDE DEF r
  <2>4. u = v(r)
    BY <1>1, Zenon DEF SpareStates
  <2> HIDE DEF u, v, S
  <2>5. QED  BY <1>4, <2>1, <2>2, <2>3, <2>4
<1>6. CASE t \in SpareAt(g)!ClaimBetter
  <2> DEFINE l == SpareAt(g)!ClaimLabel
             r == x.cur_using
  <2>1. /\ A # {} /\ x.prev_using = 0 /\ x.repairing_deactivate = 0 /\ f # x.cur_using
        /\ t = <<l, S(v(r))>>
    BY <1>6, Zenon DEF SpareAt!ClaimBetter, SpareAt!TakeBetter, SpareAt!When, SpareAt!Offer, A, f
  <2>2. f \in Nat /\ f >= 1 /\ (1 \in A => f <= 1)
    BY <1>3, <2>1 DEF Kids
  <2>3. g \in AlwaysActive => f > 1 /\ x.cur_using # 1
    <3>1. f = 1 => 1 \in A
      BY <1>3, <2>1
    <3>2. 1 \in A => f = 1
      BY <2>2
    <3>3. QED  BY <1>1, <1>2, <2>1, <2>2, <3>1, <3>2
  <2>4. l = ACTIVATE(f, TRUE)
    BY <2>3, Zenon DEF SpareAt!ClaimLabel, ACTIVATE, SpareAt!ACTIVATE, f, A
  <2>5. r \in Places(g)
    BY <1>1 DEF SpareStates
  <2>6. /\ r \in {0, x.repairing_deactivate, x.cur_using}
        /\ r # 0 => r \notin {f, x.prev_using}
        /\ g \in AlwaysActive => f # 1 /\ r # 1 /\ 1 \notin Free(x)
        /\ x.cur_using \in {0, r} /\ x.repairing_deactivate \in {0, r, f}
    BY <1>1, <2>1, <2>2, <2>3
  <2>7. t = <<ACTIVATE(f, TRUE), S(v(r))>>
    BY <2>1, <2>4, Zenon
  <2> HIDE DEF v, S, l, r
  <2>8. QED  BY <1>4, <2>1, <2>5, <2>6, <2>7
<1>7. QED  BY <1>5, <1>6

\* A spare gate.
LEMMA SpareFits ==
  ASSUME NEW g \in Spares, Good(g), Fit(g, node[g]), NEW t \in SpareAt(g)!Trans,
         Welcome(g, t[1])
  PROVE  Fine(g, t[1], t[2]) /\ SpareClaims(g, t[1], t[2])
<1>1. FitSpare(g)
  BY DEF FitSpare
<1>2. node[g].mode = "live"
  BY <1>1, FitIsReady
<1>3. \/ t \in SpareAt(g)!ChildFails \cup SpareAt(g)!ChildOnline
      \/ t \in SpareAt(g)!Activated \cup SpareAt(g)!AnnounceFail
                \cup SpareAt(g)!AnnounceOnline \cup SpareAt(g)!ReportRepaired
                \cup SpareAt(g)!ForgetRelease
      \/ t \in SpareAt(g)!Deactivated \cup SpareAt(g)!ChildClaimed
                \cup SpareAt(g)!ChildReleased
      \/ t \in SpareAt(g)!ReleaseFailed \cup SpareAt(g)!ReleaseWorse
      \/ t \in SpareAt(g)!ClaimFirst \cup SpareAt(g)!ClaimBetter
  BY <1>2 DEF SpareAt!Trans
<1>4. QED
  BY <1>1, <1>3, SpareHearsFit, SpareStatusFits, SpareObeysFit, SpareReleasesFit, SpareClaimsFit

\* A node that fits and takes only welcome signals stays as it should be.
LEMMA StaysFit ==
  ASSUME NEW n \in Nodes, Good(n), Fit(n, node[n]), NEW t \in Trans(n),
         RuleLabel(n, t[1]), Welcome(n, t[1])
  PROVE  /\ Fine(n, t[1], t[2])
         /\ n \in Spares => SpareClaims(n, t[1], t[2])
<1>1. n \in Votings \/ n \in PAnds \/ n \in Spares \/ n \in FDeps \/ n \in BasicEvents
  BY KindsOfNodes DEF Votings, PAnds, FDeps
<1>2. /\ n \in Votings => tree[n].type = "voting" /\ n \notin Spares
      /\ n \in PAnds => tree[n].type = "pand" /\ n \notin Spares
      /\ n \in FDeps => tree[n].type = "fdep" /\ n \notin Spares
      /\ n \in BasicEvents => tree[n].type = "be" /\ n \notin Spares
  BY DEF Votings, PAnds, FDeps, BasicEvents, Spares, OfType
<1>3. CASE n \in Votings
  BY <1>2, <1>3, TransOf, VotingFits
<1>4. CASE n \in PAnds
  BY <1>2, <1>4, TransOf, PAndFits
<1>5. CASE n \in Spares
  BY <1>5, TransOf, SpareFits
<1>6. CASE n \in FDeps
  BY <1>2, <1>6, TransOf, FDepFits
<1>7. CASE n \in BasicEvents
  BY <1>2, <1>7, TransOf, EventFits
<1>8. QED  BY <1>1, <1>3, <1>4, <1>5, <1>6, <1>7

\* What a node says by itself, and a command to be active, it always welcomes.
LEMMA OutputsWelcome ==
  ASSUME NEW n, NEW l,
         \/ l[1] \notin {"ONLINE", "ACTIVATE", "DEACTIVATE"}
         \/ l = ONLINE(0) \/ l = ACTIVATE(0, FALSE)
         \/ \E i : l \in {ACTIVATE(i, TRUE), DEACTIVATE(i, TRUE)}
  PROVE  Welcome(n, l)
<1>1. 0 \notin Kids(n)
  BY DEF Kids
<1>2. /\ \A i \in Kids(n) : l # ONLINE(i) /\ l # ACTIVATE(i, FALSE) /\ l # DEACTIVATE(i, FALSE)
      /\ l # DEACTIVATE(0, FALSE)
  <2>1. CASE l[1] \notin {"ONLINE", "ACTIVATE", "DEACTIVATE"}
    <3>1. \A i : /\ ONLINE(i)[1] = "ONLINE" /\ ACTIVATE(i, FALSE)[1] = "ACTIVATE"
                 /\ DEACTIVATE(i, FALSE)[1] = "DEACTIVATE"
      BY Heads, Zenon
    <3>2. l[1] # "ONLINE" /\ l[1] # "ACTIVATE" /\ l[1] # "DEACTIVATE"
      BY <2>1
    <3>3. QED  BY <3>1, <3>2, Zenon
  <2>2. CASE l = ONLINE(0)
    <3>1. \A i \in Kids(n) : l # ONLINE(i)
      BY <1>1, <2>2, NewsDiffer
    <3>2. \A i : l # ACTIVATE(i, FALSE) /\ l # DEACTIVATE(i, FALSE)
      BY <2>2 DEF ONLINE, ACTIVATE, DEACTIVATE
    <3>3. QED  BY <3>1, <3>2
  <2>3. CASE l = ACTIVATE(0, FALSE)
    <3>1. \A i \in Kids(n) : l # ACTIVATE(i, FALSE)
      BY <1>1, <2>3, CommandsDiffer
    <3>2. \A i : l # ONLINE(i) /\ l # DEACTIVATE(i, FALSE)
      BY <2>3 DEF ONLINE, ACTIVATE, DEACTIVATE
    <3>3. QED  BY <3>1, <3>2
  <2>4. ASSUME NEW i, l = ACTIVATE(i, TRUE)
        PROVE  \A j : l # ONLINE(j) /\ l # ACTIVATE(j, FALSE) /\ l # DEACTIVATE(j, FALSE)
    <3>1. \A j : l # ONLINE(j) /\ l # DEACTIVATE(j, FALSE)
      BY <2>4 DEF ONLINE, ACTIVATE, DEACTIVATE
    <3>2. QED  BY <2>4, <3>1, CommandsDiffer
  <2>5. ASSUME NEW i, l = DEACTIVATE(i, TRUE)
        PROVE  \A j : l # ONLINE(j) /\ l # ACTIVATE(j, FALSE) /\ l # DEACTIVATE(j, FALSE)
    <3>1. \A j : l # ONLINE(j) /\ l # ACTIVATE(j, FALSE)
      BY <2>5 DEF ONLINE, ACTIVATE, DEACTIVATE
    <3>2. QED  BY <2>5, <3>1, CommandsDiffer
  <2>6. QED  BY <2>1, <2>2, <2>3, <2>4, <2>5
<1>3. QED  BY <1>2 DEF Welcome

\* At first every node fits; of the spare gates, only an always-active one holds
\* a child, its primary, and every one takes all its children for unclaimed.
LEMMA FitStarts ==
  ASSUME NEW n \in Nodes, node[n] = InitialState(n)
  PROVE  /\ Fit(n, node[n])
         /\ n \in Spares => Held(n, node[n]) = {i \in {1} : n \in AlwaysActive}
<1> DEFINE x == node[n]
<1>1. n \in Votings \/ n \in PAnds \/ n \in Spares \/ n \in FDeps \/ n \in BasicEvents
  BY KindsOfNodes DEF Votings, PAnds, FDeps
<1>2. /\ n \in Votings => tree[n].type = "voting" /\ n \notin Spares
      /\ n \in PAnds => tree[n].type = "pand" /\ n \notin Spares
      /\ n \in FDeps => tree[n].type = "fdep" /\ n \notin Spares
      /\ n \in BasicEvents => tree[n].type = "be" /\ n \notin Spares
      /\ n \in Spares => tree[n].type = "wsp"
  BY DEF Votings, PAnds, FDeps, BasicEvents, Spares, OfType
<1>3. CASE n \in Votings
  <2>1. x.running = FALSE /\ x.activated = {}
    <3>1. x = VotingAt(n)!Initial
      BY <1>3, TransOf
    <3> HIDE DEF x
    <3>2. QED  BY <3>1 DEF VotingAt!Initial
  <2>2. QED  BY <1>2, <1>3, <2>1 DEF Fit
<1>4. CASE n \in PAnds
  BY <1>2, <1>4 DEF Fit
<1>5. CASE n \in Spares
  <2>1. x = SpareAt(n)!Initial
    BY <1>5, TransOf
  <2>2. /\ x.unfailed = Kids(n) /\ x.unclaimed = Kids(n) /\ x.prev_using = 0
        /\ x.repairing_deactivate = 0
        /\ IF n \in AlwaysActive THEN x.cur_using = 1 ELSE x.cur_using = 0
    BY <2>1 DEF SpareAt!Initial, SpareAt!Children, Kids
  <2>3. 0 \notin Kids(n) /\ 1 \in Kids(n)
    BY <1>5, SpareIsNode DEF Kids
  <2>4. Fit(n, x)
    BY <1>2, <1>5, <2>2, <2>3 DEF Fit, Free
  <2>5. Held(n, x) = {i \in {1} : n \in AlwaysActive}
    BY <2>2, <2>3 DEF Held
  <2>6. QED  BY <2>4, <2>5
<1>6. CASE n \in FDeps
  BY <1>2, <1>6 DEF Fit
<1>7. CASE n \in BasicEvents
  <2>1. x.phase = 1 /\ x.repair_status = "NONE"
    <3>1. x = EventAt(n)!Initial
      BY <1>7, TransOf
    <3> HIDE DEF x
    <3>2. QED  BY <3>1, Zenon DEF EventAt!Initial
  <2>2. QED  BY <1>2, <1>7, <2>1 DEF Fit
<1>8. QED  BY <1>1, <1>3, <1>4, <1>5, <1>6, <1>7

-----------------------------------------------------------------------------
(* What the nodes of a static tree announce. *)

\* A step of a voting gate with label l to state y announces what is due and
\* keeps the announcement in line with the counter.
VotingTurn(g, l, y) ==
  LET x == node[g]
      k == tree[g].threshold
  IN  /\ y.nr_failed < x.nr_failed => \E i : l = ONLINE(i)
      /\ l = FAIL(0) => x.emit_fail /\ ~x.done
      /\ l = ONLINE(0) => x.done /\ x.nr_failed < k
      /\ y.done <=> l = FAIL(0) \/ (l # ONLINE(0) /\ x.done)
      /\ y.emit_fail =>
           /\ l # FAIL(0)
           /\ x.emit_fail \/ (~x.done /\ y.nr_failed >= k /\ \E i : l = FAIL(i))

\* Other labels than FAIL and ONLINE leave all of that alone.
LEMMA QuietTurn ==
  ASSUME NEW g \in Votings, Good(g), NEW l, NoNews(l), NEW y,
         y.nr_failed = node[g].nr_failed, y.emit_fail = node[g].emit_fail,
         y.done = node[g].done
  PROVE  VotingTurn(g, l, y)
<1>1. l # FAIL(0) /\ l # ONLINE(0)
  BY NewsDiffer
<1>2. node[g].nr_failed \in Int
  <2>1. node[g] \in VotingStates(g)
    BY VotingIs DEF Good, Typed
  <2>2. QED  BY <2>1 DEF VotingStates
<1>3. ~(y.nr_failed < node[g].nr_failed)
  BY <1>2
<1>4. QED  BY <1>1, <1>3, Zenon DEF VotingTurn

\* Every step of a voting gate is like that, unless it ends in an error.
LEMMA VotingTurns ==
  ASSUME NEW g \in Votings, Good(g), NEW t \in VotingAt(g)!Trans, Works(g, t[2])
  PROVE  VotingTurn(g, t[1], t[2])
<1> DEFINE x == node[g]  k == tree[g].threshold
<1>1. /\ x \in VotingStates(g) /\ x.mode = "live" /\ k \in Nat \ {0}
      /\ tree[g].type = "voting" /\ x.nr_failed \in Int
      /\ x.emit_fail \in BOOLEAN /\ x.done \in BOOLEAN
  <2>1. x \in VotingStates(g) /\ x.mode = "live" /\ k \in Nat \ {0} /\ tree[g].type = "voting"
    BY VotingIs DEF Good, Typed, Working, Works
  <2>2. QED  BY <2>1 DEF VotingStates
<1>2. \A y : Works(g, y) <=> y.mode = "live"
  BY <1>1 DEF Works
<1>3. CASE t \in VotingAt(g)!ChildFails
  <2>0. PICK i \in Kids(g) : t = <<FAIL(i), VotingAt(g)!AfterFail(i)>>
    BY <1>3, Zenon DEF VotingAt!ChildFails, VotingAt!Children, Kids, FAIL, VotingAt!FAIL
  <2>1. t[1] = FAIL(i) /\ t[2] = VotingAt(g)!AfterFail(i)
    BY <2>0
  <2>2. FAIL(i) # FAIL(0) /\ FAIL(i) # ONLINE(0)
    BY NewsDiffer DEF Kids
  <2>3. CASE i \in x.received
    <3>1. t[2] = x
      BY <2>1, <2>3, Zenon DEF VotingAt!AfterFail
    <3>2. ~(x.nr_failed < x.nr_failed)
      BY <1>1
    <3>3. QED  BY <2>1, <2>2, <3>1, <3>2, Zenon DEF VotingTurn
  <2>4. CASE i \notin x.received
    <3> DEFINE e == x.emit_fail \/ (x.nr_failed + 1 = k /\ ~x.done)
               y == [x EXCEPT !.received = x.received \cup {i},
                              !.nr_failed = x.nr_failed + 1, !.emit_fail = e]
    <3>1. t[2] = y
      BY <2>1, <2>4, Zenon DEF VotingAt!AfterFail
    <3>2. /\ y.nr_failed = x.nr_failed + 1 /\ y.emit_fail = e /\ y.done = x.done
      BY <1>1, Zenon DEF VotingStates
    <3>3. y.emit_fail => x.emit_fail \/ (x.nr_failed + 1 = k /\ ~x.done)
      BY <3>2, Zenon
    <3> HIDE DEF y
    <3>4. ~(y.nr_failed < x.nr_failed) /\ (x.nr_failed + 1 = k => y.nr_failed >= k)
      BY <1>1, <3>2
    <3>5. VotingTurn(g, FAIL(i), y)
      BY <2>2, <3>2, <3>3, <3>4, Zenon DEF VotingTurn
    <3>6. QED  BY <2>1, <3>1, <3>5
  <2>5. QED  BY <2>3, <2>4
<1>4. CASE t \in VotingAt(g)!ChildOnline
  <2>0. PICK i \in Kids(g) : t = <<ONLINE(i), VotingAt(g)!AfterOnline(i)>>
    BY <1>4, Zenon DEF VotingAt!ChildOnline, VotingAt!Children, Kids, ONLINE, VotingAt!ONLINE
  <2>1. t[1] = ONLINE(i) /\ t[2] = VotingAt(g)!AfterOnline(i)
    BY <2>0
  <2>2. ONLINE(i) # FAIL(0) /\ ONLINE(i) # ONLINE(0)
    BY NewsDiffer DEF Kids
  <2>3. CASE i \notin x.received
    <3> DEFINE y == [x EXCEPT !.mode = "impossible"]
    <3>1. t[2] = y
      BY <2>1, <2>3, Zenon DEF VotingAt!AfterOnline, VotingAt!Impossible
    <3>2. y.mode = "impossible"
      BY <1>1 DEF VotingStates
    <3>3. QED  BY <1>2, <3>1, <3>2
  <2>4. CASE i \in x.received
    <3> DEFINE y == [x EXCEPT !.received = x.received \ {i}, !.nr_failed = x.nr_failed - 1]
    <3>1. t[2] = y
      BY <2>1, <2>4, Zenon DEF VotingAt!AfterOnline
    <3>2. y.emit_fail = x.emit_fail /\ y.done = x.done
      BY <1>1, Zenon DEF VotingStates
    <3> HIDE DEF y
    <3>3. VotingTurn(g, ONLINE(i), y)
      BY <2>2, <3>2, Zenon DEF VotingTurn
    <3>4. QED  BY <2>1, <3>1, <3>3
  <2>5. QED  BY <2>3, <2>4
<1>5. CASE t \in VotingAt(g)!AnnounceFail
  <2> DEFINE y == [x EXCEPT !.done = TRUE, !.emit_fail = FALSE]
  <2>1. t = <<FAIL(0), y>> /\ x.emit_fail /\ ~x.done
    BY <1>5, Zenon DEF VotingAt!AnnounceFail, VotingAt!Offer, FAIL, VotingAt!FAIL
  <2>2. y.nr_failed = x.nr_failed /\ ~y.emit_fail /\ y.done
    BY <1>1, Zenon DEF VotingStates
  <2> HIDE DEF y
  <2>3. ~(y.nr_failed < x.nr_failed) /\ FAIL(0) # ONLINE(0)
    BY <1>1, <2>2, NewsDiffer
  <2>4. VotingTurn(g, FAIL(0), y)
    BY <2>1, <2>2, <2>3, Zenon DEF VotingTurn
  <2>5. QED  BY <2>1, <2>4
<1>6. CASE t \in VotingAt(g)!AnnounceOnline
  <2> DEFINE y == [x EXCEPT !.done = FALSE]
  <2>1. t = <<ONLINE(0), y>> /\ x.done /\ x.nr_failed < k
    BY <1>6, Zenon DEF VotingAt!AnnounceOnline, VotingAt!Offer, ONLINE, VotingAt!ONLINE
  <2>2. y.nr_failed = x.nr_failed /\ y.emit_fail = x.emit_fail /\ ~y.done
    BY <1>1, Zenon DEF VotingStates
  <2> HIDE DEF y
  <2>3. FAIL(0) # ONLINE(0)
    BY NewsDiffer
  <2>4. VotingTurn(g, ONLINE(0), y)
    BY <2>1, <2>2, <2>3, Zenon DEF VotingTurn
  <2>5. QED  BY <2>1, <2>4
<1>7. CASE t \in VotingAt(g)!Activated
  <2> DEFINE y == [x EXCEPT !.running = TRUE]
  <2>1. t = <<ACTIVATE(0, FALSE), y>>
    BY <1>7, Zenon DEF VotingAt!Activated, VotingAt!Offer, ACTIVATE, VotingAt!ACTIVATE
  <2>2. y.nr_failed = x.nr_failed /\ y.emit_fail = x.emit_fail /\ y.done = x.done
    BY <1>1 DEF VotingStates
  <2> HIDE DEF y
  <2>3. VotingTurn(g, ACTIVATE(0, FALSE), y)
    BY <2>2, NewsDiffer, QuietTurn
  <2>4. QED  BY <2>1, <2>3
<1>8. CASE t \in VotingAt(g)!Deactivated
  <2> DEFINE r == [x EXCEPT !.running = FALSE]
             z == [x EXCEPT !.mode = "impossible"]
             y == IF g \in AlwaysActive THEN z ELSE r
  <2>1. t = <<DEACTIVATE(0, FALSE), y>>
    BY <1>8, Zenon DEF VotingAt!Deactivated, VotingAt!Impossible, DEACTIVATE, VotingAt!DEACTIVATE
  <2>2. /\ r.nr_failed = x.nr_failed /\ r.emit_fail = x.emit_fail /\ r.done = x.done
        /\ z.mode = "impossible"
    BY <1>1 DEF VotingStates
  <2>3. y \in {r, z}
    BY Zenon
  <2> HIDE DEF r, z, y
  <2>4. y = r
    BY <1>2, <2>1, <2>2, <2>3
  <2>5. VotingTurn(g, DEACTIVATE(0, FALSE), r)
    BY <2>2, NewsDiffer, QuietTurn
  <2>6. QED  BY <2>1, <2>4, <2>5
<1>9. CASE t \in VotingAt(g)!ActivateChild \cup VotingAt(g)!DeactivateChild
  <2> DEFINE A(a) == [x EXCEPT !.activated = a]
  <2>1. \E l, a : t = <<l, A(a)>> /\ NoNews(l)
    <3>1. ASSUME NEW i, t = <<ACTIVATE(i, TRUE), [x EXCEPT !.activated = @ \cup {i}]>>
          PROVE  \E l, a : t = <<l, A(a)>> /\ NoNews(l)
      <4>1. t = <<ACTIVATE(i, TRUE), A(x.activated \cup {i})>>
        BY <3>1
      <4> HIDE DEF A
      <4>2. NoNews(ACTIVATE(i, TRUE))
        BY NewsDiffer
      <4>3. QED  BY <4>1, <4>2, Zenon
    <3>2. ASSUME NEW i, t = <<DEACTIVATE(i, TRUE), [x EXCEPT !.activated = @ \ {i}]>>
          PROVE  \E l, a : t = <<l, A(a)>> /\ NoNews(l)
      <4>1. t = <<DEACTIVATE(i, TRUE), A(x.activated \ {i})>>
        BY <3>2
      <4> HIDE DEF A
      <4>2. NoNews(DEACTIVATE(i, TRUE))
        BY NewsDiffer
      <4>3. QED  BY <4>1, <4>2, Zenon
    <3> HIDE DEF A
    <3>3. CASE t \in VotingAt(g)!ActivateChild
      BY <3>1, <3>3, Zenon DEF VotingAt!ActivateChild, ACTIVATE, VotingAt!ACTIVATE
    <3>4. CASE t \in VotingAt(g)!DeactivateChild
      BY <3>2, <3>4, Zenon DEF VotingAt!DeactivateChild, DEACTIVATE, VotingAt!DEACTIVATE
    <3>5. QED  BY <1>9, <3>3, <3>4
  <2>2. PICK l, a : t = <<l, A(a)>> /\ NoNews(l)
    BY <2>1, Zenon
  <2> DEFINE y == A(a)
  <2>3. y.nr_failed = x.nr_failed /\ y.emit_fail = x.emit_fail /\ y.done = x.done
    BY <1>1 DEF VotingStates
  <2>4. t = <<l, y>>
    BY <2>2
  <2> HIDE DEF y, A
  <2>5. VotingTurn(g, l, y)
    BY <2>2, <2>3, QuietTurn
  <2>6. QED  BY <2>4, <2>5
<1>10. \/ t \in VotingAt(g)!ChildFails \/ t \in VotingAt(g)!AnnounceFail
      \/ t \in VotingAt(g)!ChildOnline \/ t \in VotingAt(g)!AnnounceOnline
      \/ t \in VotingAt(g)!Activated \/ t \in VotingAt(g)!Deactivated
      \/ t \in VotingAt(g)!ActivateChild \cup VotingAt(g)!DeactivateChild
  BY <1>1 DEF VotingAt!Trans
<1>11. QED  BY <1>3, <1>4, <1>5, <1>6, <1>7, <1>8, <1>9, <1>10

\* A step of a dependency gate with label l to state y tells somebody new of
\* whoever failed because of it, or hears of its trigger.
FDepTurn(f, l, y) ==
  /\ y.failed => node[f].failed \/ l = FAIL(1)
  /\ l # FAIL(0) /\ \A j : l # ONLINE(j)
  /\ \A k \in Nat \ {0} : l = FAIL(k + 1) => node[f].failed /\ k \notin node[f].notified

\* Every step of a dependency gate is like that.
LEMMA FDepTurns ==
  ASSUME NEW f \in FDeps, Good(f), NEW t \in FDepAt(f)!Trans
  PROVE  FDepTurn(f, t[1], t[2])
<1> DEFINE x == node[f]
<1>1. x \in FDepStates(f) /\ Len(Dependers(f)) \in Nat
  BY FDepIs DEF Good, Typed
<1>2. ASSUME NEW l, NoNews(l), NEW y, y.failed = x.failed  PROVE  FDepTurn(f, l, y)
  BY <1>2, NewsDiffer DEF FDepTurn
<1>3. CASE t \in FDepAt(f)!TriggerFails
  <2>0. \E y : t = <<FAIL(1), y>>
    BY <1>3, Zenon DEF FDepAt!TriggerFails, FAIL, FDepAt!FAIL
  <2>1. t[1] = FAIL(1)
    BY <2>0
  <2>2. /\ FAIL(1) # FAIL(0) /\ \A j : FAIL(1) # ONLINE(j)
        /\ \A k \in Nat \ {0} : FAIL(1) # FAIL(k + 1)
    BY NewsDiffer
  <2>3. QED  BY <2>1, <2>2, Zenon DEF FDepTurn
<1>4. CASE t \in FDepAt(f)!Activated \cup FDepAt(f)!ActivateTrigger
  <2> DEFINE y(v) == [x EXCEPT !.act = v]
  <2>1. \A v : y(v).failed = x.failed
    BY <1>1 DEF FDepStates
  <2>2. \/ t = <<ACTIVATE(0, FALSE), y(TRUE)>>
        \/ t = <<ACTIVATE(1, TRUE), y(FALSE)>>
    <3>1. CASE t \in FDepAt(f)!Activated
      BY <3>1, Zenon DEF FDepAt!Activated, ACTIVATE, FDepAt!ACTIVATE
    <3>2. CASE t \in FDepAt(f)!ActivateTrigger
      BY <3>2, Zenon DEF FDepAt!ActivateTrigger, FDepAt!Offer, ACTIVATE, FDepAt!ACTIVATE
    <3>3. QED  BY <1>4, <3>1, <3>2
  <2> HIDE DEF y
  <2>3. FDepTurn(f, ACTIVATE(0, FALSE), y(TRUE)) /\ FDepTurn(f, ACTIVATE(1, TRUE), y(FALSE))
    BY <1>2, <2>1, NewsDiffer
  <2>4. CASE t = <<ACTIVATE(0, FALSE), y(TRUE)>>
    BY <2>3, <2>4
  <2>5. CASE t = <<ACTIVATE(1, TRUE), y(FALSE)>>
    BY <2>3, <2>5
  <2>6. QED  BY <2>2, <2>4, <2>5
<1>5. CASE t \in FDepAt(f)!NotifyParents
  <2> DEFINE y(k) == [x EXCEPT !.notified = @ \cup {k}]
  <2>1. PICK k \in 1..Len(Dependers(f)) :
          t = <<FAIL(k + 1), y(k)>> /\ x.failed /\ k \notin x.notified
    BY <1>5, Zenon DEF FDepAt!NotifyParents, FAIL, FDepAt!FAIL
  <2>2. y(k).failed = x.failed
    BY <1>1 DEF FDepStates
  <2> HIDE DEF y
  <2>3. /\ FAIL(k + 1) # FAIL(0) /\ \A j : FAIL(k + 1) # ONLINE(j)
        /\ \A j \in Nat \ {0} : FAIL(k + 1) = FAIL(j + 1) => j = k
    BY <1>1, NewsDiffer
  <2>4. FDepTurn(f, FAIL(k + 1), y(k))
    BY <2>1, <2>2, <2>3 DEF FDepTurn
  <2>5. QED  BY <2>1, <2>4
<1>6. QED  BY <1>3, <1>4, <1>5 DEF FDepAt!Trans

\* A step of a basic event with label l to state y in a rule says what is due and
\* changes nothing about the event.
EventTurn(b, l, y) ==
  /\ y.status = node[b].status
  /\ y.emit_fail => node[b].emit_fail
  /\ y.emit_online => node[b].emit_online
  /\ l = FAIL(0) => node[b].emit_fail
  /\ l = ONLINE(0) => node[b].emit_online

\* Every step of a basic event in a rule is like that, unless it ends in an error.
LEMMA EventTurns ==
  ASSUME NEW b \in BasicEvents, Good(b), NEW t \in EventAt(b)!Trans, RuleLabel(b, t[1]),
         Works(b, t[2])
  PROVE  EventTurn(b, t[1], t[2])
<1> DEFINE x == node[b]
           S(v) == EventAt(b)!Settle(v)
<1>1. x \in EventStates /\ tree[b].type = "be"
  BY EventIs DEF Good, Typed
<1>2. t[2].status \notin {"IMPOSSIBLE", "TERMINATED"}
  BY <1>1 DEF Works
<1>3. ASSUME NEW l, NEW u \in EventStates, u.status = x.status, u.emit_fail => x.emit_fail,
             u.emit_online => x.emit_online, t = <<l, S(u)>>,
             l = FAIL(0) => x.emit_fail, l = ONLINE(0) => x.emit_online
      PROVE  EventTurn(b, t[1], t[2])
  <2> DEFINE y == S(u)
  <2>1. /\ y.status \in {u.status, "IMPOSSIBLE"}
        /\ y.emit_fail = u.emit_fail /\ y.emit_online = u.emit_online
    BY EventLands
  <2> HIDE DEF y
  <2>2. t[1] = l /\ t[2] = y
    BY <1>3 DEF y
  <2>3. QED  BY <1>2, <1>3, <2>1, <2>2 DEF EventTurn
<1>4. CASE t \in EventAt(b)!AnnounceFail
  <2> DEFINE u == [x EXCEPT !.emit_fail = FALSE]
  <2>1. t = <<FAIL(0), S(u)>> /\ x.emit_fail
    BY <1>4, Zenon DEF EventAt!AnnounceFail, EventAt!When, FAIL, EventAt!FAIL
  <2>2. u \in EventStates /\ u.status = x.status /\ ~u.emit_fail /\ u.emit_online = x.emit_online
    BY <1>1, Zenon DEF EventStates
  <2>3. FAIL(0) # ONLINE(0)
    BY NewsDiffer
  <2> HIDE DEF u, S
  <2>4. QED  BY <1>3, <2>1, <2>2, <2>3
<1>5. CASE t \in EventAt(b)!AnnounceOnline
  <2> DEFINE u == [x EXCEPT !.emit_online = FALSE]
  <2>1. t = <<ONLINE(0), S(u)>> /\ x.emit_online
    BY <1>5, Zenon DEF EventAt!AnnounceOnline, EventAt!When, ONLINE, EventAt!ONLINE
  <2>2. u \in EventStates /\ u.status = x.status /\ u.emit_fail = x.emit_fail /\ ~u.emit_online
    BY <1>1, Zenon DEF EventStates
  <2>3. FAIL(0) # ONLINE(0)
    BY NewsDiffer
  <2> HIDE DEF u, S
  <2>4. QED  BY <1>3, <2>1, <2>2, <2>3
<1>6. ASSUME NEW l, NoNews(l), NEW u, u \in {[x EXCEPT !.emit_inspect = FALSE],
               [x EXCEPT !.isactive = TRUE], [x EXCEPT !.isactive = FALSE]},
             t = <<l, S(u)>>
      PROVE  EventTurn(b, t[1], t[2])
  <2>1. /\ u \in EventStates /\ u.status = x.status
        /\ u.emit_fail = x.emit_fail /\ u.emit_online = x.emit_online
    BY <1>1, <1>6 DEF EventStates
  <2>2. l # FAIL(0) /\ l # ONLINE(0)
    BY <1>6, NewsDiffer
  <2> HIDE DEF S
  <2>3. QED  BY <1>3, <1>6, <2>1, <2>2
<1>7. CASE t \in EventAt(b)!AnnounceInspect
  <2>1. t = <<INSPECT(0), S([x EXCEPT !.emit_inspect = FALSE])>>
    BY <1>7, Zenon DEF EventAt!AnnounceInspect, EventAt!When, INSPECT, EventAt!INSPECT
  <2> HIDE DEF S
  <2>2. QED  BY <1>6, <2>1, NewsDiffer
<1>8. CASE t \in EventAt(b)!Activated
  <2>1. t = <<ACTIVATE(0, FALSE), S([x EXCEPT !.isactive = TRUE])>>
    BY <1>8, Zenon DEF EventAt!Activated, EventAt!When, ACTIVATE, EventAt!ACTIVATE
  <2> HIDE DEF S
  <2>2. QED  BY <1>6, <2>1, NewsDiffer
<1>9. CASE t \in EventAt(b)!Deactivated
  <2> DEFINE z == [x EXCEPT !.status = "IMPOSSIBLE"]
             r == [x EXCEPT !.isactive = FALSE]
             w == IF b \in AlwaysActive THEN z ELSE r
  <2>1. t = <<DEACTIVATE(0, FALSE), S(w)>>
    BY <1>9, Zenon DEF EventAt!Deactivated, EventAt!When, EventAt!Impossible, DEACTIVATE,
                       EventAt!DEACTIVATE
  <2>2. z \in EventStates /\ z.status = "IMPOSSIBLE"
    BY <1>1 DEF EventStates, Statuses
  <2> HIDE DEF z
  <2>3. S(z).status = "IMPOSSIBLE"
    BY <2>2, EventLands
  <2>4. w \in {z, r}
    BY Zenon
  <2> HIDE DEF S, w
  <2>5. w = r
    BY <1>2, <2>1, <2>3, <2>4
  <2>6. QED  BY <1>6, <2>1, <2>5, NewsDiffer
<1>10. QED  BY <1>4, <1>5, <1>7, <1>8, <1>9, RuleOfEvent

\* Only an event with a repair rate recovers when a rate elapses.
LEMMA OnlyRepairsRestore ==
  ASSUME NEW b \in BasicEvents, Good(b), NEW t \in EventAt(b)!Trans, t[1] \in Rated(b),
         IsDown(node[b])
  PROVE  ~IsDown(t[2]) => tree[b].repair
<1>1. node[b].status # "UP"
  BY DEF IsDown
<1>2. t \notin EventAt(b)!Degrade /\ t \notin EventAt(b)!Restore /\ t \notin EventAt(b)!FailSafe
  <2>1. t \in EventAt(b)!Degrade => EventAt(b)!can_failsig
    BY Zenon DEF EventAt!Degrade, EventAt!When
  <2>2. t \in EventAt(b)!Restore => EventAt(b)!can_failsig
    BY Zenon DEF EventAt!Restore, EventAt!When
  <2>3. t \in EventAt(b)!FailSafe => EventAt(b)!can_failsig
    BY Zenon DEF EventAt!FailSafe, EventAt!When
  <2>4. ~EventAt(b)!can_failsig
    BY <1>1, Zenon DEF EventAt!can_failsig
  <2>5. QED  BY <2>1, <2>2, <2>3, <2>4
<1>3. t[1] = RATE_REPAIR
  <2>1. t \in EventAt(b)!Repaired
    BY <1>2, RatesOfEvent
  <2>2. \E y : t = <<RATE_REPAIR, y>>
    BY <2>1, Zenon DEF EventAt!Repaired, EventAt!When, RATE_REPAIR, EventAt!RATE_REPAIR
  <2>3. QED  BY <2>2
<1>4. {TRUE} \cap {tree[b].repair} # {}
  <2>1. SUFFICES ASSUME {TRUE} \cap {tree[b].repair} = {}  PROVE  FALSE
    OBVIOUS
  <2>2. t[1][1] = "RATE_FAIL"
    BY <2>1 DEF Rated, RATE_FAIL
  <2>3. QED  BY <1>3, <2>2 DEF RATE_REPAIR
<1>5. QED  BY <1>4, Zenon

\* At first nothing is announced, and an event has failed by evidence only.
LEMMA StaticStarts ==
  ASSUME NEW n \in Nodes, node[n] = InitialState(n)
  PROVE  /\ n \in Votings => ~node[n].done /\ ~node[n].emit_fail
         /\ n \in BasicEvents => /\ ~node[n].emit_online
                                 /\ IsDown(node[n]) <=> tree[n].failed
<1>1. CASE n \in Votings
  <2>1. node[n] = VotingAt(n)!Initial
    BY <1>1, TransOf
  <2>2. n \notin BasicEvents
    BY <1>1, KindsOfNodes DEF Votings
  <2>3. QED  BY <2>1, <2>2 DEF VotingAt!Initial
<1>2. CASE n \in BasicEvents
  <2> DEFINE s == IF tree[n].failed THEN "FAILING" ELSE "UP"
  <2> DEFINE f == tree[n].failed
             a == n \in AlwaysActive
             i == [status |-> s, repair_status |-> "NONE", phase |-> 1, isactive |-> a,
                   emit_fail |-> f, emit_online |-> FALSE, emit_inspect |-> f,
                   can_definitely_fail |-> FALSE]
  <2>0. node[n] = i
    BY <1>2, TransOf, Zenon DEF EventAt!Initial
  <2> HIDE DEF f, a, s
  <2>1. node[n].status = s /\ node[n].emit_online = FALSE
    BY <2>0
  <2>2. n \notin Votings /\ tree[n].failed \in BOOLEAN
    BY <1>2, EventIs, KindsOfNodes DEF Votings
  <2>3. IsDown(node[n]) <=> tree[n].failed
    BY <2>1, <2>2 DEF IsDown, s
  <2>4. QED  BY <2>1, <2>2, <2>3
<1>3. QED  BY <1>1, <1>2

-----------------------------------------------------------------------------
(* What a spare gate has to say, and who obeys commands. *)

\* A live gate offers what one of its handlers offers.
LEMMA SpareOffering ==
  ASSUME NEW g, FitSpare(g), NEW l, NEW y,
         \/ <<l, y>> \in SpareAt(g)!ReleaseFailed \/ <<l, y>> \in SpareAt(g)!ReleaseWorse
         \/ <<l, y>> \in SpareAt(g)!AnnounceFail \/ <<l, y>> \in SpareAt(g)!AnnounceOnline
         \/ <<l, y>> \in SpareAt(g)!ClaimBetter \/ <<l, y>> \in SpareAt(g)!Activated
         \/ <<l, y>> \in SpareAt(g)!Deactivated \/ <<l, y>> \in SpareAt(g)!ChildClaimed
         \/ <<l, y>> \in SpareAt(g)!ChildReleased
  PROVE  Targets(g, l) # {}
<1>1. node[g].mode = "live" /\ g \in Spares
  BY FitIsReady DEF FitSpare
<1>2. <<l, y>> \in SpareAt(g)!Trans
  BY <1>1 DEF SpareAt!Trans
<1>3. <<l, y>> \in Trans(g)
  BY <1>1, <1>2, TransOf
<1>4. QED  BY <1>3 DEF Targets

\* A gate that has a child to release, a failure or a recovery to announce or a
\* better child to claim offers to do so.
LEMMA SpareOffers ==
  ASSUME NEW g, FitSpare(g)
  PROVE  LET x == node[g]
             f == SpareAt(g)!First(Free(x))
         IN  /\ x.prev_using # 0 => Targets(g, DEACTIVATE(x.prev_using, TRUE)) # {}
             /\ x.prev_using = 0 /\ x.repairing_deactivate # 0 =>
                  Targets(g, DEACTIVATE(x.repairing_deactivate, TRUE)) # {}
             /\ x.prev_using = 0 /\ x.repairing_deactivate = 0 /\ ~x.done /\ Free(x) = {} =>
                  Targets(g, FAIL(0)) # {}
             /\ x.done /\ (x.cur_using \in Free(x) \/ (Free(x) # {} /\ ~x.activated)) =>
                  Targets(g, ONLINE(0)) # {}
             /\ x.activated /\ Free(x) # {} /\ x.prev_using = 0
                  /\ x.repairing_deactivate = 0 /\ f # x.cur_using =>
                  /\ Targets(g, ACTIVATE(f, TRUE)) # {}
                  /\ g \in AlwaysActive => f # 1
<1> DEFINE x == node[g]
           f == SpareAt(g)!First(Free(x))
<1>1. /\ x \in SpareStates(g) /\ g \in Spares /\ Free(x) \in SUBSET Kids(g)
      /\ g \in AlwaysActive => (x.cur_using = 1 <=> 1 \in Free(x))
  BY FitIsReady DEF FitSpare, SpareStates, Free
<1>2. SpareAt(g)!avail = Free(x)
  BY DEF SpareAt!avail, SpareAt!Available, Free
<1>3. ASSUME x.prev_using # 0  PROVE  Targets(g, DEACTIVATE(x.prev_using, TRUE)) # {}
  <2>1. \E y : <<DEACTIVATE(x.prev_using, TRUE), y>> \in SpareAt(g)!ReleaseFailed
    BY <1>3, Zenon DEF SpareAt!ReleaseFailed, SpareAt!When, SpareAt!Offer,
                       DEACTIVATE, SpareAt!DEACTIVATE
  <2>2. QED  BY <2>1, SpareOffering
<1>4. ASSUME x.prev_using = 0, x.repairing_deactivate # 0
      PROVE  Targets(g, DEACTIVATE(x.repairing_deactivate, TRUE)) # {}
  <2>1. \E y : <<DEACTIVATE(x.repairing_deactivate, TRUE), y>> \in SpareAt(g)!ReleaseWorse
    BY <1>4, Zenon DEF SpareAt!ReleaseWorse, SpareAt!When, SpareAt!Offer,
                       DEACTIVATE, SpareAt!DEACTIVATE
  <2>2. QED  BY <2>1, SpareOffering
<1>5. ASSUME x.prev_using = 0, x.repairing_deactivate = 0, ~x.done, Free(x) = {}
      PROVE  Targets(g, FAIL(0)) # {}
  <2>1. \E y : <<FAIL(0), y>> \in SpareAt(g)!AnnounceFail
    BY <1>2, <1>5, Zenon DEF SpareAt!AnnounceFail, SpareAt!When, SpareAt!Offer, FAIL, SpareAt!FAIL
  <2>2. QED  BY <2>1, SpareOffering
<1>6. ASSUME x.done, x.cur_using \in Free(x) \/ (Free(x) # {} /\ ~x.activated)
      PROVE  Targets(g, ONLINE(0)) # {}
  <2>1. \E y : <<ONLINE(0), y>> \in SpareAt(g)!AnnounceOnline
    BY <1>2, <1>6, Zenon DEF SpareAt!AnnounceOnline, SpareAt!When, SpareAt!Offer,
                             ONLINE, SpareAt!ONLINE
  <2>2. QED  BY <2>1, SpareOffering
<1>7. ASSUME x.activated, Free(x) # {}, x.prev_using = 0, x.repairing_deactivate = 0,
             f # x.cur_using
      PROVE  Targets(g, ACTIVATE(f, TRUE)) # {} /\ (g \in AlwaysActive => f # 1)
  <2>1. f \in Free(x) /\ f \in Nat \ {0} /\ \A j \in Free(x) : f <= j
    BY <1>1, <1>7, FirstIsLeast DEF Kids
  <2>2. g \in AlwaysActive => f # 1
    BY <1>1, <1>7, <2>1
  <2> HIDE DEF f
  <2>3. f > 1 \/ g \notin AlwaysActive
    BY <2>1, <2>2
  <2>4. \E y : <<ACTIVATE(f, TRUE), y>> \in SpareAt(g)!ClaimBetter
    <3>1. SpareAt(g)!First(SpareAt(g)!avail) = f
      BY <1>2 DEF f
    <3>2. SpareAt(g)!ClaimLabel = ACTIVATE(f, TRUE)
      BY <2>3, <3>1, Zenon DEF SpareAt!ClaimLabel, ACTIVATE, SpareAt!ACTIVATE
    <3>3. QED
      BY <1>2, <1>7, <3>1, <3>2, Zenon DEF SpareAt!ClaimBetter, SpareAt!When, SpareAt!Offer
  <2>5. QED  BY <2>2, <2>4, SpareOffering
<1>8. QED  BY <1>3, <1>4, <1>5, <1>6, <1>7, Zenon

\* A spare gate hears of every release of a child, and of every claim of one that
\* it does not use itself.
LEMMA SparesListen ==
  ASSUME NEW g, FitSpare(g), NEW i \in Kids(g)
  PROVE  /\ Targets(g, DEACTIVATE(i, FALSE)) # {}
         /\ i # node[g].cur_using => Targets(g, ACTIVATE(i, FALSE)) # {}
<1>1. \E y : <<DEACTIVATE(i, FALSE), y>> \in SpareAt(g)!ChildReleased
  BY Zenon DEF SpareAt!ChildReleased, SpareAt!Step, SpareAt!Children, Kids,
               DEACTIVATE, SpareAt!DEACTIVATE
<1>2. ASSUME i # node[g].cur_using  PROVE  \E y : <<ACTIVATE(i, FALSE), y>> \in SpareAt(g)!ChildClaimed
  <2>1. i \in SpareAt(g)!Children \ {node[g].cur_using}
    BY <1>2 DEF SpareAt!Children, Kids
  <2>2. QED
    BY <2>1, Zenon DEF SpareAt!ChildClaimed, SpareAt!Step, ACTIVATE, SpareAt!ACTIVATE
<1>3. QED  BY <1>1, <1>2, SpareOffering

\* A node below an active one obeys commands, but for an always-active voting gate,
\* which needs none; a priority-AND and a dependency gate have their own ideas.
LEMMA CommandsListen ==
  ASSUME NEW n \in Votings \cup Spares \cup BasicEvents, Good(n), Fit(n, node[n]),
         n \notin AlwaysActive
  PROVE  Targets(n, ACTIVATE(0, FALSE)) # {} /\ Targets(n, DEACTIVATE(0, FALSE)) # {}
<1>0. ASSUME NEW l, NEW y, <<l, y>> \in Trans(n)  PROVE  Targets(n, l) # {}
  BY <1>0 DEF Targets
<1>1. CASE n \in Votings
  <2>1. node[n].mode = "live" /\ Trans(n) = VotingAt(n)!Trans
    BY <1>1, VotingIs, TransOf DEF Good, Working, Works
  <2>2. /\ \E y : <<ACTIVATE(0, FALSE), y>> \in VotingAt(n)!Activated
        /\ \E y : <<DEACTIVATE(0, FALSE), y>> \in VotingAt(n)!Deactivated
    BY Zenon DEF VotingAt!Activated, VotingAt!Deactivated, VotingAt!Offer,
                 ACTIVATE, VotingAt!ACTIVATE, DEACTIVATE, VotingAt!DEACTIVATE
  <2>3. VotingAt(n)!Activated \subseteq Trans(n) /\ VotingAt(n)!Deactivated \subseteq Trans(n)
    BY <2>1 DEF VotingAt!Trans
  <2>4. QED  BY <1>0, <2>2, <2>3
<1>2. CASE n \in Spares
  <2>1. FitSpare(n)
    BY <1>2 DEF FitSpare
  <2>2. /\ \E y : <<ACTIVATE(0, FALSE), y>> \in SpareAt(n)!Activated
        /\ \E y : <<DEACTIVATE(0, FALSE), y>> \in SpareAt(n)!Deactivated
    BY Zenon DEF SpareAt!Activated, SpareAt!Deactivated, SpareAt!Step,
                 ACTIVATE, SpareAt!ACTIVATE, DEACTIVATE, SpareAt!DEACTIVATE
  <2>3. QED  BY <2>1, <2>2, SpareOffering
<1>3. CASE n \in BasicEvents
  <2>1. node[n].status \notin {"IMPOSSIBLE", "TERMINATED"} /\ Trans(n) = EventAt(n)!Trans
    BY <1>3, EventIs, TransOf DEF Good, Working, Works
  <2>2. /\ \E y : <<ACTIVATE(0, FALSE), y>> \in EventAt(n)!Activated
        /\ \E y : <<DEACTIVATE(0, FALSE), y>> \in EventAt(n)!Deactivated
    BY Zenon DEF EventAt!Activated, EventAt!Deactivated, EventAt!When,
                 ACTIVATE, EventAt!ACTIVATE, DEACTIVATE, EventAt!DEACTIVATE
  <2>3. EventAt(n)!Activated \subseteq Trans(n) /\ EventAt(n)!Deactivated \subseteq Trans(n)
    BY <2>1 DEF EventAt!Trans
  <2>4. QED  BY <1>0, <2>2, <2>3
<1>4. QED  BY <1>1, <1>2, <1>3

-----------------------------------------------------------------------------
(* Spare gates whose children fail for good. *)

\* What a transition is labelled with.
LEMMA LabelOfPair == \A t, l, v : t = <<l, v>> => t[1] = l
  OBVIOUS

\* A spare gate announces its failure when no child is free, and it releases what
\* it used before.
LEMMA SpareSays ==
  ASSUME NEW g, FitSpare(g), NEW t \in SpareAt(g)!Trans
  PROVE  /\ t[1] = FAIL(0) => Free(node[g]) = {}
         /\ \A i : t[1] = DEACTIVATE(i, TRUE) =>
              i \in {node[g].prev_using, node[g].repairing_deactivate}
<1> DEFINE x == node[g]
           S(v) == SpareAt(g)!Settle(v)
           Right(l) == /\ l = FAIL(0) => Free(x) = {}
                       /\ \A i : l = DEACTIVATE(i, TRUE) =>
                                   i \in {x.prev_using, x.repairing_deactivate}
<1>1. x.mode = "live" /\ 0 \notin Kids(g)
  BY FitIsReady
<1>2. ASSUME NEW l, l[1] \notin {"FAIL", "DEACTIVATE"}  PROVE  Right(l)
  <2>1. FAIL(0)[1] = "FAIL" /\ \A i : DEACTIVATE(i, TRUE)[1] = "DEACTIVATE"
    BY Heads
  <2>2. QED  BY <1>2, <2>1
<1>3. ASSUME NEW i  PROVE  Right(DEACTIVATE(i, FALSE)) /\ (i # 0 => Right(FAIL(i)))
  <2>1. /\ \A j : DEACTIVATE(i, FALSE) # DEACTIVATE(j, TRUE)
        /\ FAIL(i) = FAIL(0) => i = 0
    BY CommandsDiffer, NewsDiffer
  <2>2. DEACTIVATE(i, FALSE) # FAIL(0) /\ \A j : FAIL(i) # DEACTIVATE(j, TRUE)
    BY DEF FAIL, DEACTIVATE
  <2>3. QED  BY <2>1, <2>2, Zenon
<1>4. ASSUME Free(x) = {}  PROVE  Right(FAIL(0))
  <2>1. \A j : FAIL(0) # DEACTIVATE(j, TRUE)
    BY DEF FAIL, DEACTIVATE
  <2>2. QED  BY <1>4, <2>1
<1>5. ASSUME NEW i \in {x.prev_using, x.repairing_deactivate}  PROVE  Right(DEACTIVATE(i, TRUE))
  <2>1. /\ \A j : DEACTIVATE(i, TRUE) = DEACTIVATE(j, TRUE) => i = j
        /\ DEACTIVATE(i, TRUE) # FAIL(0)
    BY CommandsDiffer DEF FAIL, DEACTIVATE
  <2>2. QED  BY <2>1, Zenon
<1> HIDE DEF Right
<1>6. CASE t \in SpareAt(g)!ChildFails
  <2>1. \E i \in Kids(g) : t = <<FAIL(i), S(SpareAt(g)!AfterFail(i))>>
    BY <1>6, Zenon DEF SpareAt!ChildFails, SpareAt!Step, SpareAt!Children, Kids,
                       FAIL, SpareAt!FAIL
  <2>2. \E i \in Kids(g) : t[1] = FAIL(i)
    <3> HIDE DEF S
    <3>1. QED  BY <2>1
  <2>3. QED  BY <1>1, <1>3, <2>2 DEF Right
<1>7. CASE t \in SpareAt(g)!ChildOnline \cup SpareAt(g)!AnnounceOnline
  <2>1. PICK i, v : t = <<ONLINE(i), v>>
    BY <1>7, Zenon DEF SpareAt!ChildOnline, SpareAt!AnnounceOnline, SpareAt!Step, SpareAt!When,
                       SpareAt!Offer, ONLINE, SpareAt!ONLINE
  <2>2. t[1] = ONLINE(i)
    BY <2>1, LabelOfPair, Zenon
  <2>3. t[1][1] = "ONLINE"
    BY <2>2, Heads
  <2>4. QED  BY <1>2, <2>3 DEF Right
<1>8. CASE t \in SpareAt(g)!Activated \cup SpareAt(g)!ChildClaimed
  <2>1. PICK i, v : t = <<ACTIVATE(i, FALSE), v>>
    BY <1>8, Zenon DEF SpareAt!Activated, SpareAt!ChildClaimed, SpareAt!Step,
                       ACTIVATE, SpareAt!ACTIVATE
  <2>2. t[1] = ACTIVATE(i, FALSE)
    BY <2>1, LabelOfPair, Zenon
  <2>3. t[1][1] = "ACTIVATE"
    BY <2>2, Heads
  <2>4. QED  BY <1>2, <2>3 DEF Right
<1>9. CASE t \in SpareAt(g)!Deactivated \cup SpareAt(g)!ChildReleased
  <2>1. PICK i, v : t = <<DEACTIVATE(i, FALSE), v>>
    BY <1>9, Zenon DEF SpareAt!Deactivated, SpareAt!ChildReleased, SpareAt!Step,
                       DEACTIVATE, SpareAt!DEACTIVATE
  <2>2. t[1] = DEACTIVATE(i, FALSE)
    BY <2>1, LabelOfPair, Zenon
  <2>3. QED  BY <1>3, <2>2 DEF Right
<1>10. CASE t \in SpareAt(g)!ReleaseFailed \cup SpareAt(g)!ReleaseWorse
  <2>1. PICK i \in {x.prev_using, x.repairing_deactivate} : \E v : t = <<DEACTIVATE(i, TRUE), v>>
    BY <1>10, Zenon DEF SpareAt!ReleaseFailed, SpareAt!ReleaseWorse, SpareAt!When,
                        SpareAt!Offer, DEACTIVATE, SpareAt!DEACTIVATE
  <2>2. t[1] = DEACTIVATE(i, TRUE)
    BY <2>1, LabelOfPair, Zenon
  <2>3. QED  BY <1>5, <2>2 DEF Right
<1>11. CASE t \in SpareAt(g)!AnnounceFail
  <2>1. /\ \E v : t = <<FAIL(0), v>>
        /\ SpareAt(g)!avail = {}
    BY <1>11, Zenon DEF SpareAt!AnnounceFail, SpareAt!When, SpareAt!Offer, FAIL, SpareAt!FAIL
  <2>2. t[1] = FAIL(0) /\ Free(x) = {}
    BY <2>1 DEF SpareAt!avail, SpareAt!Available, Free
  <2>3. QED  BY <1>4, <2>2 DEF Right
<1>12. CASE t \in SpareAt(g)!ClaimFirst \cup SpareAt(g)!ClaimBetter \cup SpareAt(g)!ForgetRelease
                    \cup SpareAt(g)!ReportRepaired
  <2>1. \/ \E i : \E v : t = <<ACTIVATE(i, TRUE), v>>
        \/ \E v : t = <<TAU, v>>
        \/ \E v : t = <<REPAIRED(0), v>>
    <3>1. CASE t \in SpareAt(g)!ClaimFirst
      BY <3>1, Zenon DEF SpareAt!ClaimFirst, SpareAt!When, SpareAt!Offer, ACTIVATE, SpareAt!ACTIVATE
    <3>2. CASE t \in SpareAt(g)!ClaimBetter
      BY <3>2, Zenon DEF SpareAt!ClaimBetter, SpareAt!When, SpareAt!Offer, SpareAt!ClaimLabel,
                         ACTIVATE, SpareAt!ACTIVATE, TAU, SpareAt!TAU
    <3>3. CASE t \in SpareAt(g)!ForgetRelease
      BY <3>3, Zenon DEF SpareAt!ForgetRelease, SpareAt!When, SpareAt!Offer, TAU, SpareAt!TAU
    <3>4. CASE t \in SpareAt(g)!ReportRepaired
      BY <3>4, Zenon DEF SpareAt!ReportRepaired, SpareAt!Step, REPAIRED, SpareAt!REPAIRED
    <3>5. QED  BY <1>12, <3>1, <3>2, <3>3, <3>4
  <2>2. (\E i : t[1] = ACTIVATE(i, TRUE)) \/ t[1] = TAU \/ t[1] = REPAIRED(0)
    <3>1. ASSUME NEW i, NEW v, t = <<ACTIVATE(i, TRUE), v>>  PROVE  t[1] = ACTIVATE(i, TRUE)
      BY <3>1, LabelOfPair, Zenon
    <3>2. ASSUME NEW v, t = <<TAU, v>>  PROVE  t[1] = TAU
      BY <3>2, LabelOfPair, Zenon
    <3>3. ASSUME NEW v, t = <<REPAIRED(0), v>>  PROVE  t[1] = REPAIRED(0)
      BY <3>3, LabelOfPair, Zenon
    <3>4. QED  BY <2>1, <3>1, <3>2, <3>3, Zenon
  <2>3. t[1][1] \in {"ACTIVATE", "", "REPAIRED"}
    BY <2>2, Heads
  <2>4. QED  BY <1>2, <2>3 DEF Right
<1>13. QED
  BY <1>1, <1>6, <1>7, <1>8, <1>9, <1>10, <1>11, <1>12 DEF SpareAt!Trans, Right

\* No child comes back, and another gate only releases one that failed.
ForGood(g, l) ==
  \A i \in Kids(g) : l # ONLINE(i) /\ (l = DEACTIVATE(i, FALSE) => i \notin node[g].unfailed)

\* Then no child becomes free, so a gate that has announced its failure stays right.
LEMMA FreeShrinks ==
  ASSUME NEW g, FitSpare(g), NEW t \in SpareAt(g)!Trans, Welcome(g, t[1]), ForGood(g, t[1])
  PROVE  /\ Free(t[2]) \subseteq Free(node[g])
         /\ t[2].done => node[g].done \/ Free(node[g]) = {}
<1>1. g \in Spares /\ Good(g) /\ Fit(g, node[g]) /\ tree[g].type = "wsp" /\ node[g].mode = "live"
  BY FitIsReady DEF FitSpare
<1>2. Fine(g, t[1], t[2]) /\ SpareClaims(g, t[1], t[2])
  BY <1>1, SpareFits
<1>3. t[2].mode = "live"
  BY <1>1, <1>2 DEF Fine, Works
<1>4. SpareNews(g, t[1], t[2]) /\ t[2] \in SpareStates(g)
  BY <1>1, SpareHandlers, SpareEffect, SpareIs DEF Effect
<1>5. t[2].unfailed \subseteq node[g].unfailed
  BY <1>3, <1>4 DEF SpareNews, ForGood
<1>6. ASSUME NEW i \in Free(t[2])  PROVE  i \in Free(node[g])
  <2>1. i \in Kids(g) /\ i \in t[2].unclaimed /\ i \in node[g].unfailed
    BY <1>4, <1>5, <1>6 DEF Free, SpareStates
  <2>2. i \in node[g].unclaimed \/ t[1] = DEACTIVATE(i, FALSE)
    BY <1>2, <2>1, Zenon DEF SpareClaims
  <2>3. QED  BY <2>1, <2>2 DEF Free, ForGood
<1>7. t[2].done => node[g].done \/ t[1] = FAIL(0)
  BY <1>3, <1>4, Zenon DEF SpareNews
<1>8. QED  BY <1>6, <1>7, SpareSays

\* State x of an always-active gate that never has to give up a child that works:
\* it uses the best one that nobody else claimed, until that fails.
Firm(x) ==
  /\ x.repairing_deactivate = 0 /\ x.prev_using \in {0, x.cur_using}
  /\ x.prev_using # 0 => x.prev_using \notin x.unfailed
  /\ x.cur_using # 0 =>
       /\ x.cur_using \in x.unclaimed /\ \A j \in Free(x) : x.cur_using <= j
       /\ x.cur_using \notin x.unfailed => x.prev_using = x.cur_using

\* add_transition leaves it so.
LEMMA FirmSettles ==
  ASSUME NEW g \in Spares, g \in AlwaysActive, NEW v \in SpareStates(g), Firm(v),
         1 \in Free(v) => v.cur_using = 1
  PROVE  Firm(SpareAt(g)!Settle(v))
<1>1. SpareAt(g)!ReturnToPrimary(v) = v
  BY DEF SpareAt!ReturnToPrimary, SpareAt!Available, Free
<1>2. CASE v.prev_using # 1
  <2>1. SpareAt(g)!KeepPrimary(v) = v
    BY <1>2 DEF SpareAt!KeepPrimary
  <2>2. QED  BY <1>1, <2>1 DEF SpareAt!Settle
<1>3. CASE v.prev_using = 1
  <2> DEFINE w == [v EXCEPT !.prev_using = 0, !.cur_using = 0]
  <2>1. SpareAt(g)!KeepPrimary(v) = w
    BY <1>3, Zenon DEF SpareAt!KeepPrimary
  <2>2. /\ w.prev_using = 0 /\ w.cur_using = 0
        /\ w.repairing_deactivate = v.repairing_deactivate
    BY Zenon DEF SpareStates
  <2> HIDE DEF w
  <2>3. Firm(w)
    BY <2>2 DEF Firm
  <2>4. QED  BY <1>1, <2>1, <2>3 DEF SpareAt!Settle
<1>4. QED  BY <1>2, <1>3

\* And so do its handlers.
LEMMA FirmStays ==
  ASSUME NEW g, FitSpare(g), g \in AlwaysActive, Firm(node[g]),
         NEW t \in SpareAt(g)!Trans, Welcome(g, t[1]), ForGood(g, t[1])
  PROVE  Firm(t[2])
<1> DEFINE x == node[g]
           S(v) == SpareAt(g)!Settle(v)
           A == SpareAt(g)!avail
           f == SpareAt(g)!First(A)
           Like(v) == v \in SpareStates(g) /\ Firm(v) /\ (1 \in Free(v) => v.cur_using = 1)
<1>1. /\ x \in SpareStates(g) /\ x.mode = "live" /\ tree[g].type = "wsp" /\ 0 \notin Kids(g)
      /\ g \in Spares /\ 0 \in Places(g)
      /\ x.prev_using # 1 /\ (x.cur_using = 1 <=> 1 \in Free(x))
  BY FitIsReady, SpareIsNode DEF Kids, Places, FitSpare
<1>2. /\ x.repairing_deactivate = 0 /\ x.prev_using \in {0, x.cur_using}
      /\ x.prev_using # 0 => x.prev_using \notin x.unfailed
      /\ x.cur_using # 0 =>
           /\ x.cur_using \in x.unclaimed /\ \A j \in Free(x) : x.cur_using <= j
           /\ x.cur_using \notin x.unfailed => x.prev_using = x.cur_using
  BY DEF Firm
<1>3. /\ A = Free(x) /\ A \in SUBSET Kids(g)
      /\ A # {} => f \in Kids(g) /\ f \in Places(g) /\ f \in A /\ \A j \in A : f <= j
  <2>1. A = Free(x) /\ A \in SUBSET Kids(g)
    BY <1>1 DEF SpareStates, Free, SpareAt!avail, SpareAt!Available
  <2>2. QED  BY <1>1, <2>1, FirstIsLeast DEF Kids, Places
<1> HIDE DEF A, f
<1>4. ASSUME NEW l, NEW v, Like(v), t = <<l, S(v)>>  PROVE  Firm(t[2])
  <2>1. Firm(S(v))
    BY <1>1, <1>4, FirmSettles
  <2> HIDE DEF S
  <2>2. QED  BY <1>4, <2>1
<1>5. Like(x)
  BY <1>1
<1>6. CASE t \in SpareAt(g)!ChildFails
  <2>1. PICK i \in Kids(g) : t = <<FAIL(i), S(SpareAt(g)!AfterFail(i))>>
    BY <1>6, Zenon DEF SpareAt!ChildFails, SpareAt!Step, SpareAt!Children, Kids,
                       FAIL, SpareAt!FAIL
  <2> DEFINE p == IF i = x.cur_using THEN i ELSE x.prev_using
             v == [x EXCEPT !.unfailed = x.unfailed \ {i}, !.prev_using = p]
  <2>2. SpareAt(g)!AfterFail(i) = v
    BY Zenon DEF SpareAt!AfterFail
  <2>3. /\ p \in Places(g) /\ x.unfailed \ {i} \in SUBSET Kids(g)
        /\ p = x.prev_using \/ (p = i /\ i = x.cur_using)
        /\ i = x.cur_using => p = i
    BY <1>1 DEF SpareStates, Kids, Places
  <2> HIDE DEF p
  <2>4. v \in SpareStates(g)
    BY <1>1, <2>3, Zenon DEF SpareStates
  <2>5. /\ v.unfailed = x.unfailed \ {i} /\ v.unclaimed = x.unclaimed
        /\ v.cur_using = x.cur_using /\ v.prev_using = p
        /\ v.repairing_deactivate = x.repairing_deactivate
    BY <1>1, Zenon DEF SpareStates
  <2> HIDE DEF v, S
  <2>6. Like(v)
    BY <1>1, <1>2, <2>3, <2>4, <2>5 DEF Firm, Free
  <2>7. t = <<FAIL(i), S(v)>>
    BY <2>1, <2>2, Zenon
  <2> HIDE DEF Like
  <2>8. QED  BY <1>4, <2>6, <2>7
<1>7. CASE t \in SpareAt(g)!ChildOnline
  <2>1. PICK i \in Kids(g) : \E v : t = <<ONLINE(i), v>>
    BY <1>7, Zenon DEF SpareAt!ChildOnline, SpareAt!Step, SpareAt!Children, Kids,
                       ONLINE, SpareAt!ONLINE
  <2>2. t[1] = ONLINE(i)
    BY <2>1, LabelOfPair, Zenon
  <2>3. QED  BY <2>2 DEF ForGood
<1>8. CASE t \in SpareAt(g)!Activated \cup SpareAt(g)!AnnounceFail \cup SpareAt(g)!AnnounceOnline
                   \cup SpareAt(g)!ReportRepaired \cup SpareAt(g)!ForgetRelease
  <2> DEFINE a == [x EXCEPT !.activated = TRUE]
             d(b) == [x EXCEPT !.done = b]
  <2>1. \E l : t \in {<<l, S(x)>>, <<l, S(a)>>, <<l, S(d(TRUE))>>, <<l, S(d(FALSE))>>}
    <3>1. CASE t \in SpareAt(g)!Activated
      BY <3>1, Zenon DEF SpareAt!Activated, SpareAt!Step
    <3>2. CASE t \in SpareAt(g)!AnnounceFail
      BY <3>2, Zenon DEF SpareAt!AnnounceFail, SpareAt!When, SpareAt!Offer
    <3>3. CASE t \in SpareAt(g)!AnnounceOnline
      BY <3>3, Zenon DEF SpareAt!AnnounceOnline, SpareAt!When, SpareAt!Offer
    <3>4. CASE t \in SpareAt(g)!ReportRepaired
      BY <3>4, Zenon DEF SpareAt!ReportRepaired, SpareAt!Step
    <3>5. CASE t \in SpareAt(g)!ForgetRelease
      BY <3>5, Zenon DEF SpareAt!ForgetRelease, SpareAt!When, SpareAt!Offer
    <3> HIDE DEF S, a, d
    <3>6. QED  BY <1>8, <3>1, <3>2, <3>3, <3>4, <3>5
  <2>2. Like(a)
    <3>1. a \in SpareStates(g)
      BY <1>1, Zenon DEF SpareStates
    <3>2. /\ a.unfailed = x.unfailed /\ a.unclaimed = x.unclaimed
          /\ a.cur_using = x.cur_using /\ a.prev_using = x.prev_using
          /\ a.repairing_deactivate = x.repairing_deactivate
      BY <1>1, Zenon DEF SpareStates
    <3> HIDE DEF a
    <3>3. QED  BY <1>1, <3>1, <3>2 DEF Firm, Free
  <2>3. ASSUME NEW b \in BOOLEAN  PROVE  Like(d(b))
    <3>1. d(b) \in SpareStates(g)
      BY <1>1, Zenon DEF SpareStates
    <3>2. /\ d(b).unfailed = x.unfailed /\ d(b).unclaimed = x.unclaimed
          /\ d(b).cur_using = x.cur_using /\ d(b).prev_using = x.prev_using
          /\ d(b).repairing_deactivate = x.repairing_deactivate
      BY <1>1, Zenon DEF SpareStates
    <3> HIDE DEF d
    <3>3. QED  BY <1>1, <3>1, <3>2 DEF Firm, Free
  <2> HIDE DEF S, a, d, Like
  <2>4. QED  BY <1>4, <1>5, <2>1, <2>2, <2>3
<1>9. CASE t \in SpareAt(g)!Deactivated
  <2>1. \E v : t = <<DEACTIVATE(0, FALSE), v>>
    BY <1>9, Zenon DEF SpareAt!Deactivated, SpareAt!Step, DEACTIVATE, SpareAt!DEACTIVATE
  <2>2. t[1] = DEACTIVATE(0, FALSE)
    BY <2>1
  <2>3. QED  BY <2>2, Zenon DEF Welcome
<1>10. CASE t \in SpareAt(g)!ChildClaimed
  <2> DEFINE v(i) == [x EXCEPT !.unclaimed = x.unclaimed \ {i}]
             w(i) == IF i = 1 /\ g \in AlwaysActive THEN SpareAt(g)!Impossible ELSE v(i)
  <2>1. PICK i \in Kids(g) \ {x.cur_using} : t = <<ACTIVATE(i, FALSE), S(w(i))>>
    BY <1>10, Zenon DEF SpareAt!ChildClaimed, SpareAt!Step, SpareAt!Children, Kids,
                        ACTIVATE, SpareAt!ACTIVATE
  <2>2. i # 1
    <3> HIDE DEF S, w
    <3>1. t[1] = ACTIVATE(i, FALSE)
      BY <2>1
    <3>2. QED  BY <1>1, <3>1, Zenon DEF Welcome
  <2>3. t = <<ACTIVATE(i, FALSE), S(v(i))>>
    BY <2>1, <2>2, Zenon
  <2>4. x.unclaimed \ {i} \in SUBSET Kids(g)
    BY <1>1 DEF SpareStates
  <2>5. v(i) \in SpareStates(g)
    BY <1>1, <2>4, Zenon DEF SpareStates
  <2>6. /\ v(i).unfailed = x.unfailed /\ v(i).unclaimed = x.unclaimed \ {i}
        /\ v(i).cur_using = x.cur_using /\ v(i).prev_using = x.prev_using
        /\ v(i).repairing_deactivate = x.repairing_deactivate
    BY <1>1, Zenon DEF SpareStates
  <2> HIDE DEF v, w, S
  <2>7. Like(v(i))
    BY <1>1, <1>2, <2>5, <2>6 DEF Firm, Free
  <2> HIDE DEF Like
  <2>8. QED  BY <1>4, <2>3, <2>7
<1>11. CASE t \in SpareAt(g)!ChildReleased
  <2> DEFINE v(i) == [x EXCEPT !.unclaimed = x.unclaimed \cup {i}]
             w(i) == IF \/ i = 1 /\ g \in AlwaysActive
                        \/ i \in {x.prev_using, x.repairing_deactivate}
                     THEN SpareAt(g)!Impossible ELSE v(i)
  <2>1. PICK i \in Kids(g) : t = <<DEACTIVATE(i, FALSE), S(w(i))>>
    BY <1>11, Zenon DEF SpareAt!ChildReleased, SpareAt!Step, SpareAt!Children, Kids,
                        DEACTIVATE, SpareAt!DEACTIVATE
  <2>2. i \notin Held(g, x) /\ i \notin x.unfailed
    <3> HIDE DEF S, w
    <3>1. t[1] = DEACTIVATE(i, FALSE)
      BY <2>1
    <3>2. i \notin Held(g, x)
      BY <1>1, <3>1, Zenon DEF Welcome
    <3>3. QED  BY <3>1, <3>2 DEF ForGood
  <2>3. ~(i = 1 /\ g \in AlwaysActive) /\ i \notin {x.prev_using, x.repairing_deactivate}
    BY <2>2 DEF Held
  <2>4. t = <<DEACTIVATE(i, FALSE), S(v(i))>>
    BY <2>1, <2>3, Zenon
  <2>5. x.unclaimed \cup {i} \in SUBSET Kids(g)
    BY <1>1 DEF SpareStates
  <2>6. v(i) \in SpareStates(g)
    BY <1>1, <2>5, Zenon DEF SpareStates
  <2>7. /\ v(i).unfailed = x.unfailed /\ v(i).unclaimed = x.unclaimed \cup {i}
        /\ v(i).cur_using = x.cur_using /\ v(i).prev_using = x.prev_using
        /\ v(i).repairing_deactivate = x.repairing_deactivate
    BY <1>1, Zenon DEF SpareStates
  <2> HIDE DEF v, w, S
  <2>8. Like(v(i))
    BY <1>1, <1>2, <2>2, <2>6, <2>7 DEF Firm, Free
  <2> HIDE DEF Like
  <2>9. QED  BY <1>4, <2>4, <2>8
<1>12. CASE t \in SpareAt(g)!ReleaseFailed
  <2> DEFINE v == [x EXCEPT !.prev_using = 0, !.cur_using = 0]
  <2>1. t = <<DEACTIVATE(x.prev_using, TRUE), S(v)>> /\ x.prev_using # 0
    BY <1>12, Zenon DEF SpareAt!ReleaseFailed, SpareAt!When, SpareAt!Offer,
                        DEACTIVATE, SpareAt!DEACTIVATE
  <2>2. v \in SpareStates(g)
    BY <1>1, Zenon DEF SpareStates
  <2>3. /\ v.unfailed = x.unfailed /\ v.unclaimed = x.unclaimed
        /\ v.cur_using = 0 /\ v.prev_using = 0
        /\ v.repairing_deactivate = x.repairing_deactivate
    BY <1>1, Zenon DEF SpareStates
  <2> HIDE DEF v, S
  <2>4. Like(v)
    BY <1>1, <1>2, <2>1, <2>2, <2>3 DEF Firm, Free
  <2> HIDE DEF Like
  <2>5. QED  BY <1>4, <2>1, <2>4
<1>13. CASE t \in SpareAt(g)!ReleaseWorse
  <2>1. x.repairing_deactivate # 0
    BY <1>13, Zenon DEF SpareAt!ReleaseWorse, SpareAt!When, SpareAt!Offer
  <2>2. QED  BY <1>2, <2>1
<1>14. ASSUME NEW l, A # {}, x.cur_using = 0,
              NEW v, v = [x EXCEPT !.repairing_deactivate = 0, !.cur_using = f],
              t = <<l, S(v)>>
       PROVE  Firm(t[2])
  <2>1. v \in SpareStates(g)
    BY <1>1, <1>3, <1>14, Zenon DEF SpareStates
  <2>2. /\ v.unfailed = x.unfailed /\ v.unclaimed = x.unclaimed
        /\ v.cur_using = f /\ v.prev_using = x.prev_using
        /\ v.repairing_deactivate = 0
    BY <1>1, <1>14, Zenon DEF SpareStates
  <2>3. f \in x.unfailed /\ f \in x.unclaimed /\ f \in Nat \ {0} /\ \A j \in Free(x) : f <= j
    BY <1>3, <1>14 DEF Free, Kids
  <2>4. Free(v) = Free(x) /\ x.prev_using = 0 /\ 1 \notin Free(x)
    BY <1>1, <1>2, <1>14, <2>2 DEF Free
  <2> HIDE DEF S
  <2>5. Like(v)
    BY <2>1, <2>2, <2>3, <2>4 DEF Firm
  <2> HIDE DEF Like
  <2>6. QED  BY <1>4, <1>14, <2>5
<1>15. CASE t \in SpareAt(g)!ClaimFirst
  <2> DEFINE r == IF x.repairing_deactivate = f THEN 0 ELSE x.repairing_deactivate
             u == [x EXCEPT !.cur_using = f, !.repairing_deactivate = r]
             v == [x EXCEPT !.repairing_deactivate = 0, !.cur_using = f]
  <2>1. /\ x.cur_using = 0 /\ A # {}
        /\ t = <<ACTIVATE(f, TRUE), S(u)>>
    BY <1>15, Zenon DEF SpareAt!ClaimFirst, SpareAt!When, SpareAt!Offer,
                        ACTIVATE, SpareAt!ACTIVATE, A, f
  <2>2. r = 0
    BY <1>2
  <2> HIDE DEF r
  <2>3. u = v
    BY <1>1, <2>2, Zenon DEF SpareStates
  <2> HIDE DEF u, S
  <2>4. t = <<ACTIVATE(f, TRUE), S(v)>>
    BY <2>1, <2>3
  <2>5. QED  BY <1>14, <2>1, <2>4
<1>16. CASE t \in SpareAt(g)!ClaimBetter
  <2> DEFINE l == SpareAt(g)!ClaimLabel
             v(r) == [x EXCEPT !.repairing_deactivate = r, !.cur_using = f]
  <2>1. /\ A # {} /\ x.prev_using = 0 /\ x.repairing_deactivate = 0 /\ f # x.cur_using
        /\ t = <<l, S(v(x.cur_using))>>
    BY <1>16, Zenon DEF SpareAt!ClaimBetter, SpareAt!TakeBetter, SpareAt!When, SpareAt!Offer, A, f
  <2>2. x.cur_using = 0
    <3>1. SUFFICES ASSUME x.cur_using # 0  PROVE  FALSE
      OBVIOUS
    <3>2. x.cur_using \in Nat /\ f \in Nat /\ f \in Free(x) /\ \A j \in Free(x) : f <= j
      BY <1>1, <1>3, <2>1 DEF SpareStates, Places, Kids
    <3>3. x.cur_using \in Free(x)
      BY <1>2, <2>1, <3>1 DEF Free
    <3>4. f <= x.cur_using /\ x.cur_using <= f
      BY <1>2, <3>1, <3>2, <3>3
    <3>5. QED  BY <2>1, <3>2, <3>4
  <2> HIDE DEF v, S, l
  <2>3. t = <<l, S(v(0))>>
    BY <2>1, <2>2
  <2>4. QED  BY <1>14, <2>1, <2>2, <2>3 DEF v
<1>17. QED
  BY <1>1, <1>6, <1>7, <1>8, <1>9, <1>10, <1>11, <1>12, <1>13, <1>15, <1>16 DEF SpareAt!Trans

-----------------------------------------------------------------------------
(* Who is called for. *)

\* R collects, step by step, the nodes of S and all that these call for.
Collects(R, call, S) ==
  /\ R[0] = S
  /\ \A k \in 1..Cardinality(Nodes) :
       R[k-1] \in SUBSET Nodes => R[k] = R[k-1] \cup UNION {call[n] : n \in R[k-1]}

\* There is such a function.
LEMMA CollectorExists ==
  ASSUME NEW call \in [Nodes -> SUBSET Nodes], NEW S \in SUBSET Nodes
  PROVE  \E F \in [0..Cardinality(Nodes) -> SUBSET Nodes] : Collects(F, call, S)
<1> DEFINE N == Cardinality(Nodes)
           step == [X \in SUBSET Nodes |-> X \cup UNION {call[n] : n \in X}]
<1>1. N \in Nat
  BY NodesAreFinite
<1>2. \A X \in SUBSET Nodes : X \cup UNION {call[n] : n \in X} \in SUBSET Nodes
  OBVIOUS
<1>3. /\ step \in [SUBSET Nodes -> SUBSET Nodes]
      /\ \A X \in SUBSET Nodes : step[X] = X \cup UNION {call[n] : n \in X}
  BY <1>2
<1> HIDE DEF step
<1>4. PICK F : IsChain(F, step, S, N)
  BY <1>1, <1>3, ChainExists
<1>5. /\ F \in [0..N -> SUBSET Nodes] /\ F[0] = S
      /\ \A k \in 1..N : F[k] = step[F[k-1]]
  BY <1>4 DEF IsChain
<1>6. Collects(F, call, S)
  BY <1>3, <1>5 DEF Collects
<1>7. QED  BY <1>5, <1>6

\* In the end it is a set of nodes that call for nobody else, and all but those of
\* S are called for by one of them.
LEMMA Collected ==
  ASSUME NEW call \in [Nodes -> SUBSET Nodes], NEW S \in SUBSET Nodes,
         NEW R, Collects(R, call, S)
  PROVE  LET C == R[Cardinality(Nodes)]
         IN  /\ C \in SUBSET Nodes /\ S \subseteq C
             /\ \A n \in C : call[n] \subseteq C
             /\ \A x \in C \ S : \E y \in C : x \in call[y]
<1> DEFINE N == Cardinality(Nodes)
           step == [X \in SUBSET Nodes |-> X \cup UNION {call[n] : n \in X}]
           G == [k \in 0..N |-> R[k]]
<1>1. N \in Nat
  BY NodesAreFinite
<1>2. \A X \in SUBSET Nodes : X \cup UNION {call[n] : n \in X} \in SUBSET Nodes
  OBVIOUS
<1>3. /\ step \in [SUBSET Nodes -> SUBSET Nodes]
      /\ \A X \in SUBSET Nodes : step[X] = X \cup UNION {call[n] : n \in X}
      /\ \A X \in SUBSET Nodes : X \subseteq step[X]
  BY <1>2
<1> HIDE DEF N, step
<1>4. /\ R[0] = S
      /\ \A k \in 1..N : R[k-1] \in SUBSET Nodes => R[k] = step[R[k-1]]
  BY <1>3 DEF Collects, N
<1>5. \A k \in 0..N : R[k] \in SUBSET Nodes
  <2> DEFINE Bad == {k \in 0..N : R[k] \notin SUBSET Nodes}
  <2>1. SUFFICES ASSUME Bad # {}  PROVE  FALSE
    OBVIOUS
  <2>2. PICK k \in Bad : \A j \in Bad : k <= j
    <3>1. Bad \in SUBSET Nat
      OBVIOUS
    <3> HIDE DEF Bad
    <3>2. QED  BY <2>1, <3>1, LeastNumber
  <2>3. k \in 0..N /\ R[k] \notin SUBSET Nodes /\ k # 0
    BY <1>4, <2>2
  <2>4. k - 1 \in 0..N /\ k \in 1..N /\ ~(k <= k - 1)
    BY <1>1, <2>3
  <2>5. R[k-1] \in SUBSET Nodes
    BY <2>2, <2>4
  <2>6. R[k] = step[R[k-1]]
    BY <1>4, <2>4, <2>5
  <2>7. QED  BY <1>3, <2>3, <2>5, <2>6
<1>6. IsChain(G, step, S, N)
  <2>1. \A k \in 1..N : k \in 0..N /\ k - 1 \in 0..N
    BY <1>1
  <2>2. 0 \in 0..N
    BY <1>1
  <2>3. QED  BY <1>4, <1>5, <2>1, <2>2 DEF IsChain
<1>7. N \in 0..N /\ G[N] = R[N] /\ G[0] = S
  BY <1>1, <1>4
<1> HIDE DEF G
<1>8. ASSUME NEW y, NEW i \in 0..N, y \in G[i]  PROVE  y \in G[N]
  <2> DEFINE Q == {X \in SUBSET Nodes : y \in X}
  <2>1. G[i] \in SUBSET Nodes /\ \A k \in 1..N : G[k] = step[G[k-1]]
    BY <1>6 DEF IsChain
  <2>2. \A k \in 1..N : G[k-1] \in Q => G[k] \in Q
    BY <1>3, <2>1
  <2>3. G[i] \in Q
    BY <1>8, <2>1
  <2> HIDE DEF Q
  <2>4. \A k \in i..N : G[k] \in Q
    BY <1>1, <1>6, <2>2, <2>3, ChainKeeps
  <2>5. G[N] \in Q
    BY <1>1, <2>4
  <2>6. QED  BY <2>5 DEF Q
<1>9. step[G[N]] = G[N]
  BY <1>3, <1>6, ChainStops DEF N
<1>10. G[N] \in SUBSET Nodes
  BY <1>5, <1>7
<1>11. S \subseteq G[N]
  BY <1>1, <1>7, <1>8
<1>12. \A n \in G[N] : call[n] \subseteq G[N]
  BY <1>3, <1>9, <1>10
<1>13. ASSUME NEW x \in G[N] \ S  PROVE  \E y \in G[N] : x \in call[y]
  <2> DEFINE T == {j \in 0..N : x \in R[j]}
  <2>1. T \in SUBSET Nat /\ N \in T
    BY <1>1, <1>7
  <2>2. PICK k \in T : \A j \in T : k <= j
    <3> HIDE DEF T
    <3>1. QED  BY <2>1, LeastNumber
  <2>3. k \in 0..N /\ x \in R[k] /\ k # 0
    BY <1>4, <1>13, <2>2
  <2>4. k - 1 \in 0..N /\ k \in 1..N /\ ~(k <= k - 1)
    BY <1>1, <2>3
  <2>5. x \notin R[k-1] /\ R[k-1] \in SUBSET Nodes
    BY <1>5, <2>2, <2>4
  <2>6. x \in R[k-1] \cup UNION {call[n] : n \in R[k-1]}
    BY <1>3, <1>4, <2>3, <2>4, <2>5
  <2>7. PICK y \in R[k-1] : x \in call[y]
    BY <2>5, <2>6
  <2>8. y \in G[k-1]
    BY <2>4, <2>7 DEF G
  <2>9. QED  BY <1>8, <2>4, <2>7, <2>8
<1>14. QED  BY <1>7, <1>10, <1>11, <1>12, <1>13 DEF N

\* F collects those that are active with the nodes of S.
Activates(F, S) ==
  F = [k \in 0..Cardinality(Nodes) |->
         IF k = 0 THEN S ELSE F[k-1] \cup UNION {ActiveWith(n) : n \in F[k-1]}]

\* The nodes without parents are always active, and so are those active with one
\* that is always active.
LEMMA AlwaysActiveIs ==
  /\ AlwaysActive \in SUBSET Nodes
  /\ \A n \in Nodes : Parents(n) = {} => n \in AlwaysActive
  /\ \A n \in AlwaysActive : ActiveWith(n) \subseteq AlwaysActive
<1> DEFINE S == {n \in Nodes : Parents(n) = {}}
           call == [n \in Nodes |-> ActiveWith(n)]
           R == CHOOSE F : Activates(F, S)
           N == Cardinality(Nodes)
<1>1. N \in Nat /\ S \in SUBSET Nodes
  BY NodesAreFinite
<1>2. \A n \in Nodes : ActiveWith(n) \in SUBSET Nodes
  <2>1. SUFFICES ASSUME NEW n \in Nodes  PROVE  ActiveWith(n) \in SUBSET Nodes
    OBVIOUS
  <2>2. Children(n) \in Seq(Nodes) /\ (tree[n].type # "be" => Children(n) # <<>>)
    BY TreeAssumption
  <2>3. ChildrenOf(n) \in SUBSET Nodes
    BY <2>2 DEF ChildrenOf, Range, Children
  <2>4. tree[n].type # "be" => Children(n)[1] \in Nodes
    BY <2>2
  <2>5. QED  BY <2>3, <2>4 DEF ActiveWith
<1>3. call \in [Nodes -> SUBSET Nodes] /\ \A n \in Nodes : call[n] = ActiveWith(n)
  BY <1>2
<1>4. AlwaysActive = R[N]
  BY Zenon DEF AlwaysActive, Closure, Activates
<1> HIDE DEF S, call, N
<1>5. ASSUME NEW X \in SUBSET Nodes
      PROVE  UNION {call[n] : n \in X} = UNION {ActiveWith(n) : n \in X}
  BY <1>3
<1>6. Activates(R, S)
  <2>1. PICK F \in [0..N -> SUBSET Nodes] : Collects(F, call, S)
    BY <1>1, <1>3, CollectorExists DEF N
  <2>2. /\ F[0] = S
        /\ \A k \in 1..N : F[k-1] \in SUBSET Nodes => F[k] = F[k-1] \cup UNION {call[n] : n \in F[k-1]}
    BY <2>1 DEF Collects, N
  <2>3. \A k \in 0..N : F[k] = IF k = 0 THEN S ELSE F[k-1] \cup UNION {ActiveWith(n) : n \in F[k-1]}
    <3>1. SUFFICES ASSUME NEW k \in 0..N, k # 0
                   PROVE  F[k] = F[k-1] \cup UNION {ActiveWith(n) : n \in F[k-1]}
      BY <2>2
    <3>2. k \in 1..N /\ k - 1 \in 0..N
      BY <1>1, <3>1
    <3>3. F[k-1] \in SUBSET Nodes
      BY <2>1, <3>2
    <3>4. QED  BY <1>5, <2>2, <3>2, <3>3
  <2>4. F = [k \in 0..N |-> F[k]]
    BY <2>1
  <2>5. Activates(F, S)
    BY <2>3, <2>4 DEF Activates, N
  <2>6. QED  BY <2>5, Zenon
<1> HIDE DEF R
<1>7. Collects(R, call, S)
  <2>1. \A k \in 0..N : R[k] = IF k = 0 THEN S ELSE R[k-1] \cup UNION {ActiveWith(n) : n \in R[k-1]}
    BY <1>6 DEF Activates, N
  <2>2. R[0] = S
    <3>1. 0 \in 0..N
      BY <1>1
    <3>2. QED  BY <2>1, <3>1, Zenon
  <2>3. ASSUME NEW k \in 1..N, R[k-1] \in SUBSET Nodes
        PROVE  R[k] = R[k-1] \cup UNION {call[n] : n \in R[k-1]}
    <3>1. k \in 0..N /\ k # 0
      BY <1>1
    <3>2. QED  BY <1>5, <2>1, <2>3, <3>1
  <2>4. QED  BY <2>2, <2>3 DEF Collects, N
<1>8. /\ R[N] \in SUBSET Nodes /\ S \subseteq R[N]
      /\ \A n \in R[N] : call[n] \subseteq R[N]
  BY <1>1, <1>3, <1>7, Collected DEF N
<1>9. QED  BY <1>3, <1>4, <1>8 DEF S

\* F collects those called for, starting from S.
Summons(F, S) ==
  F = [k \in 0..Cardinality(Nodes) |->
         IF k = 0 THEN S ELSE F[k-1] \cup UNION {CallsFor(n) : n \in F[k-1]}]

\* The always-active nodes are called for, and whoever is called for calls for more;
\* everybody else is called for by one of these.
LEMMA CalledForIs ==
  ASSUME \A g \in Spares : node[g] \in SpareStates(g)
  PROVE  /\ CalledFor \in SUBSET Nodes /\ AlwaysActive \subseteq CalledFor
         /\ \A n \in CalledFor : CallsFor(n) \subseteq CalledFor
         /\ \A x \in CalledFor \ AlwaysActive : \E y \in CalledFor : x \in CallsFor(y)
<1> DEFINE S == AlwaysActive
           call == [n \in Nodes |-> CallsFor(n)]
           R == CHOOSE F : Summons(F, S)
           N == Cardinality(Nodes)
<1>1. N \in Nat /\ S \in SUBSET Nodes
  BY NodesAreFinite, AlwaysActiveIs
<1>2. \A n \in Nodes : CallsFor(n) \in SUBSET Nodes
  <2>1. SUFFICES ASSUME NEW n \in Nodes  PROVE  CallsFor(n) \in SUBSET Nodes
    OBVIOUS
  <2>2. Children(n) \in Seq(Nodes)
    BY TreeAssumption
  <2>3. ChildrenOf(n) \in SUBSET Nodes
    BY <2>2 DEF ChildrenOf, Range, Children
  <2>4. CASE tree[n].type = "wsp"
    <3>1. node[n] \in SpareStates(n)
      BY <2>4 DEF Spares, OfType
    <3>2. node[n].cur_using \in 0..Len(Children(n))
      BY <3>1 DEF SpareStates, Places
    <3>3. UsedBy(n) \in SUBSET Nodes
      BY <2>2, <3>2 DEF UsedBy
    <3>4. QED  BY <2>4, <3>3 DEF CallsFor
  <2>5. QED  BY <2>3, <2>4 DEF CallsFor
<1>3. call \in [Nodes -> SUBSET Nodes] /\ \A n \in Nodes : call[n] = CallsFor(n)
  BY <1>2
<1>4. CalledFor = R[N]
  BY Zenon DEF CalledFor, Closure, Summons
<1> HIDE DEF S, call, N
<1>5. ASSUME NEW X \in SUBSET Nodes
      PROVE  UNION {call[n] : n \in X} = UNION {CallsFor(n) : n \in X}
  BY <1>3
<1>6. Summons(R, S)
  <2>1. PICK F \in [0..N -> SUBSET Nodes] : Collects(F, call, S)
    BY <1>1, <1>3, CollectorExists DEF N
  <2>2. /\ F[0] = S
        /\ \A k \in 1..N : F[k-1] \in SUBSET Nodes => F[k] = F[k-1] \cup UNION {call[n] : n \in F[k-1]}
    BY <2>1 DEF Collects, N
  <2>3. \A k \in 0..N : F[k] = IF k = 0 THEN S ELSE F[k-1] \cup UNION {CallsFor(n) : n \in F[k-1]}
    <3>1. SUFFICES ASSUME NEW k \in 0..N, k # 0
                   PROVE  F[k] = F[k-1] \cup UNION {CallsFor(n) : n \in F[k-1]}
      BY <2>2
    <3>2. k \in 1..N /\ k - 1 \in 0..N
      BY <1>1, <3>1
    <3>3. F[k-1] \in SUBSET Nodes
      BY <2>1, <3>2
    <3>4. QED  BY <1>5, <2>2, <3>2, <3>3
  <2>4. F = [k \in 0..N |-> F[k]]
    BY <2>1
  <2>5. Summons(F, S)
    BY <2>3, <2>4 DEF Summons, N
  <2>6. QED  BY <2>5, Zenon
<1> HIDE DEF R
<1>7. Collects(R, call, S)
  <2>1. \A k \in 0..N : R[k] = IF k = 0 THEN S ELSE R[k-1] \cup UNION {CallsFor(n) : n \in R[k-1]}
    BY <1>6 DEF Summons, N
  <2>2. R[0] = S
    <3>1. 0 \in 0..N
      BY <1>1
    <3>2. QED  BY <2>1, <3>1, Zenon
  <2>3. ASSUME NEW k \in 1..N, R[k-1] \in SUBSET Nodes
        PROVE  R[k] = R[k-1] \cup UNION {call[n] : n \in R[k-1]}
    <3>1. k \in 0..N /\ k # 0
      BY <1>1
    <3>2. QED  BY <1>5, <2>1, <2>3, <3>1
  <2>4. QED  BY <2>2, <2>3 DEF Collects, N
<1>8. /\ R[N] \in SUBSET Nodes /\ S \subseteq R[N]
      /\ \A n \in R[N] : call[n] \subseteq R[N]
      /\ \A x \in R[N] \ S : \E y \in R[N] : x \in call[y]
  BY <1>1, <1>3, <1>7, Collected DEF N
<1>9. QED  BY <1>3, <1>4, <1>8 DEF S

\* In a tree without cycles, no set of nodes has a parent of each of its nodes.
LEMMA NoCycle ==
  ASSUME Acyclic, NEW S \in SUBSET Nodes, \A c \in S : \E p \in S : c \in ChildrenOf(p)
  PROVE  S = {}
<1> DEFINE Rooted(T) == \A c \in T : \E p \in T : c \in ChildrenOf(p)
           Sizes == {m \in Nat : \E T \in SUBSET Nodes \ {{}} : Rooted(T) /\ Cardinality(T) = m}
<1>1. \A T \in SUBSET Nodes : IsFiniteSet(T) /\ Cardinality(T) \in Nat
  BY NodesAreFinite, FS_Subset, FS_CardinalityType
<1>2. SUFFICES ASSUME S # {}  PROVE  FALSE
  OBVIOUS
<1>3. Sizes # {} /\ Sizes \in SUBSET Nat
  BY <1>1, <1>2
<1>4. PICK m \in Sizes : \A k \in Sizes : m <= k
  <2> HIDE DEF Sizes
  <2>1. QED  BY <1>3, LeastNumber
<1>5. PICK T \in SUBSET Nodes \ {{}} : Rooted(T) /\ Cardinality(T) = m
  BY <1>4
<1>6. PICK n \in T : ChildrenOf(n) \cap T = {}
  BY <1>5 DEF Acyclic
<1> DEFINE U == T \ {n}
<1>7. Rooted(U) /\ U \in SUBSET Nodes
  BY <1>5, <1>6
<1>8. U # {}
  <2>1. PICK p \in T : n \in ChildrenOf(p)
    BY <1>5, <1>6
  <2>2. p # n
    BY <1>6, <2>1
  <2>3. QED  BY <2>1, <2>2
<1>9. Cardinality(U) = m - 1 /\ m \in Nat
  BY <1>1, <1>4, <1>5, <1>6, FS_RemoveElement
<1>10. m - 1 \in Sizes
  BY <1>1, <1>7, <1>8, <1>9
<1>11. QED  BY <1>4, <1>9, <1>10

-----------------------------------------------------------------------------
(* Who is active, and by whose command. *)

\* Node n in state x has been activated.
Runs(n, x) ==
  IF tree[n].type = "voting" THEN x.running
  ELSE IF tree[n].type = "wsp" THEN x.activated ELSE x.isactive

\* The children that gate g in state x keeps active.
Orders(g, x) ==
  IF tree[g].type = "voting" THEN x.activated
  ELSE IF tree[g].type = "wsp" THEN Held(g, x) ELSE {}

\* A step with label l to state y does what node n is told,
Heeds(n, l, y) ==
  Runs(n, y) <=> l = ACTIVATE(0, FALSE) \/ (l # DEACTIVATE(0, FALSE) /\ Runs(n, node[n]))

\* and keeps those children active that gate g told so.
Directs(g, l, y) ==
  \A i \in Kids(g) :
    i \in Orders(g, y) <=> l = ACTIVATE(i, TRUE)
                             \/ (l # DEACTIVATE(i, TRUE) /\ i \in Orders(g, node[g]))

\* No command at all.
NoCommand(l) == l[1] \notin {"ACTIVATE", "DEACTIVATE"}

\* Such a label is none of these.
LEMMA NoCommandIs ==
  ASSUME NEW l, NoCommand(l)
  PROVE  \A i : /\ l # ACTIVATE(i, TRUE) /\ l # DEACTIVATE(i, TRUE)
                /\ l # ACTIVATE(i, FALSE) /\ l # DEACTIVATE(i, FALSE)
BY CommandsDiffer, Zenon DEF NoCommand

\* A command names a child or oneself, and says what to do.
LEMMA CommandsApart ==
  /\ \A i, j : /\ ACTIVATE(i, TRUE) # DEACTIVATE(j, TRUE) /\ ACTIVATE(i, TRUE) # DEACTIVATE(j, FALSE)
               /\ ACTIVATE(i, FALSE) # DEACTIVATE(j, TRUE) /\ ACTIVATE(i, FALSE) # DEACTIVATE(j, FALSE)
               /\ ACTIVATE(i, TRUE) # ACTIVATE(j, FALSE) /\ DEACTIVATE(i, TRUE) # DEACTIVATE(j, FALSE)
  /\ \A i, j : /\ ACTIVATE(i, TRUE) = ACTIVATE(j, TRUE) => i = j
               /\ DEACTIVATE(i, TRUE) = DEACTIVATE(j, TRUE) => i = j
               /\ ACTIVATE(i, FALSE) = ACTIVATE(j, FALSE) => i = j
               /\ DEACTIVATE(i, FALSE) = DEACTIVATE(j, FALSE) => i = j
<1>1. \A i, j : /\ ACTIVATE(i, TRUE) # DEACTIVATE(j, TRUE) /\ ACTIVATE(i, TRUE) # DEACTIVATE(j, FALSE)
                /\ ACTIVATE(i, FALSE) # DEACTIVATE(j, TRUE) /\ ACTIVATE(i, FALSE) # DEACTIVATE(j, FALSE)
  BY DEF ACTIVATE, DEACTIVATE
<1>2. QED  BY <1>1, CommandsDiffer, Zenon

\* A voting gate does what it is told, and tells its children one by one.
LEMMA VotingHeeds ==
  ASSUME NEW g \in Votings, Good(g), NEW t \in VotingAt(g)!Trans, Works(g, t[2])
  PROVE  Heeds(g, t[1], t[2]) /\ Directs(g, t[1], t[2])
<1> DEFINE x == node[g]
           Goal(l, y) == Heeds(g, l, y) /\ Directs(g, l, y)
<1>1. /\ x \in VotingStates(g) /\ x.mode = "live" /\ tree[g].type = "voting" /\ 0 \notin Kids(g)
      /\ x.running \in BOOLEAN /\ x.activated \in SUBSET Kids(g)
  <2>1. x \in VotingStates(g) /\ x.mode = "live" /\ tree[g].type = "voting"
    BY VotingIs DEF Good, Typed, Working, Works
  <2>2. QED  BY <2>1 DEF VotingStates, Kids
<1>2. \A y : Works(g, y) <=> y.mode = "live"
  BY <1>1 DEF Works
<1>3. \A y : Runs(g, y) = y.running /\ Orders(g, y) = y.activated
  BY <1>1 DEF Runs, Orders
<1>4. ASSUME NEW l, NoCommand(l), NEW y, y.running = x.running, y.activated = x.activated
      PROVE  Goal(l, y)
  BY <1>3, <1>4, NoCommandIs, Zenon DEF Heeds, Directs
<1>5. CASE t \in VotingAt(g)!ChildFails
  <2> DEFINE A(i) == VotingAt(g)!AfterFail(i)
  <2>1. PICK i \in Kids(g) : t = <<FAIL(i), A(i)>>
    BY <1>5, Zenon DEF VotingAt!ChildFails, VotingAt!Children, Kids, FAIL, VotingAt!FAIL
  <2>2. A(i).running = x.running /\ A(i).activated = x.activated
    BY <1>1 DEF VotingAt!AfterFail, VotingStates
  <2>3. NoCommand(FAIL(i))
    BY Heads DEF NoCommand
  <2> HIDE DEF A
  <2>4. Goal(FAIL(i), A(i))
    BY <1>4, <2>2, <2>3
  <2> HIDE DEF Goal
  <2>5. Goal(t[1], t[2])
    BY <2>1, <2>4
  <2>6. QED  BY <2>5 DEF Goal
<1>6. CASE t \in VotingAt(g)!ChildOnline
  <2> DEFINE A(i) == VotingAt(g)!AfterOnline(i)
  <2>1. PICK i \in Kids(g) : t = <<ONLINE(i), A(i)>>
    BY <1>6, Zenon DEF VotingAt!ChildOnline, VotingAt!Children, Kids, ONLINE, VotingAt!ONLINE
  <2>2. A(i).running = x.running /\ A(i).activated = x.activated
    BY <1>1 DEF VotingAt!AfterOnline, VotingAt!Impossible, VotingStates
  <2>3. NoCommand(ONLINE(i))
    BY Heads DEF NoCommand
  <2> HIDE DEF A
  <2>4. Goal(ONLINE(i), A(i))
    BY <1>4, <2>2, <2>3
  <2> HIDE DEF Goal
  <2>5. Goal(t[1], t[2])
    BY <2>1, <2>4
  <2>6. QED  BY <2>5 DEF Goal
<1>7. CASE t \in VotingAt(g)!AnnounceFail
  <2> DEFINE y == [x EXCEPT !.done = TRUE, !.emit_fail = FALSE]
  <2>1. t = <<FAIL(0), y>>
    BY <1>7, Zenon DEF VotingAt!AnnounceFail, VotingAt!Offer, FAIL, VotingAt!FAIL
  <2>2. y.running = x.running /\ y.activated = x.activated
    BY <1>1, Zenon DEF VotingStates
  <2>3. NoCommand(FAIL(0))
    BY Heads DEF NoCommand
  <2> HIDE DEF y
  <2>4. Goal(FAIL(0), y)
    BY <1>4, <2>2, <2>3
  <2> HIDE DEF Goal
  <2>5. Goal(t[1], t[2])
    BY <2>1, <2>4
  <2>6. QED  BY <2>5 DEF Goal
<1>8. CASE t \in VotingAt(g)!AnnounceOnline
  <2> DEFINE y == [x EXCEPT !.done = FALSE]
  <2>1. t = <<ONLINE(0), y>>
    BY <1>8, Zenon DEF VotingAt!AnnounceOnline, VotingAt!Offer, ONLINE, VotingAt!ONLINE
  <2>2. y.running = x.running /\ y.activated = x.activated
    BY <1>1, Zenon DEF VotingStates
  <2>3. NoCommand(ONLINE(0))
    BY Heads DEF NoCommand
  <2> HIDE DEF y
  <2>4. Goal(ONLINE(0), y)
    BY <1>4, <2>2, <2>3
  <2> HIDE DEF Goal
  <2>5. Goal(t[1], t[2])
    BY <2>1, <2>4
  <2>6. QED  BY <2>5 DEF Goal
<1>9. CASE t \in VotingAt(g)!Activated
  <2> DEFINE y == [x EXCEPT !.running = TRUE]
  <2>1. t = <<ACTIVATE(0, FALSE), y>>
    BY <1>9, Zenon DEF VotingAt!Activated, VotingAt!Offer, ACTIVATE, VotingAt!ACTIVATE
  <2>2. y.running /\ y.activated = x.activated
    BY <1>1, Zenon DEF VotingStates
  <2> HIDE DEF y
  <2>3. Goal(ACTIVATE(0, FALSE), y)
    BY <1>3, <2>2, CommandsApart, Zenon DEF Heeds, Directs
  <2> HIDE DEF Goal
  <2>4. t[1] = ACTIVATE(0, FALSE) /\ t[2] = y
    BY <2>1
  <2>5. Goal(t[1], t[2])
    BY <2>3, <2>4
  <2>6. QED  BY <2>5 DEF Goal
<1>10. CASE t \in VotingAt(g)!Deactivated
  <2> DEFINE r == [x EXCEPT !.running = FALSE]
             z == [x EXCEPT !.mode = "impossible"]
             y == IF g \in AlwaysActive THEN z ELSE r
  <2>1. t = <<DEACTIVATE(0, FALSE), y>>
    BY <1>10, Zenon DEF VotingAt!Deactivated, VotingAt!Impossible, DEACTIVATE, VotingAt!DEACTIVATE
  <2>2. z.mode = "impossible" /\ y \in {r, z}
    BY <1>1, Zenon DEF VotingStates
  <2>3. ~r.running /\ r.activated = x.activated
    BY <1>1, Zenon DEF VotingStates
  <2> HIDE DEF r, z, y
  <2>4. t[1] = DEACTIVATE(0, FALSE) /\ t[2] = y
    BY <2>1
  <2>5. y = r
    BY <1>2, <2>2, <2>4
  <2>6. Goal(DEACTIVATE(0, FALSE), r)
    BY <1>3, <2>3, CommandsApart, Zenon DEF Heeds, Directs
  <2> HIDE DEF Goal
  <2>7. Goal(t[1], t[2])
    BY <2>4, <2>5, <2>6
  <2>8. QED  BY <2>7 DEF Goal
<1>11. CASE t \in VotingAt(g)!ActivateChild
  <2> DEFINE y(i) == [x EXCEPT !.activated = @ \cup {i}]
  <2>1. PICK i : t = <<ACTIVATE(i, TRUE), y(i)>>
    BY <1>11, Zenon DEF VotingAt!ActivateChild, ACTIVATE, VotingAt!ACTIVATE
  <2>2. y(i).running = x.running /\ y(i).activated = x.activated \cup {i}
    BY <1>1, Zenon DEF VotingStates
  <2> HIDE DEF y
  <2>3. \A j : j \in y(i).activated <=> j \in x.activated \/ j = i
    BY <2>2
  <2>4. Heeds(g, ACTIVATE(i, TRUE), y(i))
    BY <1>3, <2>2, CommandsApart, Zenon DEF Heeds
  <2>5. Directs(g, ACTIVATE(i, TRUE), y(i))
    BY <1>3, <2>3, CommandsApart, Zenon DEF Directs
  <2>6. t[1] = ACTIVATE(i, TRUE) /\ t[2] = y(i)
    BY <2>1
  <2>7. QED  BY <2>4, <2>5, <2>6
<1>12. CASE t \in VotingAt(g)!DeactivateChild
  <2> DEFINE y(i) == [x EXCEPT !.activated = @ \ {i}]
  <2>1. PICK i : t = <<DEACTIVATE(i, TRUE), y(i)>>
    BY <1>12, Zenon DEF VotingAt!DeactivateChild, DEACTIVATE, VotingAt!DEACTIVATE
  <2>2. y(i).running = x.running /\ y(i).activated = x.activated \ {i}
    BY <1>1, Zenon DEF VotingStates
  <2> HIDE DEF y
  <2>3. \A j : j \in y(i).activated <=> j \in x.activated /\ j # i
    BY <2>2
  <2>4. Heeds(g, DEACTIVATE(i, TRUE), y(i))
    BY <1>3, <2>2, CommandsApart, Zenon DEF Heeds
  <2>5. Directs(g, DEACTIVATE(i, TRUE), y(i))
    <3>1. SUFFICES ASSUME NEW j \in Kids(g)
          PROVE  j \in y(i).activated <=> DEACTIVATE(i, TRUE) = ACTIVATE(j, TRUE)
                      \/ (DEACTIVATE(i, TRUE) # DEACTIVATE(j, TRUE) /\ j \in x.activated)
      BY <1>3 DEF Directs
    <3>2. /\ DEACTIVATE(i, TRUE) # ACTIVATE(j, TRUE)
          /\ DEACTIVATE(i, TRUE) = DEACTIVATE(j, TRUE) <=> j = i
      BY CommandsApart, Zenon
    <3>3. QED  BY <2>3, <3>2, Zenon
  <2>6. t[1] = DEACTIVATE(i, TRUE) /\ t[2] = y(i)
    BY <2>1
  <2>7. QED  BY <2>4, <2>5, <2>6
<1>13. \/ t \in VotingAt(g)!ChildFails \/ t \in VotingAt(g)!AnnounceFail
       \/ t \in VotingAt(g)!ChildOnline \/ t \in VotingAt(g)!AnnounceOnline
       \/ t \in VotingAt(g)!Activated \/ t \in VotingAt(g)!Deactivated
       \/ t \in VotingAt(g)!ActivateChild \/ t \in VotingAt(g)!DeactivateChild
  BY <1>1 DEF VotingAt!Trans
<1>14. QED
  BY <1>5, <1>6, <1>7, <1>8, <1>9, <1>10, <1>11, <1>12, <1>13

\* A voting gate that runs goes on until all its children do; one that does not goes
\* on until none does.
LEMMA VotingOffers ==
  ASSUME NEW g \in Votings, Good(g)
  PROVE  /\ node[g].running /\ node[g].activated # Kids(g) =>
              \E i \in Kids(g) : Targets(g, ACTIVATE(i, TRUE)) # {}
         /\ ~node[g].running /\ node[g].activated # {} =>
              \E i \in Kids(g) : Targets(g, DEACTIVATE(i, TRUE)) # {}
<1> DEFINE x == node[g]
<1>1. /\ x.mode = "live" /\ x.activated \in SUBSET Kids(g) /\ Trans(g) = VotingAt(g)!Trans
      /\ Len(Children(g)) \in Nat
  <2>1. x \in VotingStates(g) /\ x.mode = "live" /\ tree[g].type = "voting"
    BY VotingIs DEF Good, Typed, Working, Works
  <2>2. QED  BY <2>1, TransOf, VotingIs DEF VotingStates
<1>2. VotingAt(g)!ActivateChild \cup VotingAt(g)!DeactivateChild \subseteq Trans(g)
  BY <1>1 DEF VotingAt!Trans
<1>0. ASSUME NEW l, NEW y, <<l, y>> \in Trans(g)  PROVE  Targets(g, l) # {}
  BY <1>0 DEF Targets
<1>3. ASSUME x.running, x.activated # Kids(g)
      PROVE  \E i \in Kids(g) : Targets(g, ACTIVATE(i, TRUE)) # {}
  <2> DEFINE M == Kids(g) \ x.activated
  <2>1. M # {} /\ M \in SUBSET Nat
    <3>1. Kids(g) \in SUBSET Nat
      BY <1>1 DEF Kids
    <3>2. QED  BY <1>1, <1>3, <3>1
  <2>2. PICK i \in M : \A j \in M : i <= j
    <3> HIDE DEF M
    <3>1. QED  BY <2>1, LeastNumber
  <2>3. i \in VotingAt(g)!ToActivate
    BY <1>1, <2>2 DEF VotingAt!ToActivate, VotingAt!Children, Kids
  <2>4. \E y : <<ACTIVATE(i, TRUE), y>> \in VotingAt(g)!ActivateChild
    BY <1>3, <2>3, Zenon DEF VotingAt!ActivateChild, ACTIVATE, VotingAt!ACTIVATE
  <2>5. Targets(g, ACTIVATE(i, TRUE)) # {}
    <3>1. PICK y : <<ACTIVATE(i, TRUE), y>> \in Trans(g)
      BY <1>2, <2>4
    <3>2. QED  BY <1>0, <3>1
  <2>6. QED  BY <2>2, <2>5
<1>4. ASSUME ~x.running, x.activated # {}
      PROVE  \E i \in Kids(g) : Targets(g, DEACTIVATE(i, TRUE)) # {}
  <2> DEFINE L == Len(Children(g))
             M == {L - j : j \in x.activated}
  <2>1. M # {} /\ M \in SUBSET Nat
    BY <1>1, <1>4 DEF Kids
  <2>2. PICK m \in M : \A k \in M : m <= k
    <3> HIDE DEF M
    <3>1. QED  BY <2>1, LeastNumber
  <2>3. PICK i \in x.activated : m = L - i
    BY <2>2
  <2>4. \A j \in x.activated : L - i <= L - j
    BY <2>2, <2>3
  <2>5. \A j \in x.activated : j <= i
    BY <1>1, <2>4 DEF Kids
  <2>6. i \in VotingAt(g)!ToDeactivate
    BY <2>5 DEF VotingAt!ToDeactivate
  <2>7. \E y : <<DEACTIVATE(i, TRUE), y>> \in VotingAt(g)!DeactivateChild
    BY <1>4, <2>6, Zenon DEF VotingAt!DeactivateChild, DEACTIVATE, VotingAt!DEACTIVATE
  <2>8. Targets(g, DEACTIVATE(i, TRUE)) # {}
    <3>1. PICK y : <<DEACTIVATE(i, TRUE), y>> \in Trans(g)
      BY <1>2, <2>7
    <3>2. QED  BY <1>0, <3>1
  <2>9. QED  BY <1>1, <2>8
<1>5. QED  BY <1>3, <1>4

\* add_transition leaves it to the handlers whether an event is active.
LEMMA SettlesActive ==
  ASSUME NEW b, NEW u, "isactive" \in DOMAIN u
  PROVE  EventAt(b)!Settle(u).isactive = u.isactive
BY Zenon DEF EventAt!Settle

\* So a rate leaves a basic event as active as it was,
LEMMA EventRateHeeds ==
  ASSUME NEW b \in BasicEvents, Good(b), NEW t \in EventAt(b)!Trans, t[1] \in Rated(b)
  PROVE  t[2].isactive = node[b].isactive
<1> DEFINE x == node[b]
           S(v) == EventAt(b)!Settle(v)
<1>1. x \in EventStates /\ "isactive" \in DOMAIN x
  <2>1. x \in EventStates
    BY EventIs DEF Good, Typed
  <2>2. QED  BY <2>1 DEF EventStates
<1>2. ASSUME NEW guard, NEW labels, NEW u, "isactive" \in DOMAIN u, u.isactive = x.isactive,
             t \in EventAt(b)!When(guard, labels, u)
      PROVE  t[2].isactive = x.isactive
  <2>1. PICK l : t = <<l, S(u)>>
    BY <1>2, Zenon DEF EventAt!When
  <2>2. S(u).isactive = u.isactive
    BY <1>2, SettlesActive
  <2> HIDE DEF S
  <2>3. QED  BY <1>2, <2>1, <2>2
<1>3. CASE t \in EventAt(b)!Degrade
  <2> DEFINE F == EventAt(b)!Failing
             f == x.emit_fail \/ F
             s == IF F THEN "DOWN" ELSE x.status
             r == IF F /\ b \in Repairable /\ TRUE /\ x.repair_status = "NONE"
                  THEN EventAt(b)!AskRepair ELSE x.repair_status
             i == x.emit_inspect \/ x.phase = tree[b].interval
             u == [x EXCEPT !.can_definitely_fail = TRUE, !.emit_fail = f, !.status = s,
                            !.repair_status = r, !.emit_inspect = i, !.phase = x.phase + 1]
  <2>1. EventAt(b)!Degrade = EventAt(b)!When(EventAt(b)!can_failsig, EventAt(b)!Rates(1, 2), u)
    BY Zenon DEF EventAt!Degrade
  <2> HIDE DEF f, s, r, i
  <2>2. "isactive" \in DOMAIN u /\ u.isactive = x.isactive
    BY <1>1, Zenon
  <2> HIDE DEF u
  <2>3. QED  BY <1>2, <1>3, <2>1, <2>2
<1>4. CASE t \in EventAt(b)!Restore
  <2> DEFINE u == [x EXCEPT !.can_definitely_fail = TRUE, !.phase = 1]
  <2>1. EventAt(b)!Restore = EventAt(b)!When(EventAt(b)!can_failsig, EventAt(b)!Rates(3, 4), u)
    BY Zenon DEF EventAt!Restore
  <2>2. "isactive" \in DOMAIN u /\ u.isactive = x.isactive
    BY <1>1, Zenon
  <2> HIDE DEF u
  <2>3. QED  BY <1>2, <1>4, <2>1, <2>2
<1>5. CASE t \in EventAt(b)!FailSafe
  <2> DEFINE u == [x EXCEPT !.status = "FAILSAFE"]
  <2>1. \E guard, labels : t \in EventAt(b)!When(guard, labels, u)
    BY <1>5, Zenon DEF EventAt!FailSafe
  <2>2. "isactive" \in DOMAIN u /\ u.isactive = x.isactive
    BY <1>1, Zenon
  <2> HIDE DEF u
  <2>3. QED  BY <1>2, <2>1, <2>2
<1>6. CASE t \in EventAt(b)!Repaired
  <2> DEFINE o == x.emit_online \/ x.status = "DOWN"
             s == IF x.emit_inspect THEN "IMPOSSIBLE"
                  ELSE IF x.status = "FAILSAFE" THEN x.status ELSE "UP"
             u == [x EXCEPT !.phase = 1, !.repair_status = "DONE", !.emit_online = o, !.status = s]
  <2>1. EventAt(b)!Repaired =
          EventAt(b)!When(x.repair_status = "BUSY", {EventAt(b)!RATE_REPAIR}, u)
    BY Zenon DEF EventAt!Repaired
  <2> HIDE DEF o, s
  <2>2. "isactive" \in DOMAIN u /\ u.isactive = x.isactive
    BY <1>1, Zenon
  <2> HIDE DEF u
  <2>3. QED  BY <1>2, <1>6, <2>1, <2>2
<1>7. QED  BY <1>3, <1>4, <1>5, <1>6, RatesOfEvent

\* and it does what it is told.  If it is always active, nobody deactivates it.
LEMMA EventHeeds ==
  ASSUME NEW b \in BasicEvents, Good(b), NEW t \in EventAt(b)!Trans, RuleLabel(b, t[1]),
         Works(b, t[2])
  PROVE  /\ Heeds(b, t[1], t[2])
         /\ b \in AlwaysActive => t[1] # DEACTIVATE(0, FALSE)
<1> DEFINE x == node[b]
           S(v) == EventAt(b)!Settle(v)
           Goal(l, y) == /\ Heeds(b, l, y)
                         /\ b \in AlwaysActive => l # DEACTIVATE(0, FALSE)
<1>1. x \in EventStates /\ tree[b].type = "be" /\ "isactive" \in DOMAIN x
  <2>1. x \in EventStates /\ tree[b].type = "be"
    BY EventIs DEF Good, Typed
  <2>2. QED  BY <2>1 DEF EventStates
<1>2. t[2].status \notin {"IMPOSSIBLE", "TERMINATED"}
  BY <1>1 DEF Works
<1>3. \A y : Runs(b, y) = y.isactive
  BY <1>1 DEF Runs
<1>4. ASSUME NEW l, NoCommand(l), NEW u, "isactive" \in DOMAIN u, u.isactive = x.isactive,
             t = <<l, S(u)>>
      PROVE  Goal(t[1], t[2])
  <2>1. S(u).isactive = u.isactive
    BY <1>4, SettlesActive
  <2> HIDE DEF S
  <2>2. t[1] = l /\ t[2].isactive = x.isactive
    BY <1>4, <2>1
  <2>3. QED  BY <1>3, <1>4, <2>2, NoCommandIs, Zenon DEF Heeds
<1>5. CASE t \in EventAt(b)!AnnounceFail
  <2> DEFINE u == [x EXCEPT !.emit_fail = FALSE]
  <2>1. t = <<FAIL(0), S(u)>>
    BY <1>5, Zenon DEF EventAt!AnnounceFail, EventAt!When, FAIL, EventAt!FAIL
  <2>2. "isactive" \in DOMAIN u /\ u.isactive = x.isactive
    BY <1>1, Zenon
  <2>3. NoCommand(FAIL(0))
    BY Heads DEF NoCommand
  <2> HIDE DEF u, S, Goal
  <2>4. Goal(t[1], t[2])
    BY <1>4, <2>1, <2>2, <2>3
  <2>5. QED  BY <2>4 DEF Goal
<1>6. CASE t \in EventAt(b)!AnnounceOnline
  <2> DEFINE u == [x EXCEPT !.emit_online = FALSE]
  <2>1. t = <<ONLINE(0), S(u)>>
    BY <1>6, Zenon DEF EventAt!AnnounceOnline, EventAt!When, ONLINE, EventAt!ONLINE
  <2>2. "isactive" \in DOMAIN u /\ u.isactive = x.isactive
    BY <1>1, Zenon
  <2>3. NoCommand(ONLINE(0))
    BY Heads DEF NoCommand
  <2> HIDE DEF u, S, Goal
  <2>4. Goal(t[1], t[2])
    BY <1>4, <2>1, <2>2, <2>3
  <2>5. QED  BY <2>4 DEF Goal
<1>7. CASE t \in EventAt(b)!AnnounceInspect
  <2> DEFINE u == [x EXCEPT !.emit_inspect = FALSE]
  <2>1. t = <<INSPECT(0), S(u)>>
    BY <1>7, Zenon DEF EventAt!AnnounceInspect, EventAt!When, INSPECT, EventAt!INSPECT
  <2>2. "isactive" \in DOMAIN u /\ u.isactive = x.isactive
    BY <1>1, Zenon
  <2>3. NoCommand(INSPECT(0))
    BY Heads DEF NoCommand
  <2> HIDE DEF u, S, Goal
  <2>4. Goal(t[1], t[2])
    BY <1>4, <2>1, <2>2, <2>3
  <2>5. QED  BY <2>4 DEF Goal
<1>8. CASE t \in EventAt(b)!Activated
  <2> DEFINE u == [x EXCEPT !.isactive = TRUE]
  <2>1. t = <<ACTIVATE(0, FALSE), S(u)>>
    BY <1>8, Zenon DEF EventAt!Activated, EventAt!When, ACTIVATE, EventAt!ACTIVATE
  <2>2. "isactive" \in DOMAIN u /\ u.isactive
    BY <1>1, Zenon
  <2>3. S(u).isactive
    BY <2>2, SettlesActive
  <2> HIDE DEF u, S
  <2>4. t[1] = ACTIVATE(0, FALSE) /\ t[2].isactive
    BY <2>1, <2>3
  <2>5. QED  BY <1>3, <2>4, CommandsApart, Zenon DEF Heeds
<1>9. CASE t \in EventAt(b)!Deactivated
  <2> DEFINE z == [x EXCEPT !.status = "IMPOSSIBLE"]
             r == [x EXCEPT !.isactive = FALSE]
             w == IF b \in AlwaysActive THEN z ELSE r
  <2>1. t = <<DEACTIVATE(0, FALSE), S(w)>>
    BY <1>9, Zenon DEF EventAt!Deactivated, EventAt!When, EventAt!Impossible, DEACTIVATE,
                       EventAt!DEACTIVATE
  <2>2. z \in EventStates /\ z.status = "IMPOSSIBLE"
    BY <1>1 DEF EventStates, Statuses
  <2>3. "isactive" \in DOMAIN r /\ ~r.isactive
    BY <1>1, Zenon
  <2> HIDE DEF z
  <2>4. S(z).status = "IMPOSSIBLE"
    BY <2>2, EventLands
  <2>5. S(r).isactive = r.isactive
    <3> HIDE DEF r
    <3>1. QED  BY <2>3, SettlesActive
  <2>6. (b \in AlwaysActive => w = z) /\ (b \notin AlwaysActive => w = r)
    BY Zenon
  <2> HIDE DEF S, w, r
  <2>7. b \notin AlwaysActive
    BY <1>2, <2>1, <2>4, <2>6
  <2>8. t[1] = DEACTIVATE(0, FALSE) /\ ~t[2].isactive
    BY <2>1, <2>3, <2>5, <2>6, <2>7
  <2>9. QED  BY <1>3, <2>7, <2>8, CommandsApart, Zenon DEF Heeds
<1>10. QED  BY <1>5, <1>6, <1>7, <1>8, <1>9, RuleOfEvent

\* A spare gate that is not activated keeps no child in use, unless to release it.
Idle(x) == x.activated \/ x.cur_using \in {0, x.prev_using}

\* A spare gate that is not always active does what it is told, and claims no child
\* while it is not activated.
LEMMA SpareHeeds ==
  ASSUME NEW g, FitSpare(g), g \notin AlwaysActive,
         NEW t \in SpareAt(g)!Trans, Works(g, t[2])
  PROVE  Heeds(g, t[1], t[2]) /\ (Idle(node[g]) => Idle(t[2]))
<1> DEFINE x == node[g]
           A == SpareAt(g)!avail
           f == SpareAt(g)!First(A)
           Keen(y) == Idle(x) => Idle(y)
           Goal(l, y) == y.mode = "live" => Heeds(g, l, y) /\ Keen(y)
<1>1. /\ x \in SpareStates(g) /\ x.mode = "live" /\ tree[g].type = "wsp" /\ 0 \notin Kids(g)
      /\ g \in Spares
  BY FitIsReady DEF FitSpare
<1>2. t[2].mode = "live"
  BY <1>1 DEF Works
<1>3. \A v : SpareAt(g)!Settle(v) = v
  BY Zenon DEF SpareAt!Settle
<1>4. \A y : Runs(g, y) = y.activated
  BY <1>1 DEF Runs
<1> SUFFICES Goal(t[1], t[2])
  BY <1>2
<1>5. ASSUME NEW l, l # ACTIVATE(0, FALSE), l # DEACTIVATE(0, FALSE),
             NEW v, v.mode = "live" => v.activated = x.activated /\ Keen(v), t = <<l, v>>
      PROVE  Goal(t[1], t[2])
  <2>1. Goal(l, v)
    BY <1>4, <1>5, Zenon DEF Heeds
  <2> HIDE DEF Goal
  <2>2. QED  BY <1>5, <2>1
<1>6. ASSUME NEW l, NoCommand(l), NEW v, v.activated = x.activated, Keen(v), t = <<l, v>>
      PROVE  Goal(t[1], t[2])
  BY <1>5, <1>6, NoCommandIs
<1>7. Keen(x) /\ \A v : v.activated => Keen(v)
  BY DEF Idle
<1>8. CASE t \in SpareAt(g)!ChildFails
  <2> DEFINE p(i) == IF i = x.cur_using THEN i ELSE x.prev_using
             v(i) == [x EXCEPT !.unfailed = x.unfailed \ {i}, !.prev_using = p(i)]
  <2>1. PICK i \in Kids(g) : t = <<FAIL(i), v(i)>>
    BY <1>3, <1>8, Zenon DEF SpareAt!ChildFails, SpareAt!Step, SpareAt!Children, Kids,
                       SpareAt!AfterFail, FAIL, SpareAt!FAIL
  <2>2. /\ v(i).activated = x.activated /\ v(i).cur_using = x.cur_using
        /\ v(i).prev_using = p(i)
    BY <1>1, Zenon DEF SpareStates
  <2> HIDE DEF v
  <2>3. Keen(v(i))
    BY <2>2 DEF Idle
  <2>4. NoCommand(FAIL(i))
    BY Heads DEF NoCommand
  <2> HIDE DEF Keen, Goal
  <2>5. QED  BY <1>6, <2>1, <2>2, <2>3, <2>4
<1>9. CASE t \in SpareAt(g)!ChildOnline \cup SpareAt(g)!AnnounceOnline
  <2> DEFINE v(u) == [x EXCEPT !.unfailed = u]
             w == [x EXCEPT !.done = FALSE]
             z == [x EXCEPT !.mode = "impossible"]
  <2>1. \E i, u : t \in {<<ONLINE(i), v(u)>>, <<ONLINE(i), w>>, <<ONLINE(i), z>>}
    <3>1. CASE t \in SpareAt(g)!ChildOnline
      <4> DEFINE y(i) == IF ChildrenOf(g) \cap Repairable # {}
                         THEN v(x.unfailed \cup {i}) ELSE z
      <4>1. PICK i : t = <<ONLINE(i), SpareAt(g)!Settle(y(i))>>
        BY <3>1, Zenon DEF SpareAt!ChildOnline, SpareAt!Step, SpareAt!Impossible,
                           ONLINE, SpareAt!ONLINE
      <4>2. y(i) \in {v(x.unfailed \cup {i}), z}
        BY Zenon
      <4> HIDE DEF v, y, z
      <4>3. t = <<ONLINE(i), y(i)>>
        BY <1>3, <4>1
      <4>4. QED  BY <4>2, <4>3
    <3>2. CASE t \in SpareAt(g)!AnnounceOnline
      <4>1. t = <<ONLINE(0), w>>
        BY <1>3, <3>2, Zenon DEF SpareAt!AnnounceOnline, SpareAt!When, SpareAt!Offer,
                                 ONLINE, SpareAt!ONLINE
      <4> HIDE DEF v, w, z
      <4>2. QED  BY <4>1
    <3>3. QED  BY <1>9, <3>1, <3>2
  <2>2. PICK i, u : t \in {<<ONLINE(i), v(u)>>, <<ONLINE(i), w>>, <<ONLINE(i), z>>}
    BY <2>1
  <2>3. /\ \A y \in {v(u), w, z} : /\ y.activated = x.activated /\ y.cur_using = x.cur_using
                                   /\ y.prev_using = x.prev_using
    BY <1>1 DEF SpareStates
  <2> HIDE DEF v, w, z
  <2>4. \A y \in {v(u), w, z} : y.activated = x.activated /\ Keen(y)
    BY <2>3 DEF Idle
  <2>5. NoCommand(ONLINE(i))
    BY Heads DEF NoCommand
  <2>6. PICK y \in {v(u), w, z} : t = <<ONLINE(i), y>>
    BY <2>2
  <2> HIDE DEF Keen, Goal
  <2>7. QED  BY <1>6, <2>4, <2>5, <2>6
<1>10. CASE t \in SpareAt(g)!Activated
  <2> DEFINE v == [x EXCEPT !.activated = TRUE]
  <2>1. t = <<ACTIVATE(0, FALSE), v>>
    BY <1>3, <1>10, Zenon DEF SpareAt!Activated, SpareAt!Step, ACTIVATE, SpareAt!ACTIVATE
  <2>2. v.activated
    BY <1>1, Zenon DEF SpareStates
  <2> HIDE DEF v
  <2>3. Goal(ACTIVATE(0, FALSE), v)
    BY <1>4, <1>7, <2>2, Zenon DEF Heeds
  <2> HIDE DEF Goal
  <2>4. t[1] = ACTIVATE(0, FALSE) /\ t[2] = v
    BY <2>1
  <2>5. QED  BY <2>3, <2>4
<1>11. CASE t \in SpareAt(g)!Deactivated
  <2> DEFINE v == [x EXCEPT !.activated = FALSE, !.prev_using = x.cur_using]
  <2>1. t = <<DEACTIVATE(0, FALSE), v>>
    BY <1>3, <1>11, Zenon DEF SpareAt!Deactivated, SpareAt!Step, DEACTIVATE, SpareAt!DEACTIVATE
  <2>2. ~v.activated /\ v.prev_using = x.cur_using /\ v.cur_using = x.cur_using
    BY <1>1, Zenon DEF SpareStates
  <2> HIDE DEF v
  <2>3. Keen(v)
    BY <2>2 DEF Idle
  <2>4. DEACTIVATE(0, FALSE) # ACTIVATE(0, FALSE)
    BY CommandsApart, Zenon
  <2>5. Goal(DEACTIVATE(0, FALSE), v)
    BY <1>4, <2>2, <2>3, <2>4, Zenon DEF Heeds
  <2> HIDE DEF Goal
  <2>6. t[1] = DEACTIVATE(0, FALSE) /\ t[2] = v
    BY <2>1
  <2>7. QED  BY <2>5, <2>6
<1>12. CASE t \in SpareAt(g)!ChildClaimed
  <2> DEFINE v(i) == [x EXCEPT !.unclaimed = x.unclaimed \ {i}]
             z == [x EXCEPT !.mode = "impossible"]
             w(i) == IF i = 1 /\ g \in AlwaysActive THEN z ELSE v(i)
  <2>1. PICK i \in Kids(g) : t = <<ACTIVATE(i, FALSE), w(i)>>
    BY <1>3, <1>12, Zenon DEF SpareAt!ChildClaimed, SpareAt!Step, SpareAt!Children, Kids,
                        SpareAt!Impossible, ACTIVATE, SpareAt!ACTIVATE
  <2>2. w(i) = v(i)
    BY Zenon
  <2>3. /\ v(i).activated = x.activated /\ v(i).cur_using = x.cur_using
        /\ v(i).prev_using = x.prev_using
    BY <1>1, Zenon DEF SpareStates
  <2> HIDE DEF v, w
  <2>4. Keen(v(i))
    BY <2>3 DEF Idle
  <2>5. i # 0
    BY <1>1
  <2>6. ACTIVATE(i, FALSE) # ACTIVATE(0, FALSE) /\ ACTIVATE(i, FALSE) # DEACTIVATE(0, FALSE)
    BY <2>5, CommandsApart, Zenon
  <2> HIDE DEF Keen, Goal
  <2>7. t = <<ACTIVATE(i, FALSE), v(i)>>
    BY <2>1, <2>2
  <2>8. QED  BY <1>5, <2>3, <2>4, <2>6, <2>7
<1>13. CASE t \in SpareAt(g)!ChildReleased
  <2> DEFINE v(i) == [x EXCEPT !.unclaimed = x.unclaimed \cup {i}]
             z == [x EXCEPT !.mode = "impossible"]
             w(i) == IF \/ i = 1 /\ g \in AlwaysActive
                        \/ i \in {x.prev_using, x.repairing_deactivate} THEN z ELSE v(i)
  <2>1. PICK i \in Kids(g) : t = <<DEACTIVATE(i, FALSE), w(i)>>
    BY <1>3, <1>13, Zenon DEF SpareAt!ChildReleased, SpareAt!Step, SpareAt!Children, Kids,
                        SpareAt!Impossible, DEACTIVATE, SpareAt!DEACTIVATE
  <2>2. w(i) \in {v(i), z}
    BY Zenon
  <2>3. /\ v(i).activated = x.activated /\ v(i).cur_using = x.cur_using
        /\ v(i).prev_using = x.prev_using /\ z.mode = "impossible"
    BY <1>1, Zenon DEF SpareStates
  <2> HIDE DEF v, w, z
  <2>4. Keen(v(i))
    BY <2>3 DEF Idle
  <2>5. i # 0
    BY <1>1
  <2>6. DEACTIVATE(i, FALSE) # DEACTIVATE(0, FALSE) /\ DEACTIVATE(i, FALSE) # ACTIVATE(0, FALSE)
    BY <2>5, CommandsApart, Zenon
  <2> HIDE DEF Keen, Goal
  <2>7. w(i).mode = "live" => w(i).activated = x.activated /\ Keen(w(i))
    BY <2>2, <2>3, <2>4
  <2>8. QED  BY <1>5, <2>1, <2>6, <2>7
<1>14. CASE t \in SpareAt(g)!ReleaseFailed
  <2> DEFINE v == [x EXCEPT !.prev_using = 0, !.cur_using = 0]
  <2>1. t = <<DEACTIVATE(x.prev_using, TRUE), v>>
    BY <1>3, <1>14, Zenon DEF SpareAt!ReleaseFailed, SpareAt!When, SpareAt!Offer,
                        DEACTIVATE, SpareAt!DEACTIVATE
  <2>2. v.activated = x.activated /\ v.cur_using = 0
    BY <1>1, Zenon DEF SpareStates
  <2> HIDE DEF v
  <2>3. Keen(v)
    BY <2>2 DEF Idle
  <2>4. /\ DEACTIVATE(x.prev_using, TRUE) # DEACTIVATE(0, FALSE)
        /\ DEACTIVATE(x.prev_using, TRUE) # ACTIVATE(0, FALSE)
    BY CommandsApart, Zenon
  <2> HIDE DEF Keen, Goal
  <2>5. QED  BY <1>5, <2>1, <2>2, <2>3, <2>4
<1>15. CASE t \in SpareAt(g)!ReleaseWorse
  <2> DEFINE v == [x EXCEPT !.repairing_deactivate = 0]
  <2>1. t = <<DEACTIVATE(x.repairing_deactivate, TRUE), v>>
    BY <1>3, <1>15, Zenon DEF SpareAt!ReleaseWorse, SpareAt!When, SpareAt!Offer,
                        DEACTIVATE, SpareAt!DEACTIVATE
  <2>2. v.activated = x.activated /\ v.cur_using = x.cur_using /\ v.prev_using = x.prev_using
    BY <1>1, Zenon DEF SpareStates
  <2> HIDE DEF v
  <2>3. Keen(v)
    BY <2>2 DEF Idle
  <2>4. /\ DEACTIVATE(x.repairing_deactivate, TRUE) # DEACTIVATE(0, FALSE)
        /\ DEACTIVATE(x.repairing_deactivate, TRUE) # ACTIVATE(0, FALSE)
    BY CommandsApart, Zenon
  <2> HIDE DEF Keen, Goal
  <2>5. QED  BY <1>5, <2>1, <2>2, <2>3, <2>4
<1>16. CASE t \in SpareAt(g)!AnnounceFail
  <2> DEFINE v == [x EXCEPT !.done = TRUE]
  <2>1. t = <<FAIL(0), v>>
    BY <1>3, <1>16, Zenon DEF SpareAt!AnnounceFail, SpareAt!When, SpareAt!Offer, FAIL, SpareAt!FAIL
  <2>2. v.activated = x.activated /\ v.cur_using = x.cur_using /\ v.prev_using = x.prev_using
    BY <1>1, Zenon DEF SpareStates
  <2> HIDE DEF v
  <2>3. Keen(v)
    BY <2>2 DEF Idle
  <2>4. NoCommand(FAIL(0))
    BY Heads DEF NoCommand
  <2> HIDE DEF Keen, Goal
  <2>5. QED  BY <1>6, <2>1, <2>2, <2>3, <2>4
<1>17. CASE t \in SpareAt(g)!ClaimFirst
  <2> DEFINE r == IF x.repairing_deactivate = f THEN 0 ELSE x.repairing_deactivate
             v == [x EXCEPT !.cur_using = f, !.repairing_deactivate = r]
  <2>0. x.activated /\ t = <<ACTIVATE(f, TRUE), SpareAt(g)!Settle(v)>>
    BY <1>17, Zenon DEF SpareAt!ClaimFirst, SpareAt!When, SpareAt!Offer,
                        ACTIVATE, SpareAt!ACTIVATE
  <2> HIDE DEF r, f
  <2>1. v.activated = x.activated
    BY <1>1, Zenon DEF SpareStates
  <2> HIDE DEF v
  <2>2. t = <<ACTIVATE(f, TRUE), v>>
    BY <1>3, <2>0, Zenon
  <2>3. Keen(v)
    BY <1>7, <2>0, <2>1
  <2>4. ACTIVATE(f, TRUE) # ACTIVATE(0, FALSE) /\ ACTIVATE(f, TRUE) # DEACTIVATE(0, FALSE)
    BY CommandsApart, Zenon
  <2> HIDE DEF Keen, Goal
  <2>5. QED  BY <1>5, <2>0, <2>1, <2>2, <2>3, <2>4
<1>18. CASE t \in SpareAt(g)!ClaimBetter
  <2> DEFINE v == [x EXCEPT !.repairing_deactivate = x.cur_using, !.cur_using = f]
  <2>1. /\ x.activated /\ t = <<SpareAt(g)!ClaimLabel, v>>
    BY <1>3, <1>18, Zenon DEF SpareAt!ClaimBetter, SpareAt!TakeBetter, SpareAt!When, SpareAt!Offer
  <2>2. SpareAt(g)!ClaimLabel = ACTIVATE(f, TRUE)
    BY Zenon DEF SpareAt!ClaimLabel, ACTIVATE, SpareAt!ACTIVATE
  <2> HIDE DEF f
  <2>3. v.activated = x.activated
    BY <1>1, Zenon DEF SpareStates
  <2> HIDE DEF v
  <2>4. Keen(v)
    BY <1>7, <2>1, <2>3
  <2>5. ACTIVATE(f, TRUE) # ACTIVATE(0, FALSE) /\ ACTIVATE(f, TRUE) # DEACTIVATE(0, FALSE)
    BY CommandsApart, Zenon
  <2> HIDE DEF Keen, Goal
  <2>6. t = <<ACTIVATE(f, TRUE), v>>
    BY <2>1, <2>2
  <2>7. QED  BY <1>5, <2>3, <2>4, <2>5, <2>6
<1>19. CASE t \in SpareAt(g)!ForgetRelease \cup SpareAt(g)!ReportRepaired
  <2>1. t \in {<<TAU, x>>, <<REPAIRED(0), x>>}
    <3>1. CASE t \in SpareAt(g)!ForgetRelease
      BY <1>3, <3>1, Zenon DEF SpareAt!ForgetRelease, SpareAt!When, SpareAt!Offer, TAU, SpareAt!TAU
    <3>2. CASE t \in SpareAt(g)!ReportRepaired
      BY <1>3, <3>2, Zenon DEF SpareAt!ReportRepaired, SpareAt!Step, REPAIRED, SpareAt!REPAIRED
    <3>3. QED  BY <1>19, <3>1, <3>2
  <2>2. NoCommand(TAU) /\ NoCommand(REPAIRED(0))
    BY Heads DEF NoCommand
  <2>3. PICK l \in {TAU, REPAIRED(0)} : t = <<l, x>>
    BY <2>1
  <2> HIDE DEF Keen, Goal
  <2>4. QED  BY <1>6, <1>7, <2>2, <2>3
<1>20. QED
  BY <1>1, <1>8, <1>9, <1>10, <1>11, <1>12, <1>13, <1>14, <1>15, <1>16, <1>17, <1>18, <1>19
     DEF SpareAt!Trans

\* A steady spare gate keeps active what it holds.
LEMMA SpareDirects ==
  ASSUME NEW g, FitSpare(g), NEW l, NEW y, SpareClaims(g, l, y), Steady(g, node[g]),
         ~(l = FAIL(1) /\ Returning(node[g]))
  PROVE  Directs(g, l, y)
<1>1. \A z : Orders(g, z) = Held(g, z)
  BY FitIsReady DEF Orders
<1>2. /\ Held(g, y) \subseteq Held(g, node[g]) \cup {i \in Kids(g) : l = ACTIVATE(i, TRUE)}
      /\ Held(g, node[g]) \cup {i \in Kids(g) : l = ACTIVATE(i, TRUE)}
           \subseteq Held(g, y) \cup {i \in Kids(g) : l = DEACTIVATE(i, TRUE)}
      /\ \A i \in Kids(g) : l = DEACTIVATE(i, TRUE) => i \notin Held(g, y)
  BY DEF SpareClaims, Keeps
<1>3. \A i, j : ACTIVATE(i, TRUE) # DEACTIVATE(j, TRUE)
  BY CommandsApart, Zenon
<1>4. ASSUME NEW i \in Kids(g)
      PROVE  i \in Held(g, y) <=> l = ACTIVATE(i, TRUE)
                   \/ (l # DEACTIVATE(i, TRUE) /\ i \in Held(g, node[g]))
  BY <1>2, <1>3
<1>5. QED  BY <1>1, <1>4 DEF Directs
=============================================================================
