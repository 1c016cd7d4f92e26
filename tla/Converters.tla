----------------------------- MODULE Converters -----------------------------
(***************************************************************************)
(* The tools that turn the composed state space into the input of a model  *)
(* checker (src/bcgconv): maxprog applies maximal progress, bcg2tralab     *)
(* writes a chain with labelled states, bcg2jani one with a variable.      *)
(* A state space is a record of its states, numbered from 0, the initial   *)
(* one, and its edges.  The kind of an edge is the label: a rate or a time *)
(* (with its value), FAIL, ONLINE or the silent "i".                       *)
(***************************************************************************)
EXTENDS Naturals, Integers, Sequences, FiniteSets, SequencesExt

Ascending(S) == [k \in 1..Cardinality(S) |-> CHOOSE x \in S : Cardinality({y \in S : y < x}) = k - 1]

Edge(from, kind, val, to) == [from |-> from, kind |-> kind, val |-> val, to |-> to]
From(g, s) == {e \in g.edges : e.from = s}
IsInteractive(e) == e.kind \notin {"rate", "time"}
Interactive(g, s) == {e \in From(g, s) : IsInteractive(e)}
Rates(g, s) == {e \in From(g, s) : e.kind = "rate"}
TimesOf(g, s) == {e \in From(g, s) : e.kind = "time"}

-----------------------------------------------------------------------------
(* maxprog *)

\* The edges that a state passes on in the first pass, given whether it is
\* reached at a moment at which the clock may tick once more.
FollowedRates(g, s, timed) ==
    Interactive(g, s) \cup Rates(g, s)
    \cup (IF Interactive(g, s) = {} \/ timed THEN TimesOf(g, s) ELSE {})
Followed(g, s, timed) ==
    Interactive(g, s) \cup
    (IF Interactive(g, s) = {} THEN Rates(g, s) ELSE {}) \cup
    (IF Interactive(g, s) = {} \/ timed THEN TimesOf(g, s) ELSE {})

\* First pass: the states that stay, and those that are reached at a tick.
Marked(g) ==
    LET next(m) ==
            LET es == UNION {Followed(g, s, s \in m.timed) : s \in m.reachable}
            IN  [reachable |-> m.reachable \cup {e.to : e \in es},
                 timed |-> m.timed \cup
                     {e.to : e \in {f \in es : f.kind = "time"
                                         \/ (IsInteractive(f) /\ f.from \in m.timed)}}]
        pass[k \in 0..(2 * Cardinality(g.states))] ==
            IF k = 0 THEN [reachable |-> {0}, timed |-> {0}] ELSE next(pass[k - 1])
    IN  pass[2 * Cardinality(g.states)]

\* The new number of a state that stays; the others keep 0 - 1.
StateNum(m, s) == IF s \in m.reachable THEN Cardinality({t \in m.reachable : t < s}) ELSE -1

\* Second pass: self-loops are dropped before interactive edges are looked for.
Written(g, m, s) ==
    LET proper == {e \in From(g, s) : e.to # s}
        interactive == \E e \in proper : IsInteractive(e)
    IN  {e \in proper :
            \/ IsInteractive(e)
            \/ e.kind = "rate" /\ ~interactive
            \/ e.kind = "time" /\ (s \in m.timed \/ ~interactive)}

maxprog(g) ==
    LET m == Marked(g)
    IN  [states |-> {StateNum(m, s) : s \in m.reachable},
         edges |-> {[e EXCEPT !.from = StateNum(m, @), !.to = StateNum(m, @)] :
                       e \in UNION {Written(g, m, s) : s \in m.reachable}}]

-----------------------------------------------------------------------------
(* bcg2tralab *)

\* Every edge is explored; which states are renamed, to what, with which label.
Explored(g) ==
    LET pass[k \in 0..Cardinality(g.states)] ==
            IF k = 0 THEN {0}
            ELSE LET r == pass[k - 1] IN r \cup {e.to : e \in {f \in g.edges : f.from \in r}}
    IN  pass[Cardinality(g.states)]
TargetLabel(e) == CASE e.kind = "FAIL" -> -1 [] e.kind = "ONLINE" -> 1 [] OTHER -> 0
\* The error "nondeterminism" (maxprog has left no self-loops).
Nondeterministic(g) == \E s \in Explored(g) : Cardinality(Interactive(g, s)) > 1

TheEdge(g, s) == CHOOSE e \in Interactive(g, s) : TRUE
Renamed(g) == {s \in Explored(g) : Interactive(g, s) # {}}
LabelsOf(g, s) ==   \* the labels that interactive edges give to s
    {TargetLabel(TheEdge(g, r)) : r \in {q \in Renamed(g) : TheEdge(g, q).to = s}}
    \cup (IF s = 0 THEN {1} ELSE {})
\* Between "i" and another label the order of a hash set decides; here an error.
LabelConflict(g) == \E s \in Explored(g) : Cardinality(LabelsOf(g, s)) > 1
FirstLabel(g, s) == IF LabelsOf(g, s) = {} THEN 0 ELSE CHOOSE l \in LabelsOf(g, s) : TRUE

\* Chains of renames, collapsed; every state of a chain must have one label.
Rename(g, s) ==
    LET hop[k \in 0..Cardinality(g.states)] ==
            IF k = 0 THEN s
            ELSE LET t == hop[k - 1] IN IF t \in Renamed(g) THEN TheEdge(g, t).to ELSE t
    IN  hop[Cardinality(g.states)]
InvalidChain(g) ==
    \E s \in Renamed(g) : LET t == TheEdge(g, s).to
                          IN  t \in Renamed(g) /\ FirstLabel(g, t) # FirstLabel(g, TheEdge(g, t).to)
KeptStates(g) == Explored(g) \ Renamed(g)

\* Labels spread over the rates of the states that are kept.
Spread(g) ==
    LET next(lab) ==
            [s \in g.states |->
                LET given == {lab[e.from] : e \in
                                 {f \in g.edges : f.to = s /\ f.kind = "rate" /\ f.from \in KeptStates(g)}}
                             \ {0}
                IN  IF lab[s] # 0 \/ given = {} THEN lab[s] ELSE CHOOSE l \in given : TRUE]
        pass[k \in 0..Cardinality(g.states)] ==
            IF k = 0 THEN [s \in g.states |-> FirstLabel(g, s)] ELSE next(pass[k - 1])
    IN  pass[Cardinality(g.states)]
SpreadConflict(g) ==
    \E e \in g.edges : e.kind = "rate" /\ e.from \in KeptStates(g)
                       /\ Spread(g)[e.from] * Spread(g)[e.to] = -1

\* Two loops that may not end: over a cycle of renames, and because a kept state
\* that only times lead to is never labelled.
Collapses(g) == \A s \in Renamed(g) : Rename(g, s) \in KeptStates(g)
Labelled(g) == \A s \in KeptStates(g) : Spread(g)[s] # 0

Accepted(g) ==
    /\ ~Nondeterministic(g) /\ ~LabelConflict(g) /\ ~InvalidChain(g) /\ Collapses(g)
    /\ 0 \in KeptStates(g) /\ ~SpreadConflict(g) /\ Labelled(g)

get_times(g) ==
    LET ts == {e.val : e \in UNION {TimesOf(g, s) : s \in KeptStates(g)}}
    IN  Ascending(ts)      \* in the order met

\* The moments at which something
\* is due before everything is due at once, each with the periods due.
expand_times(times) ==
    LET due(n) == LET ts == [i \in DOMAIN times |-> times[i] * (n[i] + 1)]
                      now == CHOOSE t \in ToSet(ts) : \A u \in ToSet(ts) : t <= u
                  IN  [time |-> now, at |-> {i \in DOMAIN times : ts[i] = now}]
        counts(n) == LET d == due(n) IN [i \in DOMAIN times |-> n[i] + (IF i \in d.at THEN 1 ELSE 0)]
        f[n \in [DOMAIN times -> Nat]] ==
            LET d == due(n)
                \* times[0] is looked at first, the others from the last one back
                order == SetToSortSeq(d.at, LAMBDA i, j : i = 1 \/ (j # 1 /\ i > j))
                this == <<[time |-> d.time, periods |-> [k \in DOMAIN order |-> times[order[k]]]]>>
            IN  IF d.at = DOMAIN times THEN this ELSE this \o f[counts(n)]
    IN  IF times = <<>> THEN <<>> ELSE f[[i \in DOMAIN times |-> 0]]

get_timed_target(g, t, s) ==
    LET due == {e \in TimesOf(g, s) : e.val = t}
    IN  IF due = {} THEN s ELSE (CHOOSE e \in due : TRUE).to
\* What is due at once happens in the order given; other orders are only compared.
get_eventual_target(g, periods, s) == FoldLeft(LAMBDA at, t : get_timed_target(g, t, at), s, periods)

get_timed_transitions(g, allTimes, s) ==
    [k \in DOMAIN allTimes |-> Rename(g, get_eventual_target(g, allTimes[k].periods, s))]

\* One rate per renamed target: of two edges to it the later one is kept.
get_rate_targets(g, s) ==
    {[to |-> t, rate |-> (CHOOSE e \in Rates(g, s) : Rename(g, e.to) = t).val] :
        t \in {Rename(g, e.to) : e \in Rates(g, s)}}
RowsOf(g, allTimes, s) ==
    LET timed == get_timed_transitions(g, allTimes, s)
        rated == get_rate_targets(g, s)
        all == rated \cup {[to |-> t, rate |-> 0] : t \in ToSet(timed) \ {r.to : r \in rated}}
    IN  {[from |-> s, to |-> r.to, rate |-> r.rate,
          steps |-> [k \in DOMAIN timed |-> IF timed[k] = r.to THEN 1 ELSE 0]] : r \in all}

bcg2tralab(g) ==
    [rows |-> UNION {RowsOf(g, expand_times(get_times(g)), s) : s \in KeptStates(g)},
     marked |-> {s \in KeptStates(g) : Spread(g)[s] < 0}]

-----------------------------------------------------------------------------
(* bcg2jani *)

\* A state with exactly one edge that is not a rate is collapsed into the edges
\* that lead to it: it has no edge of its own, nor, but for 0, a location.
NonRates(g, s) == From(g, s) \ Rates(g, s)
Collapsible(g, s) == Cardinality(NonRates(g, s)) = 1
CollapsedEdge(g, s) == CHOOSE e \in NonRates(g, s) : TRUE
Assignment(e) == CASE e.kind = "FAIL" -> 1 [] e.kind = "ONLINE" -> 0 [] OTHER -> -1

\* Edges of the automaton; set is the value given to the variable marked, or -1.
JaniRates(g, s) ==
    {[from |-> s, kind |-> "rate", rate |-> e.val,
      to |-> IF Collapsible(g, e.to) THEN CollapsedEdge(g, e.to).to ELSE e.to,
      set |-> IF Collapsible(g, e.to) THEN Assignment(CollapsedEdge(g, e.to)) ELSE -1] :
        e \in Rates(g, s)}
JaniEdges(g, s) ==
    IF NonRates(g, s) = {} THEN JaniRates(g, s)
    ELSE IF Collapsible(g, s) THEN {}
    ELSE {[from |-> s, kind |-> "action", rate |-> 0, to |-> e.to, set |-> Assignment(e)] :
             e \in NonRates(g, s)}
bcg2jani(g) ==
    [locations |-> {s \in g.states : s = 0 \/ ~Collapsible(g, s)},
     edges |-> UNION {JaniEdges(g, s) : s \in g.states}]
=============================================================================
