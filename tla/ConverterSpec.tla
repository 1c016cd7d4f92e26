---------------------------- MODULE ConverterSpec ---------------------------
(***************************************************************************)
(* What the converters of module Converters promise, said of the state     *)
(* space they read and not of how they work.  A configuration is a state   *)
(* and what it was reached with.                                           *)
(***************************************************************************)
EXTENDS Converters, FiniteSetsExt

Closure(from, next(_), bound) ==
    LET pass[k \in 0..bound] ==
            IF k = 0 THEN from ELSE LET c == pass[k - 1] IN c \cup UNION {next(x) : x \in c}
    IN  pass[bound]

-----------------------------------------------------------------------------
(* Maximal progress *)

\* In state s, at a moment at which the clock ticks or not: signals come before
\* rates, and before the clock unless it ticks at this very moment.
Moves(g, s, tick) ==
    {e \in From(g, s) : IsInteractive(e) \/ Interactive(g, s) = {} \/ (e.kind = "time" /\ tick)}
AfterMove(e, tick) == <<e.to, CASE e.kind = "time" -> TRUE [] e.kind = "rate" -> FALSE [] OTHER -> tick>>
Configs(g) ==
    Closure({<<0, TRUE>>}, LAMBDA c : {AfterMove(e, c[2]) : e \in Moves(g, c[1], c[2])},
            2 * Cardinality(g.states))

MaximalProgress(g) == UNION {Moves(g, c[1], c[2]) : c \in Configs(g)}

\* The output has exactly the moves that maximal progress leaves, and its states
\* are numbered from 0 without a gap: the initial one stays the first.
KeepsProgress(g) ==
    LET kept == Ascending({c[1] : c \in Configs(g)})
        out == maxprog(g)
    IN  /\ kept[1] = 0
        /\ out.states = 0..(Len(kept) - 1)
        /\ {[e EXCEPT !.from = kept[@ + 1], !.to = kept[@ + 1]] : e \in out.edges}
               = {e \in MaximalProgress(g) : e.from # e.to}

-----------------------------------------------------------------------------
(* The chain: stable states and whether the top has failed *)

IsStable(g, s) == Interactive(g, s) = {}
AfterSignal(e, failed) ==
    CASE e.kind = "FAIL" -> TRUE [] e.kind = "ONLINE" -> FALSE [] OTHER -> failed
Settled(g, s, failed) ==    \* in a state space with at most one signal at a time
    IF IsStable(g, s) THEN <<s, failed>>
    ELSE LET e == CHOOSE f \in Interactive(g, s) : TRUE IN <<e.to, AfterSignal(e, failed)>>
Chain(g) ==
    Closure({<<0, FALSE>>}, LAMBDA c : {Settled(g, e.to, c[2]) : e \in Rates(g, c[1])},
            2 * Cardinality(g.states))
TotalRate(g, c, d) ==
    MapThenSumSet(LAMBDA e : e.val, {e \in Rates(g, c[1]) : Settled(g, e.to, c[2]) = d})

\* What dftcalc hands to the converters after maxprog and bcg_min, of a model
\* without nondeterminism: signals one at a time and in turn, from stable states
\* to stable states, and no two states that do the same.
IsTwin(g, s, t) == {[e EXCEPT !.from = 0] : e \in From(g, s)} = {[e EXCEPT !.from = 0] : e \in From(g, t)}
Canonical(g) ==
    /\ IsStable(g, 0) /\ Explored(g) = g.states
    /\ \A s \in g.states : \/ IsStable(g, s)
                           \/ /\ Cardinality(From(g, s)) = 1
                              /\ \A e \in From(g, s) : IsStable(g, e.to)
    /\ \A s, t \in g.states : s # t => ~IsTwin(g, s, t)
    /\ \A c \in Chain(g) : \A e \in Rates(g, c[1]) : \A f \in Interactive(g, e.to) :
          f.kind = IF c[2] THEN "ONLINE" ELSE "FAIL"

\* When bcg2tralab does not give up, its rows are the chain and its marked
\* states those in which the top has failed.
TralabIsChain(g) ==
    Accepted(g) =>
        LET out == bcg2tralab(g)
            IsMarked(s) == s \in out.marked
            rate(s, t) == MapThenSumSet(LAMBDA r : r.rate, {r \in out.rows : r.from = s /\ r.to = t})
        IN  /\ Chain(g) = {<<s, IsMarked(s)>> : s \in KeptStates(g)}
            /\ \A c, d \in Chain(g) : rate(c[1], d[1]) = TotalRate(g, c, d)

JaniStep(e, failed) == <<e.to, CASE e.set = 1 -> TRUE [] e.set = 0 -> FALSE [] OTHER -> failed>>
\* The automaton of bcg2jani, run from its initial location, is the chain.
JaniIsChain(g) ==
    LET out == bcg2jani(g)
        edges(c) == {e \in out.edges : e.from = c[1]}
        runs == Closure({<<0, FALSE>>}, LAMBDA c : {JaniStep(e, c[2]) : e \in edges(c)},
                        2 * Cardinality(g.states))
        rate(c, d) == MapThenSumSet(LAMBDA e : e.rate, {e \in edges(c) : JaniStep(e, c[2]) = d})
    IN  /\ runs = Chain(g)
        /\ \A c \in runs : c[1] \in out.locations
        /\ \A c, d \in runs : rate(c, d) = TotalRate(g, c, d)

\* In every step at a fixed time each state has exactly one successor.
StepsAreFunctions(g) ==
    Accepted(g) =>
        LET rows == bcg2tralab(g).rows
        IN  \A s \in KeptStates(g) : \A k \in DOMAIN expand_times(get_times(g)) :
                Cardinality({r \in rows : r.from = s /\ r.steps[k] = 1}) = 1

\* The steps are at the multiples of the periods, up to the first one common to
\* all, and at each of them exactly the periods that divide it are due.
StepsAreMultiples(times) ==
    LET steps == expand_times(times)
        Divides(t, n) == n % t = 0
        common == CHOOSE n \in 1..100 : /\ \A t \in ToSet(times) : Divides(t, n)
                                        /\ \A m \in 1..(n - 1) : \E t \in ToSet(times) : ~Divides(t, m)
    IN  times # <<>> =>
        /\ [k \in DOMAIN steps |-> steps[k].time]
             = Ascending({n \in 1..common : \E t \in ToSet(times) : Divides(t, n)})
        /\ \A k \in DOMAIN steps :
              ToSet(steps[k].periods) = {t \in ToSet(times) : Divides(t, steps[k].time)}
=============================================================================
