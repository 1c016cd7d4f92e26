------------------------------- MODULE Modules ------------------------------
(***************************************************************************)
(* Modularisation: dft2lntc -m cuts a tree into modules that share nothing *)
(* (src/dft2lntc/modularize.cpp), dftcalc -M has each analysed by itself   *)
(* and combines the answers (src/dftcalc/dftcalc.cpp), for which dft2lntc  *)
(* reduces the tree to what bears on one root (src/dft2lnt/DFTree.cpp).    *)
(*                                                                         *)
(* A tree is a record of functions over its nodes: type ("be", "and",      *)
(* "or", "voting", "fdep" or another gate), children, dependers (of an     *)
(* fdep, whose only child is the trigger), k (the threshold of a voting    *)
(* gate); and of the top and the set of constant basic events, those with  *)
(* a probability instead of a rate.                                        *)
(***************************************************************************)
EXTENDS Integers, Sequences, FiniteSets, SequencesExt

Nodes(t) == DOMAIN t.type
Kids(t, n) == ToSet(t.children[n])
Deps(t, n) == ToSet(t.dependers[n])
Parents(t, n) == {p \in Nodes(t) : n \in Kids(t, p)}
Triggers(t, n) == {f \in Nodes(t) : n \in Deps(t, f)}
outputIsDumb(t, n) == t.type[n] \in {"fdep", "repairunit", "inspection", "replacement"}

Exploration(t, from, next(_)) ==
    LET pass[k \in 0..Cardinality(Nodes(t))] ==
            IF k = 0 THEN {from} ELSE LET s == pass[k - 1] IN s \cup UNION {next(n) : n \in s}
    IN  pass[Cardinality(Nodes(t))]

-----------------------------------------------------------------------------
(* Building and reducing the tree *)

\* ASTDFTBuilder: the first child of an fdep is its trigger, the others depend.
Connected(ast) ==
    [type |-> ast.type, k |-> ast.k, constant |-> ast.constant, top |-> ast.top,
     children |-> [n \in DOMAIN ast.type |->
                     IF ast.type[n] = "fdep" THEN <<Head(ast.children[n])>> ELSE ast.children[n]],
     dependers |-> [n \in DOMAIN ast.type |->
                     IF ast.type[n] = "fdep" THEN Tail(ast.children[n]) ELSE <<>>]]

\* removeNode, for all of a set: the children and parents forget the nodes.
Without(t, gone) ==
    LET keep(s) == SelectSeq(s, LAMBDA n : n \notin gone)
        Rest == Nodes(t) \ gone
    IN  [t EXCEPT !.type = [n \in Rest |-> t.type[n]], !.k = [n \in Rest |-> t.k[n]],
                  !.children = [n \in Rest |-> keep(t.children[n])],
                  !.dependers = [n \in Rest |-> t.dependers[n]], !.constant = @ \ gone]

\* The nodes that bear on the top: what it is made of, and of every other node
\* also the gates above it and the dependencies that may set it off.
Reachable(t) ==
    Exploration(t, t.top, LAMBDA n : Kids(t, n) \cup
                (IF n = t.top THEN {} ELSE Parents(t, n) \cup Triggers(t, n)))
removeUnreachable(t) ==
    LET r == Reachable(t)
        trimmed == [t EXCEPT !.dependers =
                      [n \in Nodes(t) |-> SelectSeq(@[n], LAMBDA d : d \in r)]]
    IN  Without(trimmed, Nodes(t) \ r)

setTopNode(t, root) == [t EXCEPT !.top = root]

\* checkFDEPInfo: below the top, the children without an output are dropped.
checkFDEPInfo(t) ==
    LET visited == Exploration(t, t.top, LAMBDA n :
                       {c \in Kids(t, n) : t.type[c] # "be" /\ ~outputIsDumb(t, c)})
    IN  [t EXCEPT !.children =
            [n \in Nodes(t) |-> IF n \in visited
                                THEN SelectSeq(@[n], LAMBDA c : ~outputIsDumb(t, c)) ELSE @[n]]]

-----------------------------------------------------------------------------
(* Cutting into modules *)

\* Everything that a node with one parent leads to without that parent.
SubtreeOfChildren(t, n) ==
    Exploration(t, n, LAMBDA m : Kids(t, m) \cup Deps(t, m))
Subtree(t, n) ==
    Exploration(t, n, LAMBDA m : Kids(t, m) \cup Deps(t, m) \cup
                (IF m = n THEN {} ELSE Parents(t, m) \cup Triggers(t, m)))
isIndependentSubtree(t, n) ==
    \/ Parents(t, n) = {}
    \/ /\ Cardinality(Parents(t, n)) = 1
       /\ Parents(t, n) \cap Subtree(t, n) = {}

\* writeModules: the lines of the modules file, a gate before its children.
writeModules(t) ==
    LET lines[n \in Nodes(t)] ==
            LET module == <<[op |-> "M", root |-> n]>>
                gate == CASE t.type[n] = "and" -> [op |-> "*", n |-> Len(t.children[n])]
                          [] t.type[n] = "or" -> [op |-> "+", n |-> Len(t.children[n])]
                          [] t.type[n] = "voting" -> [op |-> "/", k |-> t.k[n], n |-> Len(t.children[n])]
                          [] OTHER -> [op |-> "M", root |-> n]
            IN  IF n \in t.constant THEN <<[op |-> "=", of |-> n]>>
                ELSE IF outputIsDumb(t, n) THEN <<[op |-> "=", of |-> 0]>>
                ELSE IF gate.op = "M" \/ \E c \in Kids(t, n) : ~isIndependentSubtree(t, c) THEN module
                ELSE <<gate>> \o FlattenSeq([i \in DOMAIN t.children[n] |-> lines[t.children[n][i]]])
    IN  lines[t.top]

-----------------------------------------------------------------------------
(* Combining the answers.  A probability is n / 2^bits. *)

Prob(n, bits) == [n |-> n, bits |-> bits]
One == Prob(1, 0)
Zero == Prob(0, 0)
TimesP(p, q) == Prob(p.n * q.n, p.bits + q.bits)
OneMinus(p) == Prob(2 ^ p.bits - p.n, p.bits)
PlusP(p, q) ==
    LET bits == IF p.bits > q.bits THEN p.bits ELSE q.bits
    IN  Prob(p.n * 2 ^ (bits - p.bits) + q.n * 2 ^ (bits - q.bits), bits)
AtMost(p, q) == p.n * 2 ^ q.bits <= q.n * 2 ^ p.bits

Interval(lo, up) == [lower |-> lo, upper |-> up]
AndResult(x, y) == Interval(TimesP(x.lower, y.lower), TimesP(x.upper, y.upper))
OrResult(x, y) ==
    Interval(OneMinus(TimesP(OneMinus(x.lower), OneMinus(y.lower))),
             OneMinus(TimesP(OneMinus(x.upper), OneMinus(y.upper))))

\* addVoteResults: by the first of them, failed or not.  The lower bound of its
\* failure bounds its survival from above.
addVoteResults(ps, k) ==
    LET f[i \in 1..(Len(ps) + 1), v \in 0..k] ==    \* v of those from i on
            IF v = 0 THEN Interval(One, One)
            ELSE IF v > Len(ps) - i + 1 THEN Interval(Zero, Zero)
            ELSE LET fails == f[i + 1, v - 1]
                     lives == f[i + 1, v]
                     cur == ps[i]
                 IN  Interval(PlusP(TimesP(cur.lower, fails.lower),
                                    TimesP(OneMinus(cur.upper), lives.lower)),
                              PlusP(TimesP(cur.upper, fails.upper),
                                    TimesP(OneMinus(cur.lower), lives.upper)))
    IN  f[1, k]

\* checkModule: it reads one module off the lines, its children with it, and
\* gives its answer and the lines left over; a failure has no answer.  What is
\* known of single modules is a function of their lines.
RECURSIVE checkModule(_, _), Gathered(_, _, _)
Gathered(n, lines, answer) ==
    IF n = 0 THEN [ok |-> TRUE, got |-> <<>>, rest |-> lines]
    ELSE LET first == checkModule(lines, answer)
             others == Gathered(n - 1, first.rest, answer)
         IN  IF lines = <<>> \/ ~first.ok THEN [ok |-> FALSE, got |-> <<>>, rest |-> lines]
             ELSE [ok |-> others.ok, got |-> first.got \o others.got, rest |-> others.rest]
checkModule(lines, answer) ==
    IF lines = <<>> THEN [ok |-> FALSE, got |-> <<>>, rest |-> <<>>]
    ELSE IF Head(lines).op \in {"M", "="}
    THEN [ok |-> TRUE, got |-> <<answer[Head(lines)]>>, rest |-> Tail(lines)]
    ELSE LET parts == Gathered(Head(lines).n, Tail(lines), answer)
             ps == parts.got
             combined == CASE Head(lines).op = "*" -> FoldLeft(AndResult, Head(ps), Tail(ps))
                           [] Head(lines).op = "+" -> FoldLeft(OrResult, Head(ps), Tail(ps))
                           [] Head(lines).op = "/" -> addVoteResults(ps, Head(lines).k)
         IN  [parts EXCEPT !.got = IF parts.ok THEN <<combined>> ELSE <<>>]
=============================================================================
