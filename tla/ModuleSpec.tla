----------------------------- MODULE ModuleSpec -----------------------------
(***************************************************************************)
(* What modularisation promises: the answer of the whole tree.  Every basic*)
(* event has failed with probability 1/2, so the probability of the top is *)
(* the share of the sets of events whose failure makes it fail; a gate     *)
(* that is not static counts as an AND, as modules never look into it.     *)
(***************************************************************************)
EXTENDS Modules

Events(t) == {n \in Nodes(t) : t.type[n] = "be"}

\* The nodes that fail with the events of es, dependencies included.
Failing(t, es) ==
    LET down(failed) == failed \cup
            {n \in Nodes(t) :
                \/ \E f \in Triggers(t, n) : Kids(t, f) \cap failed # {}
                \/ LET hit == Cardinality({i \in DOMAIN t.children[n] : t.children[n][i] \in failed})
                   IN  CASE t.type[n] \in {"be", "fdep"} -> FALSE
                         [] t.type[n] = "or" -> hit > 0
                         [] t.type[n] = "voting" -> hit >= t.k[n]
                         [] OTHER -> hit = Len(t.children[n])}
        pass[k \in 0..Cardinality(Nodes(t))] ==
            IF k = 0 THEN es ELSE down(pass[k - 1])
    IN  pass[Cardinality(Nodes(t))]
TopFails(t, es) == t.top \in Failing(t, es \cap Nodes(t))
Probability(t) ==
    Prob(Cardinality({es \in SUBSET Events(t) : TopFails(t, es)}), Cardinality(Events(t)))

\* The analysis of a tree starts with the removal of children without output.
Analysed(t) == Probability(checkFDEPInfo(t))

\* The analysis of one module, exact or a little uncertain either way.
Exactly(p) == Interval(p, p)
Roughly(p) == Interval(Prob(IF p.n = 0 THEN 0 ELSE 2 * p.n - 1, p.bits + 1),
                       Prob(IF p.n = 2 ^ p.bits THEN 2 * p.n ELSE 2 * p.n + 1, p.bits + 1))
ConstantOf(line) == IF line.of = 0 THEN Zero ELSE Prob(1, 1)
AnswerTo(t, line, Bounds(_)) ==
    IF line.op = "=" THEN Exactly(ConstantOf(line))
    ELSE Bounds(Analysed(removeUnreachable(setTopNode(t, line.root))))

Modular(t, Bounds(_)) ==
    checkModule(writeModules(t), [line \in ToSet(writeModules(t)) |-> AnswerTo(t, line, Bounds)])

\* All lines are read, and the answer is that of the tree; with bounds for the
\* modules it lies between the bounds.
AnswersTheWhole(t) ==
    LET exact == Modular(t, Exactly)
        rough == Modular(t, Roughly)
        p == Analysed(t)
    IN  /\ exact.ok /\ exact.rest = <<>> /\ rough.ok
        /\ AtMost(exact.got[1].lower, p) /\ AtMost(p, exact.got[1].lower)
        /\ exact.got[1].lower = exact.got[1].upper
        /\ AtMost(rough.got[1].lower, p) /\ AtMost(p, rough.got[1].upper)

Used(t) == Exploration(t, t.top, LAMBDA n : IF outputIsDumb(t, n) THEN {} ELSE Kids(t, n))
\* Dependencies set off nodes that the top uses, and none that may become a module of
\* its own.
Undisturbed(t) ==
    /\ \A n \in Nodes(t) : Triggers(t, n) # {} => n \in Used(t)
    /\ \A n \in Nodes(t) : t.type[n] \in {"and", "or", "voting"} =>
          \A c \in Kids(t, n) : Triggers(t, c) = {}

\* What removeUnreachable drops does not bear on the top.
KeepsTheTop(t) ==
    \A es \in SUBSET Events(t) : TopFails(removeUnreachable(t), es) = TopFails(t, es)
=============================================================================
