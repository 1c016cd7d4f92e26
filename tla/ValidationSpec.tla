--------------------------- MODULE ValidationSpec ---------------------------
(***************************************************************************)
(* What the rest of the tool relies on in a tree the front end let pass.   *)
(***************************************************************************)
EXTENDS Validation

\* Files of which the front end builds what they say: it checks neither that
\* names are unique, nor that there is one top level, nor that gates have children.
WellFormed(lines) ==
    LET defining == {i \in DOMAIN lines : lines[i].kind \in {"be", "gate"}}
    IN  /\ \A i, j \in defining : lines[i].name = lines[j].name => i = j
        /\ Cardinality({i \in DOMAIN lines : lines[i].kind = "toplevel"}) = 1
        /\ \A i \in defining : lines[i].kind = "gate" => lines[i].children # <<>>

Names(dft, seq) == [i \in DOMAIN seq |-> dft.nodes[seq[i]].node.name]
GateIsFaithful(dft, n, l) ==
    /\ n.node.type = IF l.type \in {"hsp", "csp"} THEN "wsp" ELSE l.type
    /\ IF n.node.type = "fdep"
       THEN Names(dft, n.children) = <<Head(l.children)>> /\ Names(dft, n.dependers) = Tail(l.children)
       ELSE Names(dft, n.children) = l.children /\ n.dependers = <<>>

\* The first of the rate and the probability that is written decides how the
\* event is computed, and is the one that is used; without either, the file is.
EventIsFaithful(n, l) ==
    LET first(label) == SelectInSeq(l.attrs, LAMBDA a : a.label = label)
        rate == first("lambda")
        prob == first("prob")
    IN  IF rate # 0 /\ (prob = 0 \/ rate < prob)
        THEN n.node.mode = "exponential" /\ n.node.lambda = l.attrs[rate].v /\ n.node.lambda >= 0
        ELSE IF prob # 0
        THEN n.node.mode = "probability" /\ n.node.prob = l.attrs[prob].v /\ n.node.prob \in 0..100
        ELSE n.node.mode = "aph" /\ n.node.file = "present"

InRange(p) == p.dorm >= 0 /\ p.maintain >= 0 /\ p.res \in 0..100 /\ (p.repair >= 0 \/ p.repair = -100)
Back(dft, out, in) ==
    \A i, j \in DOMAIN dft.nodes :
        Len(SelectSeq(out[i], LAMBDA c : c = j)) = Len(SelectSeq(in[j], LAMBDA p : p = i))

Faithful(dft, lines) ==
    LET of(n) == lines[SelectInSeq(lines, LAMBDA l : l.kind \in {"be", "gate"} /\ l.name = n.node.name)]
        all(f(_)) == [i \in DOMAIN dft.nodes |-> f(dft.nodes[i])]
    IN  /\ Len(dft.nodes) = Cardinality(NodesDefined(lines)) /\ dft.top \in DOMAIN dft.nodes
        /\ \A i \in DOMAIN dft.nodes :
              LET n == dft.nodes[i]
              IN  IF n.node.type = "be" THEN EventIsFaithful(n, of(n)) /\ InRange(n.parameters)
                                        ELSE GateIsFaithful(dft, n, of(n))
        /\ Back(dft, all(LAMBDA n : n.children), all(LAMBDA n : n.parents))
        /\ Back(dft, all(LAMBDA n : n.dependers), all(LAMBDA n : n.triggers))

Contradicts(l) ==
    l.kind = "be" /\ \E i, j \in DOMAIN l.attrs : i < j /\ l.attrs[i].label = "prob" /\ l.attrs[j].label = "lambda"
                        /\ ~\E k \in 1..i : l.attrs[k].label = "lambda"

\* A file nobody could object to.
Plain(lines) ==
    /\ WellFormed(lines)
    /\ \A i \in DOMAIN lines :
          LET l == lines[i]
          IN  CASE l.kind = "be" ->
                      /\ {l.attrs[k].label : k \in DOMAIN l.attrs} \in {{"lambda"}, {"prob"}, {"aph"}}
                      /\ Len(l.attrs) = 1 /\ l.attrs[1] \in [label : STRING, type : {"real"}, v : 0..100]
                                                         \cup {Text("aph", "present")}
                [] l.kind = "gate" -> /\ l.type \notin {"phasedor", "transfer"}
                                      /\ ToSet(l.children) \subseteq NodesDefined(lines)
                [] l.kind = "toplevel" -> l.name \in NodesDefined(lines)
                [] OTHER -> FALSE

\* A plain file is translated.  A well-formed file that is translated is translated faithfully and without a
\* crash, and success means that there is a translation, that no event was given
\* a probability and then a rate, and that the evidence is of basic events.
Sound(lines, opt) ==
    \A o \in dft2lntc(lines, opt) :
        /\ WellFormed(lines) =>
              /\ o.exit # "crash"
              /\ o.written # {} => Faithful(o.dft, lines)
        /\ Plain(lines) => o.written # {}
        /\ o.exit = "success" => o.written # {}
        /\ o.exit = "success" /\ ~opt.modules =>
              /\ \A i \in DOMAIN lines : ~Contradicts(lines[i])
              /\ {o.dft.nodes[i].node.name : i \in {j \in DOMAIN o.dft.nodes : o.dft.nodes[j].node.failed}}
                    = opt.evidence
=============================================================================
