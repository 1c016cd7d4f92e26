------------------------------ MODULE Validation ------------------------------
(***************************************************************************)
(* The front end of dft2lntc: from the lines of a Galileo file to a tree   *)
(* that is translated, or to a refusal (ASTValidator, ASTDFTBuilder,       *)
(* DFTreeValidator and the order of main).  A line is a record:            *)
(*   [kind |-> "toplevel", name], [kind |-> "gate", name, type, children], *)
(*   [kind |-> "be", name, attrs] or [kind |-> "error"], which the parser  *)
(*   could not read.  A value is a number in hundredths or a file name.    *)
(*                                                                         *)
(* The lexer never returns NUMBER, so page lines and whole numbers cannot  *)
(* be read: every number is a float attribute.                             *)
(***************************************************************************)
EXTENDS Integers, Sequences, FiniteSets, SequencesExt

Attribute(label, type, v) == [label |-> label, type |-> type, v |-> v]
Real(label, v) == Attribute(label, "real", v)
Text(label, v) == Attribute(label, "string", v)

NodesDefined(lines) == {lines[i].name : i \in {j \in DOMAIN lines : lines[j].kind \in {"be", "gate"}}}

-----------------------------------------------------------------------------
(* ASTValidator: the possible verdicts, of parts and of the whole *)

Conjunction(verdicts) ==
    {b \in BOOLEAN : IF b THEN \A v \in verdicts : TRUE \in v ELSE \E v \in verdicts : FALSE \in v}

\* A float given where a whole number is wanted is read as an object of another
\* class: whatever is found there may be negative.
visitAttribute(a) ==
    LET numeric == a.type = "real"
    IN  CASE a.label \in {"lambda", "dorm", "maintain", "repair"} -> {numeric /\ a.v >= 0}
          [] a.label \in {"prob", "res"} -> {numeric /\ a.v \in 0..100}
          [] a.label \in {"prio", "phases", "interval"} -> IF numeric THEN BOOLEAN ELSE {FALSE}
          [] a.label = "aph" -> {a.type = "string" /\ a.v = "present"}
          [] OTHER -> {TRUE}      \* only a warning

\* buildGate returns nothing for the other types.
Supported == {"or", "and", "sand", "hsp", "wsp", "csp", "pand", "por", "seq", "voting", "fdep",
              "ru", "ru_f", "ru_p", "ru_nd", "inspection", "replacement"}
TypeBuilt(type) == IF type \in {"hsp", "wsp", "csp"} THEN "wsp" ELSE type

visitLine(lines, l) ==
    CASE l.kind = "toplevel" -> {l.name \in NodesDefined(lines)}
      [] l.kind = "be" -> Conjunction({visitAttribute(l.attrs[i]) : i \in DOMAIN l.attrs})
      [] l.kind = "gate" ->
            {l.type \in Supported /\ \A i \in DOMAIN l.children : l.children[i] \in NodesDefined(lines)}

validate(lines) ==
    IF NodesDefined(lines) = {} THEN {FALSE}
    ELSE Conjunction({visitLine(lines, lines[i]) : i \in DOMAIN lines})

-----------------------------------------------------------------------------
(* ASTDFTBuilderPass1: the nodes, and what the attributes say of an event *)

NewEvent(name) ==
    [name |-> name, type |-> "be", mode |-> "undefined", lambda |-> -100, prob |-> 100,
     file |-> "", clash |-> FALSE, failed |-> FALSE]

TakeLambda(be, a) ==
    IF be.mode = "exponential" THEN be
    ELSE IF be.mode = "probability" THEN [be EXCEPT !.clash = TRUE]
    ELSE [be EXCEPT !.lambda = a.v, !.mode = "exponential"]
\* A mutant for AcceptedTreesAreSound: the later attribute decides.
TakeProbAlways(be, a) == [be EXCEPT !.prob = a.v, !.mode = "probability"]
\* An exponential event with a probability keeps its rate and has both.
TakeProb(be, a) ==
    IF be.mode = "probability" THEN be
    ELSE IF be.mode = "exponential" THEN [be EXCEPT !.prob = a.v]
    ELSE [be EXCEPT !.prob = a.v, !.mode = "probability"]
\* Distributions in a file, and Weibull rates, in loops of their own afterwards.
TakeOther(be, a, mode) ==
    IF be.mode = mode THEN [be EXCEPT !.clash = TRUE]
    ELSE IF be.mode # "undefined" THEN be
    ELSE IF mode = "aph" THEN [be EXCEPT !.file = a.v, !.mode = mode]
    ELSE [be EXCEPT !.mode = mode]

TakeAll(be, attrs, label, take(_, _)) ==
    FoldLeft(take, be, SelectSeq(attrs, LAMBDA a : a.label \in label))

\* The last attribute of its kind counts; whole numbers are truncated.
LastOf(attrs, label, default) ==
    LET given == SelectSeq(attrs, LAMBDA a : a.label = label)
    IN  IF given = <<>> THEN default ELSE Last(given).v
Truncated(v) == IF v < 0 THEN -((-v) \div 100) ELSE v \div 100
Parameters(attrs) ==
    [dorm |-> LastOf(attrs, "dorm", 0), res |-> LastOf(attrs, "res", 0),
     maintain |-> LastOf(attrs, "maintain", 0), repair |-> LastOf(attrs, "repair", -100),
     phases |-> Truncated(LastOf(attrs, "phases", 100)),
     interval |-> Truncated(LastOf(attrs, "interval", 0)),
     priority |-> Truncated(LastOf(attrs, "prio", 0)),
     repairable |-> \E i \in DOMAIN attrs : attrs[i].label \in {"repair", "interval"}]

buildEvent(l) ==
    LET rated == TakeAll(NewEvent(l.name), l.attrs, {"lambda", "prob"},
                         LAMBDA be, a : IF a.label = "lambda" THEN TakeLambda(be, a) ELSE TakeProb(be, a))
        phased == TakeAll(rated, l.attrs, {"aph"}, LAMBDA be, a : TakeOther(be, a, "aph"))
        be == TakeAll(phased, l.attrs, {"rate"}, LAMBDA e, a : TakeOther(e, a, "weibull"))
    IN  [be |-> be, parameters |-> Parameters(l.attrs)]
buildGate(l) == [be |-> [NewEvent(l.name) EXCEPT !.type = TypeBuilt(l.type)], parameters |-> Parameters(<<>>)]

-----------------------------------------------------------------------------
(* ASTDFTBuilder: the connections; a name stands for its first node *)

Tree(lines) ==
    LET defining == SelectSeq(lines, LAMBDA l : l.kind \in {"be", "gate"})
    IN  [i \in DOMAIN defining |->
            LET built == IF defining[i].kind = "be" THEN buildEvent(defining[i]) ELSE buildGate(defining[i])
            IN  [node |-> built.be, parameters |-> built.parameters,
                 children |-> <<>>, parents |-> <<>>, dependers |-> <<>>, triggers |-> <<>>]]
getNode(t, name) == SelectInSeq(t, LAMBDA n : n.node.name = name)

Adopt(t, g, c) ==
    [n \in DOMAIN t |-> [t[n] EXCEPT !.children = IF n = g THEN Append(@, c) ELSE @,
                                     !.parents = IF n = c THEN Append(@, g) ELSE @]]
Depend(t, g, c) ==
    [n \in DOMAIN t |-> [t[n] EXCEPT !.dependers = IF n = g THEN Append(@, c) ELSE @,
                                     !.triggers = IF n = c THEN Append(@, g) ELSE @]]
Connect(t, l) ==
    LET g == getNode(t, l.name)
        nodes == [i \in DOMAIN l.children |-> getNode(t, l.children[i])]
    IN  IF t[g].node.type # "fdep" THEN FoldLeft(LAMBDA x, c : Adopt(x, g, c), t, nodes)
        ELSE FoldLeft(LAMBDA x, c : Depend(x, g, c), Adopt(t, g, nodes[1]), Tail(nodes))

Gates(lines) == SelectSeq(lines, LAMBDA l : l.kind = "gate")
\* An event taken for a gate, or the trigger of a dependency without children.
Crashes(lines) ==
    \E i \in DOMAIN Gates(lines) :
        LET t == Tree(lines)
            l == Gates(lines)[i]
            type == t[getNode(t, l.name)].node.type
        IN  type = "be" \/ (type = "fdep" /\ l.children = <<>>)

build(lines) ==
    LET tops == SelectSeq(lines, LAMBDA l : l.kind = "toplevel")
        t == FoldLeft(Connect, Tree(lines), Gates(lines))
    IN  [nodes |-> t, top |-> IF tops = <<>> THEN 0 ELSE getNode(t, Last(tops).name)]

-----------------------------------------------------------------------------
(* DFTreeValidator: every reference exists by now *)

validateBasicEvent(n) ==
    CASE n.node.mode = "exponential" -> n.node.lambda >= 0 /\ n.parameters.dorm * n.node.lambda >= 0
      [] n.node.mode = "probability" -> n.node.prob >= 0
      [] n.node.mode = "aph" -> TRUE
      [] OTHER -> FALSE
validateNodes(dft) ==
    \A i \in DOMAIN dft.nodes : dft.nodes[i].node.type = "be" => validateBasicEvent(dft.nodes[i])

-----------------------------------------------------------------------------
(* main: what is written and how it ends, for each possible verdict *)

NoTree == [nodes |-> <<>>, top |-> 0]
Ends(exit, written, dft) == [exit |-> exit, written |-> written, dft |-> dft]

applyEvidence(dft, names) ==
    [dft EXCEPT !.nodes = [i \in DOMAIN @ |->
        [@[i] EXCEPT !.node.failed = @ \/ \E n \in names : /\ getNode(dft.nodes, n) = i
                                                           /\ dft.nodes[i].node.type = "be"]]]
Misplaced(dft, names) ==
    {n \in names : LET i == getNode(dft.nodes, n) IN i = 0 \/ dft.nodes[i].node.type # "be"}

Build(lines, opt) ==
    LET dft == build(lines)
        valid == validateNodes(dft)
        clash == \E i \in DOMAIN dft.nodes : dft.nodes[i].node.clash
        errors == clash \/ ~valid \/ Misplaced(dft, opt.evidence) # {}
    IN  IF Crashes(lines) THEN Ends("crash", {}, NoTree)
        ELSE IF valid /\ opt.modules THEN Ends("success", {"mod"}, dft)     \* errors are forgotten
        ELSE Ends(IF errors THEN "failure" ELSE "success", IF valid THEN {"exp", "svl"} ELSE {},
                  IF valid THEN applyEvidence(dft, opt.evidence) ELSE NoTree)

dft2lntc(lines, opt) ==
    LET parsed == \A i \in DOMAIN lines : lines[i].kind # "error"
    IN  {IF v THEN Build(lines, opt) ELSE Ends("failure", {}, NoTree) :
            v \in IF parsed THEN validate(lines) ELSE {FALSE}}
=============================================================================
