---------------------------- MODULE MCAlgorithms ----------------------------
(***************************************************************************)
(* The sequential parts of the tools on every small input.  The state is   *)
(* the input: its arguments are drawn one after another, so that the       *)
(* checker spreads the work, and the properties speak of finished inputs.  *)
(***************************************************************************)
EXTENDS ConverterSpec, ModuleSpec, NumberSpec, ValidationSpec, NodeFiles, OptionSpec

VARIABLE job

Init == job = [kind |-> "none", args |-> <<>>]
Draw(kind, choices) ==
    /\ job.kind \in {"none", kind} /\ Len(job.args) < Len(choices)
    /\ \E x \in choices[Len(job.args) + 1] : job' = [kind |-> kind, args |-> Append(job.args, x)]
Complete(kind, n) == job.kind = kind /\ Len(job.args) = n

-----------------------------------------------------------------------------
(* State spaces: what each state does *)

RatesTo(ts) == [kind : {"rate"}, to : ts]
GraphOf(moves) ==
    [states |-> 0..(Len(moves) - 1),
     edges |-> {Edge(i - 1, m.kind, IF IsInteractive(m) THEN 0 ELSE i + m.to, m.to) :
                   <<i, m>> \in UNION {{i} \X moves[i] : i \in DOMAIN moves}}]

Signals(s) == {{[kind |-> k, to |-> t]} : k \in {"FAIL", "ONLINE"}, t \in (0..3) \ {s}}
ChainChoices ==
    [i \in 1..4 |-> LET rated == {RatesTo(ts) : ts \in SUBSET ((0..3) \ {i - 1})}
                    IN  IF i = 1 THEN rated ELSE rated \cup Signals(i - 1)]
DrawChain == Draw("chain", ChainChoices)

\* At most one edge of each kind, not to the state itself.
ProgressChoices ==
    [i \in 1..3 |->
        LET move(k) == {{}} \cup {{[kind |-> k, to |-> t]} : t \in (0..2) \ {i - 1}}
        IN  {a \cup b \cup c : a \in move("rate"), b \in move("time"), c \in move("FAIL")}]
DrawProgress == Draw("progress", ProgressChoices)

DrawTimes == Draw("times", [i \in 1..3 |-> 1..5])

-----------------------------------------------------------------------------
(* Trees: a top 1, a gate 2, basic events 3 to 5 and a dependency 6 *)

None == <<>>
Lists(S) == {Ascending(T) : T \in SUBSET S \ {{}}}
TreeChoices ==
    <<{"and", "or", "voting", "pand"}, Lists({2, 3, 4, 6}) \ {<<6>>}, {"pand", "voting"}, Lists({3, 4, 5}),
      {{3, 4, 5}, {4}}, {None, <<2, 5>>, <<3, 4>>, <<3, 5>>, <<4, 3, 5>>, <<5, 3>>, <<5, 2>>}>>
TreeOf(a) ==
    LET Listed == 1..(IF a[6] = None THEN 5 ELSE 6)
    IN  Connected([top |-> 1, constant |-> a[5],
         type |-> [n \in Listed |-> CASE n = 1 -> a[1] [] n = 2 -> a[3] [] n = 6 -> "fdep" [] OTHER -> "be"],
         k |-> [n \in Listed |-> 2],
         children |-> [n \in Listed |-> CASE n = 1 -> SelectSeq(a[2], LAMBDA c : c \in Listed) [] n = 2 -> a[4]
                                        [] n = 6 -> a[6] [] OTHER -> None]])
DrawTree == Draw("tree", TreeChoices)

-----------------------------------------------------------------------------
(* Numbers of one to four blocks: tenths, units and hundreds *)

NumberChoices == <<0..80, {-1, 0, 2}, 0..80, {-1, 0}>>
DrawNumbers == Draw("numbers", NumberChoices)

-----------------------------------------------------------------------------
(* Files: an event of up to three attributes, a gate t, other lines, options *)

EventLine(name, attrs) == [kind |-> "be", name |-> name, attrs |-> attrs]
GateLine(type, children) == [kind |-> "gate", name |-> "t", type |-> type, children |-> children]
TopLine(name) == [kind |-> "toplevel", name |-> name]
FileOptions(modules, evidence) == [modules |-> modules, evidence |-> evidence]

OneAttribute == {<<>>, <<Real("lambda", 50)>>, <<Real("prob", 50)>>, <<Text("aph", "present")>>}
AnyAttribute == OneAttribute \cup
    {<<Real("lambda", -100)>>, <<Real("prob", 200)>>, <<Text("aph", "absent")>>, <<Real("rate", 100)>>,
     <<Real("phases", 50)>>, <<Real("dorm", 50)>>, <<Text("lambda", "present")>>}
FileChoices ==
    <<AnyAttribute, AnyAttribute, OneAttribute,
      {GateLine("and", <<"a", "b">>), GateLine("fdep", <<"b", "a", "a">>), GateLine("fdep", <<>>),
       GateLine("phasedor", <<"a">>), GateLine("hsp", <<"a">>), GateLine("or", <<"a", "x">>)},
      {<<EventLine("b", <<Real("prob", 100)>>)>>, <<EventLine("a", <<Real("prob", 0)>>)>>,
       <<EventLine("t", <<Real("prob", 0)>>)>>, <<EventLine("b", <<>>), TopLine("x")>>, <<[kind |-> "error"]>>},
      {FileOptions(FALSE, {}), FileOptions(FALSE, {"a"}), FileOptions(FALSE, {"a", "t"}), FileOptions(TRUE, {})}>>
FileOf(a) == <<EventLine("a", a[1] \o a[2] \o a[3]), TopLine("t")>> \o a[5] \o <<a[4]>>
DrawFile == Draw("file", FileChoices)

-----------------------------------------------------------------------------
(* Two nodes: the second differs from the first in at most two respects *)

Flags == {"cold", "repairable", "rm", "im", "failed", "active", "res", "trigger", "maintain", "dummy"}
Counts == {"phases", "interval", "children", "threshold", "dependers"}
Plainest ==
    [f \in Flags \cup Counts \cup {"type"} |->
        CASE f \in Flags -> FALSE [] f = "type" -> "be" [] f \in {"phases", "children"} -> 1 [] OTHER -> 0]
Toggled(n, fs) ==
    [f \in DOMAIN n |-> IF f \notin fs THEN n[f] ELSE IF f \in Flags THEN ~n[f] ELSE n[f] + 1]
OfEvents == {"cold", "repairable", "rm", "im", "failed", "active", "res", "phases", "interval"}
OfGates == {"repairable", "active", "trigger", "children", "threshold", "dependers", "phases"}
NodeTypes == {"or", "and", "voting", "pand", "wsp", "fdep", "inspection", "ru_nd", "sand"}
NodeChoices ==
    <<{Toggled(Plainest, fs) : fs \in SUBSET OfEvents}
        \cup {Toggled([Plainest EXCEPT !.type = k], fs) : k \in NodeTypes, fs \in SUBSET OfGates},
      UNION {kSubset(k, (Flags \cup Counts)) : k \in 0..2},
      {{}, {1}, {2}}>>
NodesOf(a) == <<a[1], Toggled(a[1], a[2])>>
\* Left by a process that was killed while it wrote a file for the second time.
LeftOver(nodes) ==
    [name \in {getNodeName(nodes[i]) : i \in DOMAIN nodes} |-> [content |-> <<"partial">>, valid |-> make_valid]]
DrawNodes == Draw("nodes", NodeChoices)

-----------------------------------------------------------------------------
(* Command lines of up to three arguments *)

Argument(flag, values) == {Arg(flag, v) : v \in values}
Arguments ==
    UNION {Argument(f, {""}) : f \in {"mrmc", "imrmc", "imca", "storm", "modest", "exact", "x", "min", "max",
                                      "M", "m", "s", "f", "e", "u", "no-color", "h", "other"}}
    \cup Argument("E", {1, Bad}) \cup Argument("t", {<<>>, <<0>>, <<2, 1>>, <<1, Bad>>})
    \cup Argument("i", {<<1, 3, 1>>, <<0, 3, 2>>, <<3, 1, 1>>, <<1, 3, 0>>}) \cup Argument("I", {<<0, 2>>, <<1, 2>>, <<1, 0>>})
OptionChoices == <<{TRUE, FALSE}, Arguments, Arguments, Arguments>>
DrawOptions == Draw("options", OptionChoices)

Next == DrawOptions \/ DrawNodes \/ DrawFile \/ DrawNumbers \/ DrawChain \/ DrawProgress \/ DrawTimes \/ DrawTree
Spec == Init /\ [][Next]_job

-----------------------------------------------------------------------------
(* Properties *)

\* Whatever the state space: .tra/.lab and .jani describe the chain of the .bcg
\* they were made from, maximal progress drops no behaviour that can happen, and
\* the phases made for several inspection intervals are multiples of them.
ConvertersAgree ==
    /\ Complete("chain", 4) /\ Canonical(GraphOf(job.args)) =>
          TralabIsChain(GraphOf(job.args)) /\ JaniIsChain(GraphOf(job.args))
    /\ Complete("progress", 3) =>
          LET g == GraphOf(job.args) IN KeepsProgress(g) /\ StepsAreFunctions(maxprog(g))
    /\ job.kind = "times" /\ IsInjective(job.args) => StepsAreMultiples(job.args)

\* Decimal numbers of any number of blocks are subtracted, compared, printed and
\* read back exactly, and added exactly as long as no carry has to be passed on.
NumbersExact ==
    /\ Complete("numbers", 2) => SameWhenRead(Number(job.args[1], job.args[2]))
    /\ Complete("numbers", 4) =>
          LET a == Number(job.args[1], job.args[2])
              b == Number(job.args[3], job.args[4])
          IN  DifferenceIsExact(a, b) /\ SumIsExact(a, b)

\* A file that dft2lntc accepts gives a tree the composition can be built of,
\* whatever the order and the repetition of its attributes and lines.
AcceptedTreesAreSound == Complete("file", 6) => Sound(FileOf(job.args), job.args[6])

\* After generate() each node finds under its name the automaton of its own
\* parameters, also when a killed process has left half a file there, but for
\* the parameters that the names omit.
FilesFitNodes ==
    Complete("nodes", 3) => LET ns == NodesOf(job.args) IN FilesFit(ns, LeftOver(ns), job.args[3])


\* A tree none of whose modules is disturbed by a dependency from outside has
\* the same answer in modules (-M) as in one piece, and keeps its top.
ModulesExact ==
    Complete("tree", 6) =>
        LET t == TreeOf(job.args)
        IN  KeepsTheTop(t) /\ (Undisturbed(t) => AnswersTheWhole(t))

\* The same of every tree of constants: a module is "static" and "independent"
\* of the rest, so that -M changes the way to the answer and not the answer.
ModulesAnswerTheWhole ==
    Complete("tree", 6) => LET t == TreeOf(job.args) IN t.constant = Events(t) => AnswersTheWhole(t)
=============================================================================
