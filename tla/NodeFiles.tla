------------------------------ MODULE NodeFiles ------------------------------
(***************************************************************************)
(* The directory of generated automata (DFTreeNodeBuilder and              *)
(* DFTreeAUTNodeBuilder): one file per kind of node, shared by all nodes   *)
(* of that kind and kept for later trees.  A node is a record of all that  *)
(* its automaton or its file name is made of.                              *)
(***************************************************************************)
EXTENDS Naturals, Sequences, SequencesExt, FiniteSets

\* The name of the file, as the list of its parts.
Flag(b, name) == IF b THEN <<name>> ELSE <<>>
RepairPart(n) ==
    IF ~n.rm THEN IF n.im THEN <<"im">> ELSE Flag(n.repairable, "repair")
    ELSE IF ~n.repairable THEN <<>>
    ELSE IF n.im THEN <<"imrm">> ELSE <<"rm">>
EventName(n) ==
    <<"be">> \o Flag(n.cold, "cold") \o Flag(n.maintain, "maintain") \o RepairPart(n)
    \o Flag(n.dummy, "dummy") \o Flag(n.failed, "failed")
    \o (IF n.phases > 1 THEN <<"erl", n.phases>> ELSE <<>>)
    \o (IF n.interval > 0 THEN <<"interval", n.interval>> ELSE <<>>)
    \o Flag(n.active, "aa")
GateName(n) ==
    <<n.type, "c", n.children>>
    \o (CASE n.type = "voting" -> <<"t", n.threshold>>
          [] n.type = "fdep" -> <<"d", n.dependers>>
          [] n.type = "replacement" -> <<"p", n.phases>>
          [] OTHER -> <<>>)
    \o Flag(n.repairable, "r") \o Flag(n.active, "aa")
getNodeName(n) ==
    IF n.type = "be" THEN EventName(n)
    ELSE IF n.type = "ru_nd" THEN <<n.type, n.children>> ELSE GateName(n)

\* The parameters of the generated automaton; none for types without one.
Automaton(n) ==
    CASE n.type = "be" ->
            <<"be", n.phases, n.interval, n.cold, n.repairable, ~n.im, ~n.rm, n.active, n.res, n.failed>>
      [] n.type = "or" -> <<"voting", n.children, 1, n.active>>
      [] n.type = "and" -> <<"voting", n.children, n.children, n.active>>
      [] n.type = "voting" -> <<"voting", n.children, n.threshold, n.active>>
      [] n.type = "pand" -> <<"pand", n.children, n.active>>
      [] n.type = "wsp" -> <<"spare", n.children, n.active, n.repairable>>
      [] n.type = "fdep" -> <<"fdep", n.dependers, n.trigger>>
      [] n.type = "inspection" -> <<"insp", n.children, IF n.phases = 0 THEN 1 ELSE n.phases>>
      [] OTHER -> <<>>

\* The version file holds a number and nothing after it, so that reading the
\* number meets the end of the file and the stream is no longer good.
VERSION == 2
make_valid == [version |-> VERSION, ended |-> TRUE]
\* A mutant for FilesFitNodes: with the test of the stream repaired, the version of
\* a file that was being rewritten when the process was killed is believed.
already_validRepaired(v) == v.version >= VERSION
already_valid(v) == ~v.ended /\ v.version >= VERSION

\* One node's file: written, synchronised, and only then declared valid.
GenerateNode(acc, n, fails) ==
    LET name == getNodeName(n)
    IN  IF acc.result # 0 \/ already_valid(acc.files[name].valid) THEN acc
        ELSE IF Automaton(n) = <<>> THEN [acc EXCEPT !.result = 1]
        ELSE IF fails
             THEN [acc EXCEPT !.files[name].content = <<"partial">>, !.errors = TRUE]
             ELSE [acc EXCEPT !.files[name] = [content |-> Automaton(n), valid |-> make_valid]]

\* An error on the way is reported, and the loop goes on to a result of 0.
generate(nodes, files, failing) ==
    LET from[i \in 0..Len(nodes)] ==
            IF i = 0 THEN [files |-> files, errors |-> FALSE, result |-> 0]
            ELSE LET acc == from[i - 1] IN GenerateNode(acc, nodes[i], i \in failing)
    IN  from[Len(nodes)]

-----------------------------------------------------------------------------
\* What the name of a file says nothing of, though the automaton depends on it:
\* whether the restoration factor is 1, the phases of an inspection, whether the
\* trigger of a dependency is always active, and the repair of an event that is
\* below an inspection or a repair unit but not repairable.
Unnamed(n) ==
    CASE n.type = "be" -> <<n.res, ~n.repairable /\ n.im, ~n.repairable /\ n.rm>>
      [] n.type = "inspection" -> <<n.phases>>
      [] n.type = "fdep" -> <<n.trigger>>
      [] OTHER -> <<>>

\* Whatever an earlier process left of the files, when no error was reported
\* every node finds its own automaton in its file, if nodes of one name agree on
\* what the name does not say.
FilesFit(nodes, files, failing) ==
    LET g == generate(nodes, files, failing)
        agree == \A i, j \in DOMAIN nodes :
                    getNodeName(nodes[i]) = getNodeName(nodes[j]) => Unnamed(nodes[i]) = Unnamed(nodes[j])
    IN  agree /\ g.result = 0 /\ ~g.errors =>
            \A i \in DOMAIN nodes : g.files[getNodeName(nodes[i])].content = Automaton(nodes[i])
=============================================================================
