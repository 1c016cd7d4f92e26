---------------------------- MODULE MCTestSuite ----------------------------
(***************************************************************************)
(* Two processes over one suite that can be written and one that cannot.   *)
(* What they find: a suite with verified values and results of both        *)
(* iterations, one in the old format with a test twice, one with a test in *)
(* a later format, none, a torn file.                                      *)
(***************************************************************************)
EXTENDS TestSuite

d1 == "d1"
d2 == "d2"
Test(name, uuid, format, file, verified, results) ==
    [name |-> name, uuid |-> uuid, had |-> uuid # 0, format |-> format, file |-> file,
     verified |-> verified, results |-> results]
Value(m, p) == [motive |-> m, failprob |-> p]

Verified ==
    <<Test("a", 1, 1, d1, {Value(1, 5), Value(2, 7)}, {Result(1, "dftcalc", 7), Result(3, "dftcalc", 5)}),
      Test("b", 2, 1, d1, {}, {Result(1, "dftcalc", 6), Result(2, "coral", 6), Result(3, "dftcalc", 8)})>>
LaterFormat == <<Verified[1], Test("a", 1, 2, d2, {Value(1, 6)}, {Result(2, "dftcalc", 6)})>>
OldFormat ==
    <<Test("a", 0, 0, d1, {Value(1, 5)}, {Result(1, "dftcalc", Invalid), Result(2, "coral", 5)}),
      Test("a", 0, 0, d2, {}, {Result(2, "dftcalc", 5), Result(3, "coral", 6)})>>
MCFirstSuites ==
    {[s |-> Suite("ok", Verified), r |-> Missing], [s |-> Suite("ok", OldFormat), r |-> Missing],
     [s |-> Suite("ok", LaterFormat), r |-> Missing], [s |-> Missing, r |-> Suite("ok", OldFormat)], [s |-> Suite("torn", OldFormat), r |-> Missing]}

Cmd(mode, limitTests) == [tryOut |-> <<"s", "r">>, mode |-> mode, limitTests |-> limitTests]
MCCommands ==
    {Cmd("f", {}), Cmd("", {}), Cmd("c", {[file |-> d2, bare |-> TRUE]}), Cmd("", {[file |-> d2, bare |-> FALSE]})}
Swaps == Permutations(Procs)
=============================================================================
