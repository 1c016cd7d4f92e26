----------------------------- MODULE MCPipeline -----------------------------
(***************************************************************************)
(* Three inputs.  i1 and i2 have the same file name in different           *)
(* directories, i2 the output directory itself, and i2 has a modelling     *)
(* error; i3 is another tree whose translation is that of i1.              *)
(***************************************************************************)
EXTENDS Pipeline

i1 == "i1"
i2 == "i2"
i3 == "i3"
MCInputs == {i1, i2, i3}
MCNameOf == [i \in MCInputs |-> IF i = i3 THEN "y" ELSE "x"]
MCModulesOf == [i \in MCInputs |->
                 CASE i = i1 -> <<"constant", "constant">>
                   [] i = i2 -> <<"constant", "root">>
                   [] i = i3 -> <<"root">>]
MCShapeOf == [i \in MCInputs |-> IF i = i2 THEN "a" ELSE "b"]

Command(inputs, reuse, modular, ev, checker, conv) ==
    [inputs |-> inputs, reuse |-> reuse, modular |-> modular, ev |-> ev,
     checker |-> checker, conv |-> conv]

MCOptions ==
    {Command(is, r, FALSE, FALSE, c, "SVL") :
        is \in {<<i1>>, <<i2>>}, r \in BOOLEAN, c \in {"MRMC", "IMRMC"}}
    \cup {Command(<<i1, i3>>, r, FALSE, e, "STORM", v) :
        r \in BOOLEAN, e \in BOOLEAN, v \in {"SVL", "DFTRES"}}
    \cup {Command(<<i1, i2>>, r, TRUE, FALSE, "STORM", "DFTRES") : r \in BOOLEAN}
    \cup {Command(<<i2, i1>>, r, FALSE, FALSE, "IMRMC", "DFTRES") : r \in BOOLEAN}
    \cup {Command(<<i1>>, FALSE, m, m, c, "SVL") : c \in {"EXP_ONLY", "IMCA"}, m \in BOOLEAN}
=============================================================================
