------------------------------ MODULE Options ------------------------------
(***************************************************************************)
(* From the command line of dftcalc to the question a model checker is     *)
(* asked: the options in the order they are written, the corrections of    *)
(* main, the queries, the tools looked for, the text each checker is given *)
(* and the calls of dft2lntc as dft2lntc itself reads them.                *)
(*                                                                         *)
(* An argument is a record of a flag and its value.  A time is a number;   *)
(* Bad stands for text that is no number in the range that is asked for.   *)
(***************************************************************************)
EXTENDS Integers, Sequences, SequencesExt, FiniteSets

Bad == -1
Unset == "unset"

Defaults ==
    [checker |-> "STORM", converter |-> "SVL", explicit |-> FALSE, exact |-> FALSE, expOnly |-> FALSE,
     min |-> Unset, modular |-> FALSE, mttf |-> FALSE, steady |-> FALSE, colour |-> TRUE,
     error |-> 0, custom |-> FALSE, evidence |-> FALSE, help |-> FALSE,
     timeSpecSet |-> FALSE, times |-> <<1>>, eventually |-> FALSE,
     range |-> <<>>, bounds |-> <<>>]

Checkers == [mrmc |-> "MRMC", imrmc |-> "IMRMC", imca |-> "IMCA", storm |-> "STORM", modest |-> "MODEST"]

\* One argument; anything else that begins with a dash is passed over in silence.
Parse(o, a) ==
    CASE o.help -> o
      [] a.flag \in DOMAIN Checkers -> [o EXCEPT !.checker = Checkers[a.flag], !.explicit = TRUE]
      [] a.flag = "exact" ->
            [o EXCEPT !.exact = TRUE, !.converter = "DFTRES", !.checker = IF o.explicit THEN @ ELSE "IMRMC"]
      [] a.flag = "x" -> [o EXCEPT !.checker = "EXP_ONLY", !.expOnly = TRUE]
      [] a.flag \in {"min", "max"} -> [o EXCEPT !.min = a.flag]
      [] a.flag = "M" -> [o EXCEPT !.modular = TRUE]
      [] a.flag = "m" -> [o EXCEPT !.mttf = TRUE]
      [] a.flag = "s" -> [o EXCEPT !.steady = TRUE]
      [] a.flag = "f" -> [o EXCEPT !.custom = TRUE]
      [] a.flag = "e" -> [o EXCEPT !.evidence = TRUE]
      [] a.flag = "E" -> [o EXCEPT !.error = a.value]
      [] a.flag = "u" -> [o EXCEPT !.timeSpecSet = TRUE, !.eventually = TRUE]
      [] a.flag = "t" -> [o EXCEPT !.timeSpecSet = TRUE, !.eventually = FALSE, !.times = a.value]
      [] a.flag = "i" -> [o EXCEPT !.range = a.value]
      [] a.flag = "I" -> [o EXCEPT !.bounds = a.value]
      [] a.flag = "no-color" -> [o EXCEPT !.colour = FALSE]
      [] a.flag = "h" -> [o EXCEPT !.help = TRUE]
      [] OTHER -> o
Parsed(args) == FoldLeft(Parse, Defaults, args)

-----------------------------------------------------------------------------
(* The corrections, in the order of the code: each sees the ones before it *)

Converted(o, cadp) ==
    LET last == IF o.expOnly THEN [o EXCEPT !.checker = "EXP_ONLY"] ELSE o
        with == IF ~cadp /\ last.converter = "SVL" THEN [last EXCEPT !.converter = "DFTRES"] ELSE last
    IN  IF with.exact /\ with.checker \notin {"EXP_ONLY", "IMRMC", "MODEST", "STORM"}
        THEN [with EXCEPT !.checker = "IMRMC"] ELSE with

\* The field min of a Modest query is not written when neither option is given.
Directed(o) == IF o.min = Unset /\ o.checker # "MODEST" THEN [o EXCEPT !.min = "max"] ELSE o

Corrected(o) ==
    LET whole == IF o.mttf THEN [o EXCEPT !.modular = FALSE] ELSE o
        storm == \/ o.mttf /\ o.checker = "MRMC"
                 \/ o.steady /\ o.checker \in {"MRMC", "IMCA", "MODEST"}
    IN  IF storm THEN [whole EXCEPT !.checker = "STORM"] ELSE whole

-----------------------------------------------------------------------------
(* The queries *)

Query(o, type, lower, upper, step) ==
    [type |-> type, min |-> o.min, lower |-> lower, upper |-> upper, step |-> step]
NoStep == -1

\* A given interval is passed over when a list of times is given too.
TimeQueries(o) ==
    IF o.eventually THEN <<Query(o, "UNBOUNDED", Bad, Bad, NoStep)>>
    ELSE [n \in DOMAIN o.times |-> Query(o, "TIMEBOUND", 0, o.times[n], NoStep)]
DefaultTime(o) ==
    ~o.custom /\ o.range = <<>> /\ o.bounds = <<>> /\ ~o.steady /\ ~o.mttf
Queries(o) ==
    LET only(b, qs) == IF b THEN qs ELSE <<>>
    IN  only(o.mttf, <<Query(o, "EXPECTEDTIME", Bad, Bad, NoStep)>>)
        \o only(o.steady, <<Query(o, "STEADY", Bad, Bad, NoStep)>>)
        \o only(o.bounds # <<>>, <<Query(o, "TIMEBOUND", o.bounds[1], o.bounds[2], NoStep)>>)
        \o only(o.custom, <<Query(o, "CUSTOM", Bad, Bad, NoStep)>>)
        \o (IF o.timeSpecSet \/ DefaultTime(o) THEN TimeQueries(o)
            ELSE only(o.range # <<>>, <<Query(o, "TIMEBOUND", o.range[1], o.range[2], o.range[3])>>))

\* What is reported as an error before the calculation starts.
Wrong(o) ==
    \/ o.error = Bad
    \/ o.bounds # <<>> /\ (o.bounds[1] = Bad \/ o.bounds[2] \in {Bad, 0})
    \/ o.timeSpecSet /\ ~o.eventually /\ (o.times = <<>> \/ \E n \in DOMAIN o.times : o.times[n] = Bad)
    \/ /\ ~o.timeSpecSet /\ o.range # <<>>
       /\ Bad \in {o.range[1], o.range[2], o.range[3]} \/ 0 \in {o.range[2], o.range[3]}
          \/ o.range[1] > o.range[2]

main(args, cadp) ==
    LET o == Corrected(Directed(Converted(Parsed(args), cadp)))
    IN  [status |-> IF o.help THEN "help" ELSE IF Wrong(o) THEN "error" ELSE "run",
         options |-> o, queries |-> Queries(o)]

-----------------------------------------------------------------------------
(* The tools: what checkNeededTools looks for, what calculateDFT runs *)

\* The root of imc2ctmdp is only asked for with CADP, and required without too.
checkNeededTools(o, cadp) ==
    {"dft2lntc"}
    \cup (IF o.checker = "MRMC" THEN {IF cadp THEN "imc2ctmdp" ELSE "coral"} ELSE {})
    \cup (IF cadp /\ o.checker = "IMCA" THEN {"bcg2imca"} ELSE {})
    \cup (IF cadp /\ o.converter = "SVL" THEN {"svl", "bcg_io", "bcg_info", "bcg_min"} ELSE {})
    \cup (IF o.converter = "DFTRES" THEN {"dftres", "java"} ELSE {})
    \cup (CASE o.checker = "STORM" -> {"storm"} [] o.checker = "MRMC" -> {"mrmc"}
            [] o.checker = "IMRMC" -> {"imrmc"} [] o.checker = "IMCA" -> {"imca"} [] OTHER -> {})

\* The converter between the state space and the checker, and the checker: for
\* two of them an error when the program was built without CADP.
Backend(o, cadp) ==
    CASE o.checker \in {"MRMC", "IMCA"} /\ ~cadp -> {}
      [] o.checker = "MRMC" -> {"imc2ctmdp", "mrmc"}
      [] o.checker = "IMRMC" -> {"imrmc"} \cup IF o.converter = "SVL" THEN {"bcg2tralab"} ELSE {}
      [] o.checker = "IMCA" -> {"bcg2imca", "imca"}
      [] o.checker = "STORM" -> {"storm"} \cup IF o.converter = "SVL" THEN {"bcg2jani"} ELSE {}
      [] o.checker = "MODEST" -> {"mcsta"} \cup IF o.converter = "SVL" THEN {"bcg2jani"} ELSE {}
      [] OTHER -> {}
calculateDFT(o, cadp) ==
    {"dft2lntc"} \cup
    (IF o.expOnly THEN {}
     ELSE (IF o.converter = "DFTRES" THEN {"java", "dftres"}
           ELSE {"svl", "maxprog", "bcg_io", "bcg_min", "bcg_info"}) \cup Backend(o, cadp))

-----------------------------------------------------------------------------
(* The text each checker is given, as what it means *)

\* Steps of a range of times, one query each; IMCA takes the range as it is.
expandRangeQueries(qs) ==
    LET expand(q) ==
            IF q.step = NoStep THEN <<q>>
            ELSE [n \in 1..((q.upper - q.lower) \div q.step + 1) |->
                    [q EXCEPT !.lower = 0, !.upper = q.lower + (n - 1) * q.step, !.step = NoStep]]
    IN  FlattenSeq([n \in DOMAIN qs |-> expand(qs[n])])

Means(type, min, lower, upper, step) ==
    [type |-> type, min |-> min, lower |-> lower, upper |-> upper, step |-> step]
Throws == Means("logic_error", Unset, Bad, Bad, NoStep)

\* getQuery of mrmc.cpp and storm.cpp: every field is written out.
MrmcQuery(q) ==
    IF q.type = "CUSTOM" \/ (q.type = "TIMEBOUND" /\ q.step # NoStep) THEN Throws
    ELSE Means(q.type, q.min, q.lower, q.upper, q.step)
StormQuery(q) == MrmcQuery(q)
\* getOptions of imca.cpp.
ImcaQuery(q) ==
    IF q.type \in {"CUSTOM", "STEADY"} THEN Throws ELSE Means(q.type, q.min, q.lower, q.upper, q.step)

\* The properties bcg2jani writes, over the constants L and T, by name.
JaniProperties(T, L) ==
    [TBLmax_Unreliability |-> Means("TIMEBOUND", "max", L, T, NoStep),
     TBmax_Unreliability  |-> Means("TIMEBOUND", "max", 0, T, NoStep),
     TBmin_Unreliability  |-> Means("TIMEBOUND", "min", L, T, NoStep),
     UBmax_Unreliability  |-> Means("UNBOUNDED", "max", Bad, Bad, NoStep),
     \* No until here: the property of the initial state alone.
     UBmin_Unreliability  |-> Means("INITIAL", "min", Bad, Bad, NoStep),
     min_Unavailability   |-> Means("STEADY", "min", Bad, Bad, NoStep),
     max_Unavailability   |-> Means("STEADY", "max", Bad, Bad, NoStep),
     max_MTTF             |-> Means("EXPECTEDTIME", "max", Bad, Bad, NoStep),
     min_MTTF             |-> Means("EXPECTEDTIME", "min", Bad, Bad, NoStep)]

\* getQuery of modest.cpp; an unwritten min is whatever the memory holds.
ModestName(q, min) ==
    CASE q.type = "EXPECTEDTIME" -> IF min THEN "min_MTTF" ELSE "max_MTTF"
      [] q.type = "STEADY" -> IF min THEN "min_Unavailability" ELSE "max_Unavailability"
      [] q.type = "TIMEBOUND" ->
            IF min THEN "TBmin_Unreliability"
            ELSE IF q.lower = 0 THEN "TBmax_Unreliability" ELSE "TBLmax_Unreliability"
      [] OTHER -> IF min THEN "UBmin_Unreliability" ELSE "UBmax_Unreliability"
\* The probability by time 0 is taken to be 0 without a question.
ModestQueries(q) ==
    LET mins == IF q.min = Unset THEN BOOLEAN ELSE {q.min = "min"}
        bound == IF q.type = "TIMEBOUND" THEN <<q.upper, q.lower>> ELSE <<1, 0>>
    IN  IF q.type = "CUSTOM" THEN {Throws}
        ELSE IF q.type = "TIMEBOUND" /\ q.upper = 0 THEN {}
        ELSE {JaniProperties(bound[1], bound[2])[ModestName(q, min)] : min \in mins}

\* Everything the checker may be asked for the queries, one set per question.
Asked(o, qs) ==
    LET ranges == IF o.checker = "IMCA" THEN qs ELSE expandRangeQueries(qs)
        ask(q) == CASE o.checker = "IMCA" -> {ImcaQuery(q)}
                    [] o.checker = "MODEST" -> ModestQueries(q)
                    [] o.checker = "STORM" -> {StormQuery(q)}
                    [] OTHER -> {MrmcQuery(q)}
    IN  [n \in DOMAIN ranges |-> ask(ranges[n])]

-----------------------------------------------------------------------------
(* The calls of dft2lntc, and how dft2lntc reads them *)

Arg(flag, value) == [flag |-> flag, value |-> value]
File(name) == Arg("", name)

\* calcModular; calculateDFT for the whole tree (root "") or one module of it.
ModulariseCall == <<Arg("m", "mod"), File("original")>>
CanonicaliseCall(root) ==
    <<Arg("t", "dft")>> \o (IF root = "" THEN <<>> ELSE <<Arg("r", ""), File(root)>>) \o <<File("original")>>
\* The last option is passed with a blank before it.
TranslateCall(o) ==
    <<Arg("s", "svl"), Arg("x", "exp"), Arg("b", "bcg"), Arg("n", "original")>>
    \o (IF o.evidence THEN <<Arg("e", "evidence")>> ELSE <<>>)
    \o (IF o.colour THEN <<>> ELSE <<File(" --no-color")>>)
    \o <<File("dft")>>

\* -r is not known and passed over, so that its value is taken for the input.
\* Behind the first input every further one is an error that ends in the help text.
Understood(files, r, a) ==
    CASE r.status # "ok" -> r
      [] a.flag # "" /\ r.input = "" ->
            IF a.flag \in {"m", "t", "s", "x", "b", "n", "e"}
            THEN [r EXCEPT !.given = @ \cup {<<a.flag, a.value>>}] ELSE r
      [] r.input # "" -> [r EXCEPT !.status = "help"]
      [] a.value \notin files -> [r EXCEPT !.status = "error"]
      [] OTHER -> [r EXCEPT !.input = a.value]
dft2lntcCall(args, files) ==
    FoldLeft(LAMBDA r, a : Understood(files, r, a), [status |-> "ok", input |-> "", given |-> {}], args)
=============================================================================
