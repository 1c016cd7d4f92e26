----------------------------- MODULE OptionSpec -----------------------------
(***************************************************************************)
(* What a command line asks for by the help text of dftcalc (print_help),  *)
(* without a look at how main gets there, and what main and the wrappers   *)
(* of the model checkers make of it (module Options).                      *)
(*                                                                         *)
(* Where the text is silent this takes over what main does: of -t and -u   *)
(* the last counts, and hides -i.  Where main does not do as the text says *)
(* no more is compared than the two have in common:                        *)
(*   - "-m overrules -i, -t, -u": main asks those questions as well;       *)
(*   - "-m overrules --imrmc": main replaces no checker but MRMC, and      *)
(*     nothing is said here of the checker that answers;                   *)
(*   - "--min (default)": main takes the maximum, and so does the text of  *)
(*     --help=output for Storm; without --min and --max no direction is    *)
(*     compared;                                                           *)
(*   - "-f overrules -i, -s, -m, -t and -u", and -m is said to overrule   *)
(*     -f: main asks them all; lines with -f are left out.                 *)
(***************************************************************************)
EXTENDS Options

Given(args, flags) == \E n \in DOMAIN args : args[n].flag \in flags
LastGiven(args, flags) ==
    args[CHOOSE n \in DOMAIN args :
            args[n].flag \in flags /\ \A m \in n + 1..Len(args) : args[m].flag \notin flags]
DirectionGiven(args) == Given(args, {"min", "max"})
Direction(args) == LastGiven(args, {"min", "max"}).flag

ByTime(t) == [type |-> "TIMEBOUND", lower |-> 0, upper |-> t]
Timeless(type) == [type |-> type, lower |-> Bad, upper |-> Bad]

\* The questions of -t, -u and -i.
Timed(args) ==
    LET value(flag) == LastGiven(args, {flag}).value
        range == value("i")
    IN  IF Given(args, {"t", "u"})
        THEN IF LastGiven(args, {"t", "u"}).flag = "u" THEN {Timeless("UNBOUNDED")}
             ELSE {ByTime(value("t")[n]) : n \in DOMAIN value("t")}
        ELSE IF Given(args, {"i"})
        THEN {ByTime(t) : t \in {u \in range[1]..range[2] : (u - range[1]) % range[3] = 0}}
        ELSE {}

\* All that is asked for, but for what -m overrules; one time unit stands for no
\* question at all.
Wanted(args) ==
    LET if(flag, S) == IF Given(args, {flag}) THEN S ELSE {}
        bounds == LastGiven(args, {"I"}).value
    IN  if("m", {Timeless("EXPECTEDTIME")}) \cup if("s", {Timeless("STEADY")})
        \cup if("I", {[type |-> "TIMEBOUND", lower |-> bounds[1], upper |-> bounds[2]]})
        \cup (IF Given(args, {"m"}) THEN {} ELSE Timed(args))
        \cup (IF Given(args, {"m", "s", "I", "t", "u", "i"}) THEN {} ELSE {ByTime(1)})

\* The points in time a question is about: IMCA takes a range as it is.
Points(m) ==
    IF m.step = NoStep THEN {[type |-> m.type, lower |-> m.lower, upper |-> m.upper]}
    ELSE {ByTime(t) : t \in {u \in m.lower..m.upper : (u - m.lower) % m.step = 0}}

\* Modest answers for time 0 itself, and --min -u is a question about the first
\* state only: bcg2jani writes that property without an until.
Answerable(o, args, questions) ==
    {w \in questions :
        o.checker = "MODEST" =>
            w # ByTime(0) /\ ~(w.type = "UNBOUNDED" /\ DirectionGiven(args) /\ Direction(args) = "min")}

\* For every command line that main accepts and that has no -f: the checker chosen
\* in the end is asked every question that was asked for and that -m does not
\* overrule, in the direction that was given, and none that was not written or
\* that it rejects.
QuestionsFit(args, cadp) ==
    LET r == main(args, cadp)
        asked == Asked(r.options, r.queries)
        meant == {m \in UNION {asked[n] : n \in DOMAIN asked} : m.type # "INITIAL"}
        points == UNION {Points(m) : m \in meant}
        answerable(questions) == Answerable(r.options, args, questions)
    IN  r.status = "run" /\ ~r.options.custom /\ ~r.options.expOnly =>
            /\ r.queries # <<>>
            /\ answerable(Wanted(args)) \subseteq points
            /\ points \subseteq answerable(Wanted(args) \cup Timed(args))
            /\ DirectionGiven(args) => \A m \in meant : m.min = Direction(args)

\* Looked for by no one, and first missed when they are to be run.
Unchecked == {"maxprog", "bcg2jani", "bcg2tralab", "mcsta"}

\* No calculation starts whose tools were not looked for, but these four; and
\* no converter is chosen that cannot feed the checker.
ToolsFit(args, cadp) ==
    LET r == main(args, cadp)
    IN  r.status = "run" =>
            /\ "coral" \notin checkNeededTools(r.options, cadp) =>
                  calculateDFT(r.options, cadp) \subseteq checkNeededTools(r.options, cadp) \cup Unchecked
            /\ r.options.converter = "DFTRES" /\ cadp =>
                  r.options.checker \in {"IMRMC", "STORM", "MODEST", "EXP_ONLY"}
            /\ ~cadp => r.options.converter = "DFTRES"

\* dft2lntc reads each call of dftcalc as it is meant: the file meant is its
\* input and every option arrives.  Not with --no-color, nor for a module.
CallsFit(args, cadp) ==
    LET o == main(args, cadp).options
        understood(call, input) ==
            LET d == dft2lntcCall(call, {"original", "dft"})
            IN  /\ d.status = "ok" /\ d.input = input
                /\ d.given = {<<call[n].flag, call[n].value>> : n \in {k \in DOMAIN call : call[k].flag # ""}}
    IN  /\ o.modular => understood(ModulariseCall, "original")
        /\ understood(CanonicaliseCall(""), "original")
        /\ o.colour => understood(TranslateCall(o), "dft")
=============================================================================
