------------------------------ MODULE Pipeline ------------------------------
(***************************************************************************)
(* The dftcalc driver (src/dftcalc): one invocation after another over one *)
(* output directory, each a chain of external tools that hand files to one *)
(* another.  A file is abstracted to where it came from: the tree and the  *)
(* evidence it was made for, and how far it was processed.                 *)
(* An invocation may be told to reuse the files it finds (-R) or to split  *)
(* the tree into modules (-M); tools fail, leave truncated files or report *)
(* success without writing; the process may be killed between two steps.   *)
(*                                                                         *)
(* Not modelled: the dot and png pictures, the statistics log, the         *)
(* arithmetic on the answers of modules (module Modules), and messages     *)
(* without colour, with which no translation starts (module Options).      *)
(***************************************************************************)
EXTENDS Naturals, Sequences

CONSTANTS
    Inputs,       \* the DFT files a user may name
    NameOf,       \* their file names without directory: equal names share outputs
    ModulesOf,    \* what dft2lntc -m finds in each: constants and roots of modules
    ShapeOf,      \* what the translation depends on: equal shapes, equal .exp
    Broken,       \* inputs whose composition reaches IMPOSSIBLE
    InPlace,      \* inputs that lie in the output directory itself
    Options,      \* the command lines tried
    MaySkip,      \* the tools that may write nothing and still exit with 0
    MaxRuns       \* bound on the number of invocations

Missing == [form |-> "missing"]

\* A mutant for AnswerIsRight: only what dft2lntc writes is removed first.
RemovedTrees == {"dft", "svl", "exp"}
Removed == {"dft", "svl", "exp", "bcg", "tra", "ctmdpi", "ma", "lab"}
Kinds == {"dft", "svl", "exp", "bcg", "tra", "ctmdpi", "ma", "lab",
          "aut", "jani", "exact.tra", "exact.lab", "mod"}

Tools == {"dft2lntc", "svl", "maxprog", "bcg_io", "bcg_min", "dftres",
          "imc2ctmdpi", "bcg2tralab", "bcg2imca", "bcg2jani"}

Bases == {NameOf[i] : i \in Inputs}
\* A calculation: of the whole tree, of its modules before they are known, of a
\* module that is a constant, of the module below a root.
Parts == {"whole", "modular", "constant", "root"}
Tasks == [input : Inputs, part : Parts]
Sources == [input : Inputs, ev : BOOLEAN]
Contents == [src : Sources, form : {"full", "partial", "raw", "maxprog", "ctmdpi", "tra"}]

ASSUME PipelineAssumption ==
    /\ NameOf \in [Inputs -> STRING]
    /\ ModulesOf \in [Inputs -> Seq({"constant", "root"})]
    /\ Broken \subseteq Inputs /\ InPlace \subseteq Inputs
    \* what is composed is what the .exp says
    /\ \A i, j \in Inputs : ShapeOf[i] = ShapeOf[j] /\ i \in Broken => j \in Broken
    /\ MaySkip \subseteq Tools /\ MaxRuns \in Nat
    /\ \A o \in Options :
          /\ DOMAIN o = {"inputs", "reuse", "modular", "ev", "checker", "conv"}
          /\ o.inputs \in Seq(Inputs) /\ {o.reuse, o.modular, o.ev} \subseteq BOOLEAN
          /\ o.conv = "DFTRES" => o.checker \in {"IMRMC", "STORM", "MODEST", "EXP_ONLY"}

VARIABLES
    files,   \* the output directory: for each base name, the files it holds
    runs,    \* invocations started so far
    opt,     \* the command line of this invocation
    pc,      \* the step of calculateDFT this process is at
    todo,    \* the calculations left; the first is under way
    trusted, \* ghost: every file found for it was finished, and made for it
    cache,   \* cachedResults: contents of .exp -> answer
    got      \* the answers of this invocation

vars == <<files, runs, opt, pc, todo, trusted, cache, got>>
process == <<opt, pc, todo, trusted, cache, got>>

Task == Head(todo)
BaseOf(t) == NameOf[t.input]
Here == files[BaseOf(Task)]
Has(k) == Here[k] # Missing
\* A mutant for LabelsMatch: -R forgotten, every file found is reused.
ReusableAlways(k) == Has(k)
Reusable(k) == opt.reuse /\ Has(k)

SourceOf(t, ev) == [input |-> t.input, ev |-> ev]
Shape(s) == [of |-> ShapeOf[s.input], ev |-> s.ev]
ExpKey(c) == [shape |-> Shape(c.src), form |-> c.form]

\* An input in the output directory is the <name>.dft that dftcalc works on.
UserBases == {NameOf[i] : i \in InPlace}
UserOf(b) == CHOOSE i \in InPlace : NameOf[i] = b
OwnFile(i) == files[NameOf[i]]["dft"]
Exists(i) == i \in InPlace => OwnFile(i) # Missing
\* The tree in the file the user named.
Tree(i) == IF i \in InPlace /\ Exists(i) THEN OwnFile(i).src.input ELSE i

Init ==
    /\ files = [b \in Bases |-> [k \in Kinds |->
                  IF k = "dft" /\ b \in UserBases
                  THEN [src |-> [input |-> UserOf(b), ev |-> FALSE], form |-> "full"]
                  ELSE Missing]]
    /\ runs = 0
    /\ opt \in Options /\ pc = "idle" /\ todo = <<>>
    /\ trusted = TRUE /\ cache = <<>> /\ got = {}

-----------------------------------------------------------------------------
(* main: the inputs in order, results only when none of them failed *)

Start(o) ==
    /\ pc = "idle" /\ runs < MaxRuns
    /\ runs' = runs + 1 /\ opt' = o /\ pc' = "next"
    /\ todo' = [n \in DOMAIN o.inputs |->
                  [input |-> o.inputs[n], part |-> IF o.modular THEN "modular" ELSE "whole"]]
    /\ UNCHANGED <<files, trusted, cache, got>>

\* The process ends, by itself or killed: only the files stay.
Exit ==
    /\ pc' = "idle" /\ todo' = <<>> /\ trusted' = TRUE /\ cache' = <<>> /\ got' = {}
    /\ UNCHANGED <<files, runs, opt>>

Finish == pc = "next" /\ todo = <<>> /\ Exit
Killed == pc # "idle" /\ Exit

\* An input that does not exist is reported and skipped.
SkipLost ==
    /\ pc = "next" /\ todo # <<>> /\ ~Exists(Task.input)
    /\ todo' = Tail(todo)
    /\ UNCHANGED <<files, runs, opt, pc, trusted, cache, got>>

\* The calculations still to do begin anew with the first of another input.
BeginsInput(n) == todo[n].part \in {"whole", "modular"}
NextInput ==
    CHOOSE n \in 2..Len(todo) + 1 :
        /\ n <= Len(todo) => BeginsInput(n)
        /\ \A m \in 2..n - 1 : ~BeginsInput(m)
GiveUp == todo' = SubSeq(todo, NextInput, Len(todo))

\* A mutant for TypeOK: the error is returned, and the next step taken anyway.
Return1GoesOn == GiveUp /\ UNCHANGED <<runs, opt, pc, trusted, cache, got>>

\* calculateDFT or checkModule returns 1: what is left of this input is given up.
Return1 == GiveUp /\ pc' = "next" /\ UNCHANGED <<runs, opt, trusted, cache, got>>

-----------------------------------------------------------------------------
(* runCommand: the exit status, then the existence of the expected outputs *)

Written(new, old) == [k \in Kinds |-> IF k \in DOMAIN new THEN new[k] ELSE old[k]]
Store(new) == files' = [files EXCEPT ![BaseOf(Task)] = Written(new, @)]
Truncated(new, ks) == [k \in ks |-> [new[k] EXCEPT !.form = "partial"]]

Succeeds(new, next) ==
    /\ Store(new) /\ pc' = next
    /\ UNCHANGED <<runs, opt, todo, trusted, cache, got>>
Fails(new) == \E ks \in SUBSET DOMAIN new : Store(Truncated(new, ks)) /\ Return1
\* Nothing written, yet exit status 0: a file left from before passes the test.
Skips(tool, expected, next) ==
    /\ tool \in MaySkip
    /\ UNCHANGED files
    /\ IF \A k \in expected : Has(k)
       THEN pc' = next /\ UNCHANGED <<runs, opt, todo, trusted, cache, got>>
       ELSE Return1

RunCommand(tool, new, expected, next) ==
    \/ Succeeds(new, next)
    \/ Fails(new)
    \/ Skips(tool, expected, next)

Goto(next) == pc' = next /\ UNCHANGED <<files, runs, opt, todo, trusted, cache, got>>

-----------------------------------------------------------------------------
(* calcModular: the .mod file, then one calculation per module *)

\* What dft2lntc writes when it copies the input, or lists its modules.
Original == [src |-> [input |-> Tree(Task.input), ev |-> FALSE], form |-> "full"]

ModFile == Here["mod"]

Modularise ==
    /\ pc = "next" /\ todo # <<>> /\ Exists(Task.input) /\ Task.part = "modular"
    /\ IF opt.reuse THEN UNCHANGED files ELSE Store([k \in {"mod"} |-> Missing])
    /\ pc' = "modularise"
    /\ UNCHANGED <<runs, opt, todo, trusted, cache, got>>

ListModules ==
    /\ pc = "modularise"
    /\ IF Reusable("mod") THEN Goto("split")
       ELSE RunCommand("dft2lntc", [k \in {"mod"} |-> Original], {"mod"}, "split")

Split ==
    /\ pc = "split"
    /\ IF ModFile.form = "full"
       THEN /\ LET parts == ModulesOf[ModFile.src.input]
               IN  todo' = [n \in DOMAIN parts |-> [input |-> Task.input, part |-> parts[n]]]
                           \o Tail(todo)
            /\ pc' = "next"
            /\ UNCHANGED <<files, runs, opt, trusted, cache, got>>
       ELSE Return1 /\ UNCHANGED files

\* A module that is a constant is answered from the modules file, evidence or not.
Constant ==
    /\ pc = "next" /\ todo # <<>> /\ Exists(Task.input) /\ Task.part = "constant"
    /\ got' = got \cup {[task |-> Task, model |-> ModFile, labels |-> ModFile,
                         trusted |-> ModFile.src.input = Task.input]}
    /\ todo' = Tail(todo)
    /\ UNCHANGED <<files, runs, opt, pc, trusted, cache>>

\* For any other module dft2lntc is called with -r and the root, which it does
\* not understand (module Options): it fails before it writes anything.
ModuleRoot ==
    /\ pc = "next" /\ todo # <<>> /\ Exists(Task.input) /\ Task.part = "root"
    /\ Return1 /\ UNCHANGED files

-----------------------------------------------------------------------------
(* calculateDFT, step by step *)

Usable(k) ==
    Here[k] = Missing
    \/ /\ Here[k].form \notin {"partial", "raw", "maxprog"}
       /\ Here[k].src = SourceOf(Task, IF k \in {"dft", "mod"} THEN FALSE ELSE opt.ev)
Prepare ==
    /\ pc = "next" /\ todo # <<>> /\ Exists(Task.input) /\ Task.part = "whole"
    /\ trusted' = (\A k \in Kinds \ {"aut", "mod"} : Usable(k))
    /\ IF opt.reuse THEN UNCHANGED files ELSE Store([k \in Removed |-> Missing])
    /\ pc' = "canonicalise"
    /\ UNCHANGED <<runs, opt, todo, cache, got>>

Canonicalise ==
    /\ pc = "canonicalise"
    /\ LET new == [k \in {"dft"} |-> Original]
       IN  IF Reusable("dft") THEN Goto("translate")
           ELSE IF ~Exists(Task.input) THEN Fails(new)     \* it was just removed
           ELSE RunCommand("dft2lntc", new, {"dft"}, "translate")

Translate ==
    /\ pc = "translate"
    /\ LET c == [Here["dft"] EXCEPT !.src.ev = opt.ev]
           new == [k \in {"exp", "svl"} |-> c]
           next == IF opt.checker = "EXP_ONLY" THEN "done" ELSE "lookup"
       IN  IF Reusable("exp") /\ Has("svl") THEN Goto(next)
           ELSE RunCommand("dft2lntc", new, {"exp", "svl"}, next)

Answer(a) == got' = got \cup {[task |-> Task, trusted |-> trusted, model |-> a.model, labels |-> a.labels]}

\* Done: the result is the caller's, the next calculation starts.
Return0 == pc' = "next" /\ todo' = Tail(todo) /\ UNCHANGED <<runs, opt, trusted>>

ExpOnlyDone == pc = "done" /\ Return0 /\ UNCHANGED <<files, cache, got>>

Lookup ==
    /\ pc = "lookup"
    /\ IF ExpKey(Here["exp"]) \in DOMAIN cache
       THEN /\ LET a == cache[ExpKey(Here["exp"])]
               IN  IF a = Missing THEN UNCHANGED got ELSE Answer(a)
            /\ Return0 /\ UNCHANGED <<files, cache>>
       ELSE Goto(IF opt.conv = "DFTRES" THEN "export"
                 ELSE IF Reusable("bcg") THEN "inspect" ELSE "svl")

\* A tool that only rewrites its input passes on what is wrong with it: that it
\* was cut short, or that maximal progress is not applied to it yet.
Made(from, form) ==
    [src |-> from.src, form |-> IF from.form \in {"partial", "raw"} THEN from.form ELSE form]

\* The chain to <name>.bcg: each tool writes one file.
Chain(tool, k, c, next) == RunCommand(tool, [x \in {k} |-> c], {k}, next)

Svl == pc = "svl" /\ Chain("svl", "bcg", Made(Here["exp"], "raw"), "maxprog")
Maxprog ==
    /\ pc = "maxprog"
    /\ LET cut == [Here["bcg"] EXCEPT !.form = IF @ = "raw" THEN "maxprog" ELSE @]
       IN  Chain("maxprog", "aut", cut, "bcg_io")
BcgIo == pc = "bcg_io" /\ Chain("bcg_io", "bcg", Here["aut"], "bcg_min")
BcgMin == pc = "bcg_min" /\ Chain("bcg_min", "bcg", Made(Here["bcg"], "full"), "inspect")

\* bcg_info -labels: a model with an IMPOSSIBLE transition is not analysed.
\* A mutant for NoAnswerForBroken: the check for the label omitted.
ImpossibleNever(c) == FALSE
Impossible(c) == c.src.input \in Broken

Inspect ==
    /\ pc = "inspect"
    /\ \/ ~Impossible(Here["bcg"]) /\ Goto("convert")
       \/ Return1 /\ UNCHANGED files      \* IMPOSSIBLE found, or bcg_info failed

ExactFile == IF opt.checker = "IMRMC" THEN "exact.tra" ELSE "jani"

Export ==
    /\ pc = "export"
    /\ LET ks == IF opt.checker = "IMRMC" THEN {"exact.tra", "exact.lab"} ELSE {"jani"}
       IN  IF Reusable(ExactFile) THEN Goto("analyse")
           ELSE RunCommand("dftres", [k \in ks |-> Made(Here["exp"], "full")], ks, "analyse")

ModelFile ==
    IF opt.conv = "DFTRES" THEN ExactFile
    ELSE CASE opt.checker = "MRMC" -> "ctmdpi"
           [] opt.checker = "IMRMC" -> "tra"
           [] opt.checker = "IMCA" -> "ma"
           [] OTHER -> "jani"

\* The converters of MRMC and IMRMC both write <name>.lab beside their model.
LabelFile == IF opt.conv = "DFTRES" THEN "exact.lab" ELSE "lab"
HasLabels == opt.checker \in {"MRMC", "IMRMC"}

Converter ==
    CASE opt.checker = "MRMC" -> "imc2ctmdpi"
      [] opt.checker = "IMRMC" -> "bcg2tralab"
      [] opt.checker = "IMCA" -> "bcg2imca"
      [] OTHER -> "bcg2jani"

Convert ==
    /\ pc = "convert"
    /\ LET ks == {ModelFile} \cup (IF HasLabels THEN {"lab"} ELSE {})
           new == [k \in ks |-> Made(Here["bcg"], IF k = "lab" THEN ModelFile ELSE "full")]
       IN  IF Reusable(ModelFile) THEN Goto("analyse")
           ELSE RunCommand(Converter, new, {ModelFile}, "analyse")

\* The answer of IMCA is read with a length one more than the file's, so that
\* fread never returns it: none is ever found.
Readable == opt.checker # "IMCA"

Remember(key, a) ==
    cache' = [k \in DOMAIN cache \cup {key} |-> IF k = key THEN a ELSE cache[k]]

\* The model checker runs on the model, and a failure of it is only reported:
\* calculateDFT stores the empty result and returns 0.
Analyse ==
    /\ pc = "analyse"
    /\ LET a == [model |-> Here[ModelFile],
                 labels |-> IF HasLabels THEN Here[LabelFile] ELSE Here[ModelFile]]
           key == ExpKey(Here["exp"])
       IN  \/ /\ Readable /\ Missing \notin {a.model, a.labels}
              /\ Answer(a) /\ Remember(key, a)
           \/ UNCHANGED got /\ Remember(key, Missing)
    /\ Return0 /\ UNCHANGED files

Next ==
    \/ \E o \in Options : Start(o)
    \/ Finish \/ Killed \/ SkipLost \/ Modularise \/ ListModules \/ Split \/ Constant \/ ModuleRoot
    \/ Prepare \/ Canonicalise \/ Translate \/ ExpOnlyDone \/ Lookup
    \/ Svl \/ Maxprog \/ BcgIo \/ BcgMin \/ Inspect \/ Export \/ Convert \/ Analyse

Spec == Init /\ [][Next]_vars

-----------------------------------------------------------------------------
(* Properties *)

Steps == {"idle", "next", "modularise", "split", "canonicalise", "translate", "done", "lookup", "svl",
          "maxprog", "bcg_io", "bcg_min", "inspect", "export", "convert", "analyse"}

\* The state is well formed, and inside calculateDFT there is a calculation.
TypeOK ==
    /\ files \in [Bases -> [Kinds -> Contents \cup {Missing}]]
    /\ runs \in 0..MaxRuns /\ opt \in Options /\ pc \in Steps
    /\ todo \in Seq(Tasks) /\ trusted \in BOOLEAN
    /\ pc \notin {"idle", "next"} => todo # <<>>
    /\ \A g \in got : g.task \in Tasks /\ {g.model, g.labels} \subseteq Contents

\* This invocation read nothing that was not finished for its own questions.
Fresh == ~opt.reuse \/ \A g \in got : g.trusted

Right(c, t) == c.form = "full" /\ Shape(c.src) = Shape(SourceOf(t, opt.ev))

\* Whatever earlier invocations left in the output directory, finished, failed
\* or killed, an answer is computed from a finished model of the tree and the
\* evidence that were asked for: always without -R, and with -R when the files
\* found had been finished for the same questions.  (For all the questions of
\* the invocation: one stale model is enough to spoil, by way of cachedResults,
\* the answer for another tree with the same .exp.)  Not of modules that are
\* constants when evidence is given: dft2lntc -m is not told of it.  Not of an
\* input in the output directory that an input of the same name has replaced.
\* And only if maxprog, bcg_io, bcg2jani and dftres are not among MaySkip: their
\* output may be there already, of another tree, and nothing removes it.
AnswerIsRight ==
    Fresh => \A g \in got :
        Tree(g.task.input) = g.task.input /\ ~(opt.ev /\ g.task.part = "constant")
            => Right(g.model, g.task)

\* MRMC and IMRMC read a model and a label file that share their name with each
\* other's: without -R the labels are those of the model that is read.
LabelsMatch ==
    \A g \in got : ~opt.reuse /\ HasLabels /\ g.task.part = "whole" =>
        /\ g.labels.src = g.model.src
        /\ g.labels.form = IF opt.conv = "DFTRES" THEN "full" ELSE ModelFile

\* A tree whose composition reaches IMPOSSIBLE is never given an answer by way
\* of SVL: the check stands between every model and every checker.
NoAnswerForBroken ==
    opt.conv = "SVL" /\ Fresh =>
        \A g \in got : g.task.part = "whole" => g.task.input \notin Broken
=============================================================================
