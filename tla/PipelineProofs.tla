--------------------------- MODULE PipelineProofs ---------------------------
(***************************************************************************)
(* The dftcalc driver, for any inputs, files of equal names, command lines *)
(* and number of invocations, each of which may be killed at any step.     *)
(* First what every state is like (Fits), then what the files found and    *)
(* made for the calculation under way are (OnTrack), and what follows for  *)
(* the answers.                                                            *)
(***************************************************************************)
EXTENDS Pipeline, SequenceTheorems, WellFoundedInduction, TLAPS

-----------------------------------------------------------------------------
(* The sequence of calculations *)

\* There is a first calculation of another input, or the end of the sequence.
LEMMA NextInputExists ==
  ASSUME todo \in Seq(Tasks), todo # <<>>
  PROVE  NextInput \in 2..Len(todo) + 1
<1> DEFINE P(n) == n <= Len(todo) => BeginsInput(n)
           S == {n \in 2..Len(todo) + 1 : P(n)}
<1>1. Len(todo) \in Nat /\ Len(todo) # 0
  BY EmptySeq
<1>2. S \subseteq Nat /\ Len(todo) + 1 \in S
  BY <1>1
<1>3. IsWellFoundedOn(OpToRel(<, Nat), Nat)
  BY NatLessThanWellFounded
<1> HIDE DEF S
<1>4. PICK n \in S : \A m \in S : <<m, n>> \notin OpToRel(<, Nat)
  BY <1>2, <1>3, WFMin
<1>5. \A m \in S : ~(m < n)
  BY <1>2, <1>4 DEF OpToRel
<1>6. \A m \in 2..n - 1 : ~BeginsInput(m)
  BY <1>1, <1>5 DEF S
<1>7. n \in 2..Len(todo) + 1 /\ P(n)
  BY DEF S
<1> HIDE DEF P
<1>8. \E x \in 2..Len(todo) + 1 :
        P(x) /\ \A m \in 2..x - 1 : ~BeginsInput(m)
  BY <1>6, <1>7
<1>9. QED  BY <1>8 DEF NextInput, P

\* Giving up leaves calculations that were to follow the one under way.
LEMMA GiveUpEffect ==
  ASSUME todo \in Seq(Tasks), todo # <<>>, GiveUp
  PROVE  /\ todo' \in Seq(Tasks)
         /\ \E j \in Nat \ {0} : \A n \in DOMAIN todo' :
              n + j \in DOMAIN todo /\ todo'[n] = todo[n + j]
<1>1. Len(todo) \in Nat /\ NextInput \in 2..Len(todo) + 1
  BY NextInputExists, EmptySeq
<1>2. \A i \in NextInput..Len(todo) : todo[i] \in Tasks
  BY <1>1, ElementOfSeq
<1>3. todo' = SubSeq(todo, NextInput, Len(todo))
  BY DEF GiveUp
<1> HIDE DEF GiveUp, NextInput
<1>4. /\ todo' \in Seq(Tasks)
      /\ Len(todo') = IF NextInput <= Len(todo)
                      THEN Len(todo) - NextInput + 1 ELSE 0
      /\ \A i \in 1..Len(todo) - NextInput + 1 :
           todo'[i] = todo[NextInput + i - 1]
  <2>1. NextInput \in Int /\ Len(todo) \in Int
    BY <1>1
  <2>2. QED  BY <1>2, <1>3, <2>1, SubSeqProperties
<1> DEFINE j == NextInput - 1
<1>5. j \in Nat \ {0}
  BY <1>1
<1>6. \A n \in DOMAIN todo' : n + j \in DOMAIN todo /\ todo'[n] = todo[n + j]
  <2>1. DOMAIN todo = 1..Len(todo) /\ DOMAIN todo' = 1..Len(todo')
    BY <1>4, LenProperties
  <2>2. \A n \in 1..Len(todo') : n \in 1..Len(todo) - NextInput + 1
    BY <1>1, <1>4
  <2>3. \A n \in 1..Len(todo') : NextInput + n - 1 = n + j /\ n + j \in 1..Len(todo)
    BY <1>1, <2>2
  <2>4. \A n \in 1..Len(todo') : todo'[n] = todo[NextInput + n - 1]
    BY <1>4, <2>2
  <2>5. QED  BY <2>1, <2>3, <2>4
<1>7. QED  BY <1>4, <1>5, <1>6

\* So does going on to the next one.
LEMMA TailEffect ==
  ASSUME todo \in Seq(Tasks), todo # <<>>, todo' = Tail(todo)
  PROVE  /\ todo' \in Seq(Tasks)
         /\ \A n \in DOMAIN todo' :
              n + 1 \in DOMAIN todo /\ todo'[n] = todo[n + 1]
  BY HeadTailProperties, LenProperties

\* The calculation under way, and the name its files have.
LEMMA TaskType ==
  ASSUME todo \in Seq(Tasks), todo # <<>>
  PROVE  /\ Task \in Tasks /\ Task.input \in Inputs /\ Task.part \in Parts
         /\ BaseOf(Task) \in Bases /\ 1 \in DOMAIN todo /\ Task = todo[1]
<1>1. Task \in Tasks
  BY HeadTailProperties DEF Task
<1>2. Task.input \in Inputs /\ Task.part \in Parts
  BY <1>1 DEF Tasks
<1>3. BaseOf(Task) \in Bases
  BY <1>2 DEF BaseOf, Bases
<1>4. 1 \in DOMAIN todo /\ Task = todo[1]
  BY EmptySeq, LenProperties DEF Task
<1>5. QED  BY <1>1, <1>2, <1>3, <1>4

-----------------------------------------------------------------------------
(* The files *)

Folders == [Bases -> [Kinds -> Contents \cup {Missing}]]

\* What is found is not what is missing.
LEMMA FoundIsContents ==
  ASSUME NEW c \in Contents \cup {Missing}
  PROVE  /\ c # Missing <=> c \in Contents
         /\ c.form \in {"full", "partial", "raw", "maxprog", "ctmdpi", "tra"}
              <=> c \in Contents
         /\ c \in Contents => /\ c.src \in Sources
                              /\ c.src.input \in Inputs /\ c.src.ev \in BOOLEAN
  BY DEF Contents, Missing, Sources

\* Storing changes the files of one name only, and of those the kinds given.
LEMMA StoreEffect ==
  ASSUME files \in Folders, todo \in Seq(Tasks), todo # <<>>,
         NEW D \in SUBSET Kinds, NEW new \in [D -> Contents \cup {Missing}],
         Store(new)
  PROVE  /\ files' \in Folders
         /\ \A b \in Bases : b # BaseOf(Task) => files'[b] = files[b]
         /\ \A k \in Kinds :
              files'[BaseOf(Task)][k] = IF k \in D THEN new[k] ELSE Here[k]
<1>1. BaseOf(Task) \in Bases
  BY TaskType
<1>2. files' = [files EXCEPT ![BaseOf(Task)] = Written(new, Here)]
  BY DEF Store, Here
<1>3. Here \in [Kinds -> Contents \cup {Missing}]
  BY <1>1 DEF Here, Folders
<1>4. DOMAIN new = D
  OBVIOUS
<1>5. /\ Written(new, Here) \in [Kinds -> Contents \cup {Missing}]
      /\ \A k \in Kinds :
           Written(new, Here)[k] = IF k \in D THEN new[k] ELSE Here[k]
  BY <1>3, <1>4 DEF Written
<1>6. QED  BY <1>1, <1>2, <1>5 DEF Folders

LEMMA TruncatedType ==
  ASSUME NEW D, NEW new \in [D -> Contents], NEW ks \in SUBSET D
  PROVE  /\ Truncated(new, ks) \in [ks -> Contents]
         /\ \A k \in ks : /\ Truncated(new, ks)[k].form = "partial"
                          /\ Truncated(new, ks)[k].src = new[k].src
<1>1. ASSUME NEW c \in Contents
      PROVE  /\ [c EXCEPT !.form = "partial"] \in Contents
             /\ [c EXCEPT !.form = "partial"].form = "partial"
             /\ [c EXCEPT !.form = "partial"].src = c.src
  BY DEF Contents
<1>2. QED  BY <1>1 DEF Truncated

\* What a tool may do: all, part or nothing of it, and go on or give up.
LEMMA RunEffect ==
  ASSUME files \in Folders, todo \in Seq(Tasks), todo # <<>>,
         NEW D \in SUBSET Kinds, NEW new \in [D -> Contents],
         NEW tool, NEW expected, NEW next,
         RunCommand(tool, new, expected, next)
  PROVE  /\ UNCHANGED <<runs, opt, trusted, cache, got>>
         /\ \/ /\ pc' = next /\ todo' = todo /\ Store(new)
            \/ /\ pc' = next /\ todo' = todo /\ files' = files
               /\ tool \in MaySkip /\ \A k \in expected : Has(k)
            \/ /\ pc' = "next" /\ GiveUp
               /\ \/ files' = files
                  \/ \E ks \in SUBSET D : Store(Truncated(new, ks))
<1>1. CASE Succeeds(new, next)
  BY <1>1 DEF Succeeds
<1>2. CASE Fails(new)
  <2>1. DOMAIN new = D
    OBVIOUS
  <2>2. QED  BY <1>2, <2>1 DEF Fails, Return1
<1>3. CASE Skips(tool, expected, next)
  BY <1>3 DEF Skips, Return1
<1>4. QED  BY <1>1, <1>2, <1>3 DEF RunCommand
-----------------------------------------------------------------------------
(* The invariant on states: what TypeOK needs, and the shape of what is found *)

\* What is in a file: labels are the only thing named after a format, and what
\* is known about modules is known without evidence.
Fitting(k, c) ==
    c # Missing => /\ k # "lab" => c.form \notin {"ctmdpi", "tra"}
                   /\ k = "mod" => c.src.ev = FALSE
FilesFit == \A b \in Bases, k \in Kinds : Fitting(k, files[b][k])

\* Every answer that is remembered was one, or was empty.
CacheFits ==
    \A k \in DOMAIN cache :
        cache[k] = Missing \/ {cache[k].model, cache[k].labels} \subseteq Contents

\* A process that ended remembers nothing.
Rests == pc = "idle" => cache = <<>> /\ got = {}

\* The steps of one converter are not taken with the other.
Suits(p) ==
    /\ p = "export" => opt.conv = "DFTRES"
    /\ p \in {"svl", "maxprog", "bcg_io", "bcg_min", "inspect", "convert"}
          => opt.conv # "DFTRES"

\* The calculations are all of trees or all of modules, those of the modules of
\* the first input before the other inputs; the step is one of the first.
Plan ==
    /\ \A n \in DOMAIN todo : opt.modular <=> todo[n].part # "whole"
    /\ \A m, n \in DOMAIN todo :
          m < n /\ todo[m].part = "modular" => todo[n].part = "modular"
    /\ pc \in {"modularise", "split"} => Task.part = "modular"
    /\ pc \notin {"idle", "next", "modularise", "split"} => Task.part = "whole"
    /\ Suits(pc)

\* The file each step reads.
Reads(p) ==
    {k \in Kinds : \/ k = "mod" /\ p = "split"
                   \/ k = "dft" /\ p = "translate"
                   \/ k = "exp" /\ p \in {"done", "lookup", "svl", "export"}
                   \/ k = "bcg" /\ p \in {"maxprog", "bcg_min", "inspect", "convert"}
                   \/ k = "aut" /\ p = "bcg_io"}
StepReady == \A k \in Reads(pc) : Has(k)

\* While modules are left to be done, the list of them is there.
ModulesListed ==
    \A n \in DOMAIN todo : todo[n].part = "constant" =>
        files[BaseOf(todo[n])]["mod"].form = "full"

Fits == /\ TypeOK /\ FilesFit /\ CacheFits /\ Rests
        /\ Plan /\ StepReady /\ ModulesListed

-----------------------------------------------------------------------------
(* The invariant on calculations: what the answers need *)

\* The tools whose output may be there before they run, from another invocation
\* or from another tool, write it or fail.
Trustworthy == MaySkip \cap {"maxprog", "bcg_io", "bcg2jani", "dftres"} = {}

\* Nothing was found for the calculation under way that could mislead it.
Clean == ~opt.reuse \/ trusted
Own == SourceOf(Task, opt.ev)

\* A file not made yet is gone without -R, and of use with it.
AsFound(k) == IF opt.reuse THEN Usable(k) ELSE k \in Removed => ~Has(k)
Ours(k, src, forms) == Has(k) /\ Here[k].src = src /\ Here[k].form \in forms

LabelsFit(a) ==
    ~opt.reuse /\ HasLabels =>
        /\ a.labels.src = a.model.src
        /\ a.labels.form = IF opt.conv = "DFTRES" THEN "full" ELSE ModelFile

\* At each step the files made so far are for the tree and the evidence asked
\* for, and the others are as they were found.
OnTrack ==
    Clean /\ pc \notin {"idle", "next", "modularise", "split"} =>
        /\ pc = "canonicalise" => AsFound("dft")
        /\ pc = "translate" => Ours("dft", SourceOf(Task, FALSE), {"full"})
        /\ IF pc \in {"canonicalise", "translate"} THEN AsFound("exp")
           ELSE Ours("exp", Own, {"full"})
        /\ pc \in {"canonicalise", "translate", "done", "lookup"} => AsFound("bcg")
        /\ pc = "svl" => ~Has("bcg")
        /\ pc = "maxprog" => Ours("bcg", Own, {"raw"})
        /\ pc = "bcg_io" => Ours("aut", Own, {"maxprog"})
        /\ pc \in {"bcg_min", "inspect", "convert"} => Ours("bcg", Own, {"maxprog", "full"})
        /\ IF pc = "analyse" THEN Ours(ModelFile, Own, {"full"})
           ELSE AsFound(ModelFile)
        /\ pc = "convert" \/ (pc = "analyse" /\ opt.conv # "DFTRES")
              => Task.input \notin Broken
        /\ pc = "analyse" =>
              LabelsFit([model |-> Here[ModelFile], labels |-> Here[LabelFile]])

\* Without -R the list of modules is that of the tree the input has now.
ListIsOwn(t) == ~opt.reuse => files[BaseOf(t)]["mod"].src.input = Tree(t.input)
ModulesOwn ==
    /\ pc = "modularise" => opt.reuse \/ ~Has("mod")
    /\ pc = "split" => ListIsOwn(Task)
    /\ \A n \in DOMAIN todo : todo[n].part = "constant" => ListIsOwn(todo[n])

\* What is remembered under a translation was found for that translation.
Remembered ==
    \A k \in DOMAIN cache : cache[k] # Missing =>
        /\ LabelsFit(cache[k])
        /\ Fresh =>
            /\ cache[k].model.form = "full" /\ Shape(cache[k].model.src) = k.shape
            /\ opt.conv # "DFTRES" =>
                  \A i \in Inputs : ShapeOf[i] = k.shape.of => i \notin Broken

WholeRight(g) ==
    /\ LabelsFit(g)
    /\ Fresh => Right(g.model, g.task)
                /\ (opt.conv # "DFTRES" => g.task.input \notin Broken)
ModuleRight(g) ==
    /\ opt.modular /\ g.model.form = "full" /\ g.model.src.ev = FALSE
    /\ IF opt.reuse THEN g.trusted => g.model.src.input = g.task.input
       ELSE g.model.src.input = Tree(g.task.input)
AnswersFit ==
    \A g \in got : \/ g.task.part = "whole" /\ WholeRight(g)
                   \/ g.task.part = "constant" /\ ModuleRight(g)

Sound == OnTrack /\ ModulesOwn /\ Remembered /\ AnswersFit
-----------------------------------------------------------------------------
(* Every step keeps Fits. *)

\* The first calculation is not one of the modules of an input: none is left.
LEMMA NoneListed ==
  ASSUME Plan, todo \in Seq(Tasks), todo # <<>>, Task.part \in {"whole", "modular"}
  PROVE  \A n \in DOMAIN todo : todo[n].part # "constant"
<1>1. 1 \in DOMAIN todo /\ Task = todo[1] /\ DOMAIN todo \subseteq Nat \ {0}
  BY TaskType, LenProperties
<1>2. CASE Task.part = "whole"
  BY <1>1, <1>2 DEF Plan
<1>3. CASE Task.part = "modular"
  BY <1>1, <1>3 DEF Plan
<1>4. QED  BY <1>2, <1>3

\* The calculations that are left follow the plan.
LEMMA PlanSuffix ==
  ASSUME Plan, todo \in Seq(Tasks), todo' \in Seq(Tasks), opt' = opt, pc' = "next",
         NEW j \in Nat,
         \A n \in DOMAIN todo' : n + j \in DOMAIN todo /\ todo'[n] = todo[n + j]
  PROVE  Plan'
<1>0. Suits(pc)'
  BY DEF Suits
<1>1. DOMAIN todo \subseteq Nat /\ DOMAIN todo' \subseteq Nat
  BY LenProperties
<1>2. \A m, n \in DOMAIN todo' : m < n => m + j < n + j
  BY <1>1
<1>3. QED  BY <1>0, <1>2 DEF Plan

LEMMA StoreFits ==
  ASSUME Fits, todo # <<>>, NEW D \in SUBSET Kinds,
         NEW new \in [D -> Contents \cup {Missing}], Store(new),
         \A k \in D : Fitting(k, new[k])
  PROVE  files' \in Folders /\ FilesFit'
<1>1. files \in Folders /\ todo \in Seq(Tasks) /\ FilesFit
  BY DEF Fits, TypeOK, Folders
<1>2. /\ files' \in Folders
      /\ \A b \in Bases : b # BaseOf(Task) => files'[b] = files[b]
      /\ \A k \in Kinds :
           files'[BaseOf(Task)][k] = IF k \in D THEN new[k] ELSE Here[k]
  BY <1>1, StoreEffect
<1>3. \A k \in Kinds : Fitting(k, files'[BaseOf(Task)][k])
  BY <1>1, <1>2, TaskType DEF FilesFit, Here
<1>4. QED  BY <1>1, <1>2, <1>3 DEF FilesFit

\* Going on with the calculations that are left, the files as they were.
LEMMA NextFits ==
  ASSUME Fits, todo # <<>>, files' = files, pc' = "next", NEW j \in Nat,
         \A n \in DOMAIN todo' : n + j \in DOMAIN todo /\ todo'[n] = todo[n + j],
         todo' \in Seq(Tasks), UNCHANGED <<runs, opt, trusted>>,
         \A g \in got' : g.task \in Tasks /\ {g.model, g.labels} \subseteq Contents,
         CacheFits'
  PROVE  Fits'
<1>1. TypeOK'
  BY DEF Fits, TypeOK, Steps
<1>2. FilesFit' /\ Rests' /\ StepReady'
  BY DEF Fits, FilesFit, Rests, StepReady, Reads
<1>3. Plan'
  BY PlanSuffix DEF Fits, TypeOK
<1>4. ModulesListed'
  BY DEF Fits, ModulesListed, BaseOf
<1>5. QED  BY <1>1, <1>2, <1>3, <1>4 DEF Fits

LEMMA GiveUpFits ==
  ASSUME Fits, todo # <<>>, GiveUp, pc' = "next",
         UNCHANGED <<files, runs, opt, trusted, cache, got>>
  PROVE  Fits'
<1>1. todo \in Seq(Tasks) /\ CacheFits
  BY DEF Fits, TypeOK
<1>2. PICK j \in Nat \ {0} : \A n \in DOMAIN todo' :
              n + j \in DOMAIN todo /\ todo'[n] = todo[n + j]
  BY <1>1, GiveUpEffect
<1>3. todo' \in Seq(Tasks)
  BY <1>1, GiveUpEffect
<1>4. CacheFits'
  BY <1>1 DEF CacheFits
<1>5. \A g \in got' : g.task \in Tasks /\ {g.model, g.labels} \subseteq Contents
  BY DEF Fits, TypeOK
<1>6. QED  BY <1>2, <1>3, <1>4, <1>5, NextFits

\* A tool was run, for a tree or for the list of its modules.
LEMMA RunFits ==
  ASSUME Fits, todo # <<>>, Task.part \in {"whole", "modular"},
         NEW D \in SUBSET Kinds, NEW new \in [D -> Contents],
         NEW tool, NEW expected \in SUBSET D,
         NEW next \in Steps \ {"idle", "next"},
         RunCommand(tool, new, expected, next),
         \A k \in D : Fitting(k, new[k]),
         Reads(next) \subseteq expected, Suits(next),
         IF next \in {"modularise", "split"} THEN Task.part = "modular"
         ELSE Task.part = "whole"
  PROVE  Fits'
<1>1. files \in Folders /\ todo \in Seq(Tasks)
  BY DEF Fits, TypeOK, Folders
<1>2. UNCHANGED <<runs, opt, trusted, cache, got>>
  BY <1>1, RunEffect
<1>3. \A n \in DOMAIN todo : todo[n].part # "constant"
  BY <1>1, NoneListed DEF Fits
<1>4. new \in [D -> Contents \cup {Missing}]
  OBVIOUS
<1>5. ASSUME pc' = next, todo' = todo, files' \in Folders, FilesFit',
             \A k \in expected : Here'[k] # Missing
      PROVE  Fits'
  <2>1. TypeOK'
    BY <1>2, <1>5 DEF Fits, TypeOK, Folders
  <2>2. Plan'
    BY <1>2, <1>5 DEF Fits, Plan, Suits, Task
  <2>3. CacheFits' /\ Rests' /\ ModulesListed'
    BY <1>2, <1>3, <1>5 DEF Fits, CacheFits, Rests, ModulesListed
  <2>4. StepReady'
    BY <1>5 DEF StepReady, Has, Reads
  <2>5. QED  BY <1>5, <2>1, <2>2, <2>3, <2>4 DEF Fits
<1>6. CASE pc' = next /\ todo' = todo /\ Store(new)
  <2>1. files' \in Folders /\ FilesFit'
    BY <1>4, <1>6, StoreFits
  <2>2. Here' = files'[BaseOf(Task)]
    BY <1>6 DEF Here, Task, BaseOf
  <2>3. \A k \in expected : Here'[k] = new[k] /\ new[k] # Missing
    BY <1>1, <1>4, <1>6, <2>2, StoreEffect, FoundIsContents
  <2>4. QED  BY <1>5, <1>6, <2>1, <2>3
<1>7. CASE /\ pc' = next /\ todo' = todo /\ files' = files
           /\ \A k \in expected : Has(k)
  BY <1>1, <1>5, <1>7 DEF Fits, FilesFit, Has, Here, Task, BaseOf
<1>8. CASE pc' = "next" /\ GiveUp /\ files' = files
  BY <1>2, <1>8, GiveUpFits
<1>9. ASSUME pc' = "next", GiveUp,
             NEW ks \in SUBSET D, Store(Truncated(new, ks))
      PROVE  Fits'
  <2>1. Truncated(new, ks) \in [ks -> Contents \cup {Missing}]
    BY TruncatedType
  <2>2. \A k \in ks : Fitting(k, Truncated(new, ks)[k])
    BY TruncatedType, FoundIsContents DEF Fitting
  <2>3. files' \in Folders /\ FilesFit'
    BY <1>9, <2>1, <2>2, StoreFits
  <2>4. PICK j \in Nat \ {0} : \A n \in DOMAIN todo' :
              n + j \in DOMAIN todo /\ todo'[n] = todo[n + j]
    BY <1>1, <1>9, GiveUpEffect
  <2>5. todo' \in Seq(Tasks)
    BY <1>1, <1>9, GiveUpEffect
  <2>6. Plan'
    BY <1>1, <1>2, <1>9, <2>4, <2>5, PlanSuffix DEF Fits
  <2>7. TypeOK'
    BY <1>2, <1>9, <2>3, <2>5 DEF Fits, TypeOK, Folders, Steps
  <2>8. CacheFits' /\ Rests' /\ ModulesListed' /\ StepReady'
    BY <1>2, <1>3, <1>9, <2>4
       DEF Fits, CacheFits, Rests, ModulesListed, StepReady, Reads
  <2>9. QED  BY <2>3, <2>6, <2>7, <2>8 DEF Fits
<1>10. QED  BY <1>1, <1>6, <1>7, <1>8, <1>9, RunEffect

\* The next step of the same calculation, nothing done.
LEMMA GotoFits ==
  ASSUME Fits, todo # <<>>, NEW next \in Steps \ {"idle", "next"}, Goto(next),
         \A k \in Reads(next) : Has(k), Suits(next),
         IF next \in {"modularise", "split"} THEN Task.part = "modular"
         ELSE Task.part = "whole"
  PROVE  Fits'
<1>1. pc' = next /\ UNCHANGED <<files, runs, opt, todo, trusted, cache, got>>
  BY DEF Goto
<1>2. TypeOK'
  BY <1>1 DEF Fits, TypeOK
<1>3. FilesFit' /\ CacheFits' /\ Rests' /\ ModulesListed'
  BY <1>1 DEF Fits, FilesFit, CacheFits, Rests, ModulesListed, BaseOf
<1>4. Plan'
  BY <1>1 DEF Fits, Plan, Suits, Task
<1>5. StepReady'
  BY <1>1 DEF StepReady, Has, Here, BaseOf, Task
<1>6. QED  BY <1>2, <1>3, <1>4, <1>5 DEF Fits

LEMMA StartFits ==
  ASSUME Fits, NEW o \in Options, Start(o)  PROVE  Fits'
<1>1. o.inputs \in Seq(Inputs) /\ DOMAIN o.inputs = 1..Len(o.inputs)
      /\ Len(o.inputs) \in Nat
  BY PipelineAssumption, LenProperties
<1> DEFINE p == IF o.modular THEN "modular" ELSE "whole"
<1>2. \A n \in DOMAIN o.inputs : [input |-> o.inputs[n], part |-> p] \in Tasks
  BY <1>1 DEF Tasks, Parts
<1>3. /\ todo' = [n \in DOMAIN o.inputs |-> [input |-> o.inputs[n], part |-> p]]
      /\ runs' = runs + 1 /\ runs < MaxRuns /\ opt' = o /\ pc' = "next"
      /\ pc = "idle" /\ UNCHANGED <<files, trusted, cache, got>>
  BY DEF Start
<1>4. p \in {"modular", "whole"} /\ (o.modular <=> p # "whole")
  OBVIOUS
<1> HIDE DEF p
<1>5. todo' \in Seq(Tasks) /\ DOMAIN todo' = 1..Len(o.inputs)
      /\ \A n \in DOMAIN todo' : todo'[n].part = p
  BY <1>1, <1>2, <1>3
<1>6. TypeOK'
  BY <1>3, <1>5, PipelineAssumption DEF Fits, TypeOK, Steps
<1>7. Plan' /\ ModulesListed'
  BY <1>3, <1>4, <1>5 DEF Plan, Suits, ModulesListed
<1>8. FilesFit' /\ CacheFits' /\ Rests' /\ StepReady'
  BY <1>3 DEF Fits, FilesFit, CacheFits, Rests, StepReady, Reads
<1>9. QED  BY <1>6, <1>7, <1>8 DEF Fits

LEMMA ExitFits ==
  ASSUME Fits, Exit  PROVE  Fits'
<1>1. TypeOK'
  BY DEF Fits, TypeOK, Exit, Steps
<1>2. Plan' /\ ModulesListed' /\ StepReady'
  BY DEF Exit, Plan, Suits, ModulesListed, StepReady, Reads
<1>3. FilesFit' /\ CacheFits' /\ Rests'
  BY DEF Fits, Exit, FilesFit, CacheFits, Rests
<1>4. QED  BY <1>1, <1>2, <1>3 DEF Fits

LEMMA SkipLostFits ==
  ASSUME Fits, SkipLost  PROVE  Fits'
<1>1. todo \in Seq(Tasks) /\ todo # <<>> /\ todo' = Tail(todo)
      /\ pc' = "next" /\ UNCHANGED <<files, runs, opt, trusted, cache, got>>
  BY DEF Fits, TypeOK, SkipLost
<1>2. /\ todo' \in Seq(Tasks)
      /\ \A n \in DOMAIN todo' : n + 1 \in DOMAIN todo /\ todo'[n] = todo[n + 1]
  BY <1>1, TailEffect
<1>3. \A g \in got' : g.task \in Tasks /\ {g.model, g.labels} \subseteq Contents
  BY <1>1 DEF Fits, TypeOK
<1>4. CacheFits'
  BY <1>1 DEF Fits, CacheFits
<1>5. QED  BY <1>1, <1>2, <1>3, <1>4, NextFits

\* Files are removed, or kept, before a calculation starts.
LEMMA ClearFits ==
  ASSUME Fits, todo # <<>>, NEW D \in SUBSET Kinds,
         IF opt.reuse THEN UNCHANGED files ELSE Store([k \in D |-> Missing]),
         pc' \in {"modularise", "canonicalise"}, Reads(pc') = {},
         UNCHANGED <<runs, opt, todo, cache, got>>, trusted' \in BOOLEAN,
         Task.part = IF pc' \in {"modularise", "split"} THEN "modular" ELSE "whole"
  PROVE  Fits'
<1>1. files' \in Folders /\ FilesFit'
  <2>1. CASE opt.reuse
    BY <2>1 DEF Fits, TypeOK, FilesFit, Folders
  <2>2. CASE ~opt.reuse
    BY <2>2, StoreFits DEF Fitting
  <2>3. QED  BY <2>1, <2>2
<1>2. TypeOK'
  BY <1>1 DEF Fits, TypeOK, Folders, Steps
<1>3. Plan'
  BY DEF Fits, Plan, Suits, Task
<1>4. ModulesListed'
  BY NoneListed DEF Fits, TypeOK, ModulesListed
<1>5. CacheFits' /\ Rests' /\ StepReady'
  BY DEF Fits, CacheFits, Rests, StepReady
<1>6. QED  BY <1>1, <1>2, <1>3, <1>4, <1>5 DEF Fits

LEMMA ModulariseFits ==
  ASSUME Fits, Modularise  PROVE  Fits'
<1>1. Reads("modularise") = {} /\ trusted \in BOOLEAN
  BY DEF Reads, Fits, TypeOK
<1>2. QED  BY <1>1, ClearFits DEF Modularise, Steps, Kinds

LEMMA PrepareFits ==
  ASSUME Fits, Prepare  PROVE  Fits'
<1>1. Reads("canonicalise") = {} /\ Removed \subseteq Kinds
  BY DEF Reads, Removed, Kinds
<1>2. trusted' \in BOOLEAN
  BY DEF Prepare
<1>3. QED  BY <1>1, <1>2, ClearFits DEF Prepare, Steps

\* A calculation is under way at every step but the first two.
LEMMA UnderWay ==
  ASSUME Fits, pc \notin {"idle", "next"}
  PROVE  /\ todo \in Seq(Tasks) /\ todo # <<>> /\ BaseOf(Task) \in Bases
         /\ Task \in Tasks /\ Task.input \in Inputs
         /\ Here \in [Kinds -> Contents \cup {Missing}]
         /\ \A k \in Kinds : Fitting(k, Here[k])
         /\ Task.part = IF pc \in {"modularise", "split"} THEN "modular" ELSE "whole"
         /\ opt \in Options /\ Suits(pc)
<1>1. todo \in Seq(Tasks) /\ todo # <<>> /\ opt \in Options
  BY DEF Fits, TypeOK
<1>2. BaseOf(Task) \in Bases /\ Task \in Tasks /\ Task.input \in Inputs
  BY <1>1, TaskType
<1>3. QED  BY <1>1, <1>2 DEF Fits, TypeOK, FilesFit, Plan, Here

\* The tree in the file the user named is one of those there are.
LEMMA OriginalType ==
  ASSUME Fits, pc \notin {"idle", "next"}
  PROVE  /\ Original \in Contents /\ Original.form = "full"
         /\ Original.src = [input |-> Tree(Task.input), ev |-> FALSE]
         /\ Tree(Task.input) \in Inputs
<1>1. Task.input \in Inputs /\ NameOf[Task.input] \in Bases
  BY UnderWay DEF BaseOf
<1>2. OwnFile(Task.input) \in Contents \cup {Missing}
  BY <1>1 DEF Fits, TypeOK, OwnFile, Kinds
<1>3. Tree(Task.input) \in Inputs
  BY <1>1, <1>2, FoundIsContents DEF Tree, Exists
<1>4. QED  BY <1>3 DEF Original, Contents, Sources

LEMMA ListModulesFits ==
  ASSUME Fits, ListModules  PROVE  Fits'
<1>1. pc = "modularise"
  BY DEF ListModules
<1>2. Original \in Contents /\ Original.form = "full" /\ Original.src.ev = FALSE
  BY <1>1, OriginalType
<1> DEFINE new == [k \in {"mod"} |-> Original]
<1>3. new \in [{"mod"} -> Contents] /\ \A k \in {"mod"} : Fitting(k, new[k])
  BY <1>2 DEF Fitting
<1>4. Reads("split") = {"mod"} /\ Suits("split") /\ {"mod"} \subseteq Kinds
      /\ "split" \in Steps \ {"idle", "next"}
  BY DEF Reads, Suits, Kinds, Steps
<1>5. CASE Reusable("mod")
  BY <1>1, <1>4, <1>5, UnderWay, GotoFits DEF ListModules, Reusable
<1>6. CASE ~Reusable("mod")
  <2>1. RunCommand("dft2lntc", new, {"mod"}, "split")
    BY <1>6 DEF ListModules
  <2> HIDE DEF new
  <2>2. QED  BY <1>1, <1>3, <1>4, <2>1, UnderWay, RunFits
<1>7. QED  BY <1>5, <1>6

\* The modules of an input come first, then the other inputs as before.
LEMMA SplitParts ==
  ASSUME Fits, Split, ModFile.form = "full"
  PROVE  /\ todo' \in Seq(Tasks) /\ DOMAIN todo' \subseteq Nat /\ opt.modular
         /\ \E len \in Nat : \A n \in DOMAIN todo' :
              IF n <= len
              THEN todo'[n].part \in {"constant", "root"} /\ todo'[n].input = Task.input
              ELSE todo'[n].part = "modular"
<1> DEFINE parts == ModulesOf[ModFile.src.input]
           P == [n \in DOMAIN parts |-> [input |-> Task.input, part |-> parts[n]]]
<1>0. pc = "split" /\ todo \in Seq(Tasks) /\ todo # <<>> /\ Task.part = "modular"
      /\ Task.input \in Inputs /\ Has("mod")
  BY UnderWay DEF Split, Fits, StepReady, Reads, Kinds
<1>1. ModFile.src.input \in Inputs
  BY <1>0, UnderWay, FoundIsContents DEF ModFile, Kinds
<1>2. parts \in Seq({"constant", "root"})
  BY <1>1, PipelineAssumption
<1>3. /\ todo' = P \o Tail(todo) /\ pc' = "next"
      /\ UNCHANGED <<files, runs, opt, trusted, cache, got>>
  BY DEF Split
<1>4. DOMAIN parts = 1..Len(parts) /\ Len(parts) \in Nat
      /\ \A n \in DOMAIN parts : parts[n] \in {"constant", "root"}
  BY <1>2, LenProperties, ElementOfSeq
<1> HIDE DEF parts
<1>5. /\ P \in Seq(Tasks) /\ Len(P) = Len(parts)
      /\ \A n \in 1..Len(P) : /\ P[n].part \in {"constant", "root"}
                              /\ P[n].input = Task.input
  BY <1>0, <1>4 DEF Tasks, Parts
<1> HIDE DEF P
<1>6. /\ Tail(todo) \in Seq(Tasks)
      /\ \A n \in 1..Len(Tail(todo)) : Tail(todo)[n] = todo[n + 1]
                                       /\ n + 1 \in DOMAIN todo
  BY <1>0, HeadTailProperties, LenProperties
<1>7. 1 \in DOMAIN todo /\ Task = todo[1]
  BY <1>0, TaskType
<1>8. \A n \in 1..Len(Tail(todo)) : Tail(todo)[n].part = "modular"
  BY <1>0, <1>6, <1>7, LenProperties DEF Fits, Plan
<1> DEFINE T == Tail(todo)
           Q == P \o T
<1>9. /\ Q \in Seq(Tasks) /\ Len(Q) = Len(P) + Len(T)
      /\ \A n \in 1..Len(P) + Len(T) :
           Q[n] = IF n <= Len(P) THEN P[n] ELSE T[n - Len(P)]
  <2>1. P \in Seq(Tasks) /\ T \in Seq(Tasks)
    BY <1>5, <1>6
  <2> HIDE DEF T
  <2>2. QED  BY <2>1, ConcatProperties
<1>10. /\ todo' \in Seq(Tasks) /\ DOMAIN todo' \subseteq Nat
       /\ \A n \in DOMAIN todo' :
            IF n <= Len(P)
            THEN todo'[n].part \in {"constant", "root"} /\ todo'[n].input = Task.input
            ELSE todo'[n].part = "modular"
  <2>1. todo' = Q
    BY <1>3
  <2>2. Len(P) \in Nat /\ Len(T) \in Nat /\ DOMAIN Q = 1..Len(P) + Len(T)
    BY <1>5, <1>6, <1>9, LenProperties
  <2>3. \A n \in 1..Len(T) : T[n].part = "modular"
    BY <1>8
  <2>4. \A i \in 1..Len(P) : /\ P[i].part \in {"constant", "root"}
                             /\ P[i].input = Task.input
    BY <1>5
  <2> HIDE DEF T, Q
  <2>5. \A n \in DOMAIN Q :
          IF n <= Len(P)
          THEN Q[n].part \in {"constant", "root"} /\ Q[n].input = Task.input
          ELSE Q[n].part = "modular"
    <3> SUFFICES ASSUME NEW n \in DOMAIN Q
                 PROVE  IF n <= Len(P)
                        THEN Q[n].part \in {"constant", "root"}
                             /\ Q[n].input = Task.input
                        ELSE Q[n].part = "modular"
      OBVIOUS
    <3>1. n \in 1..Len(P) + Len(T) /\ n \in Int
      BY <2>2
    <3>2. CASE n <= Len(P)
      BY <1>9, <2>2, <2>4, <3>1, <3>2
    <3>3. CASE ~(n <= Len(P))
      <4>1. n - Len(P) \in 1..Len(T) /\ Q[n] = T[n - Len(P)]
        BY <1>9, <2>2, <3>1, <3>3
      <4>2. QED  BY <2>3, <3>3, <4>1
    <3>4. QED  BY <3>2, <3>3
  <2>6. QED  BY <1>9, <2>1, <2>2, <2>5
<1>11. opt.modular /\ Len(P) \in Nat /\ Len(Tail(todo)) \in Nat
  BY <1>0, <1>5, <1>6, <1>7, LenProperties DEF Fits, Plan
<1>12. QED  BY <1>10, <1>11

\* The modules of an input come before the other inputs, and their list is there.
LEMMA SplitFits ==
  ASSUME Fits, Split  PROVE  Fits'
<1>1. pc = "split" /\ todo \in Seq(Tasks) /\ todo # <<>> /\ Task.part = "modular"
  BY UnderWay DEF Split
<1>2. CASE ModFile.form # "full"
  BY <1>1, <1>2, GiveUpFits DEF Split, Return1
<1>3. CASE ModFile.form = "full"
  <2>1. pc' = "next" /\ UNCHANGED <<files, runs, opt, trusted, cache, got>>
    BY <1>3 DEF Split
  <2>2. todo' \in Seq(Tasks) /\ DOMAIN todo' \subseteq Nat /\ opt.modular
    BY <1>3, SplitParts
  <2>3. PICK len \in Nat : \A n \in DOMAIN todo' :
          IF n <= len
          THEN todo'[n].part \in {"constant", "root"} /\ todo'[n].input = Task.input
          ELSE todo'[n].part = "modular"
    BY <1>3, SplitParts
  <2>4. Plan'
    <3>1. \A n \in DOMAIN todo' : opt'.modular <=> todo'[n].part # "whole"
      BY <2>1, <2>2, <2>3
    <3>2. \A m, n \in DOMAIN todo' :
            m < n /\ todo'[m].part = "modular" => todo'[n].part = "modular"
      BY <2>2, <2>3
    <3>3. QED  BY <2>1, <3>1, <3>2 DEF Plan, Suits
  <2>5. ModulesListed'
    BY <1>3, <2>1, <2>3 DEF ModulesListed, ModFile, Here, BaseOf
  <2>6. TypeOK'
    BY <2>1, <2>2 DEF Fits, TypeOK, Steps
  <2>7. FilesFit' /\ CacheFits' /\ Rests' /\ StepReady'
    BY <2>1 DEF Fits, FilesFit, CacheFits, Rests, StepReady, Reads
  <2>8. QED  BY <2>4, <2>5, <2>6, <2>7 DEF Fits
<1>4. QED  BY <1>2, <1>3

\* The answer of a module that is a constant is that of the list.
LEMMA ConstantFits ==
  ASSUME Fits, Constant  PROVE  Fits'
<1>1. todo \in Seq(Tasks) /\ todo # <<>> /\ todo' = Tail(todo)
      /\ pc' = "next" /\ UNCHANGED <<files, runs, opt, trusted, cache>>
      /\ Task.part = "constant"
      /\ got' = got \cup {[task |-> Task, model |-> ModFile, labels |-> ModFile,
                           trusted |-> ModFile.src.input = Task.input]}
  BY DEF Fits, TypeOK, Constant
<1>2. /\ todo' \in Seq(Tasks)
      /\ \A n \in DOMAIN todo' : n + 1 \in DOMAIN todo /\ todo'[n] = todo[n + 1]
  BY <1>1, TailEffect
<1>3. ModFile \in Contents
  <2>1. BaseOf(Task) \in Bases /\ 1 \in DOMAIN todo /\ Task = todo[1]
    BY <1>1, TaskType
  <2>2. ModFile \in Contents \cup {Missing} /\ ModFile.form = "full"
    BY <1>1, <2>1 DEF Fits, TypeOK, ModulesListed, ModFile, Here, Kinds
  <2>3. QED  BY <2>2, FoundIsContents
<1>4. \A g \in got' : g.task \in Tasks /\ {g.model, g.labels} \subseteq Contents
  BY <1>1, <1>3, TaskType DEF Fits, TypeOK
<1>5. CacheFits'
  BY <1>1 DEF Fits, CacheFits
<1>6. QED  BY <1>1, <1>2, <1>4, <1>5, NextFits

LEMMA ModuleRootFits ==
  ASSUME Fits, ModuleRoot  PROVE  Fits'
  BY GiveUpFits DEF ModuleRoot, Return1

LEMMA CanonicaliseFits ==
  ASSUME Fits, Canonicalise  PROVE  Fits'
<1>1. pc = "canonicalise"
  BY DEF Canonicalise
<1>2. Original \in Contents /\ Original.form = "full"
  BY <1>1, OriginalType
<1> DEFINE new == [k \in {"dft"} |-> Original]
<1>3. new \in [{"dft"} -> Contents] /\ \A k \in {"dft"} : Fitting(k, new[k])
  BY <1>2 DEF Fitting
<1>4. Reads("translate") = {"dft"} /\ {"dft"} \subseteq Kinds
      /\ "translate" \in Steps \ {"idle", "next"} /\ Suits("translate")
  BY DEF Reads, Suits, Kinds, Steps
<1>5. CASE Reusable("dft")
  BY <1>1, <1>4, <1>5, UnderWay, GotoFits DEF Canonicalise, Reusable
<1>6. CASE ~Reusable("dft")
  <2>1. Fails(new) \/ RunCommand("dft2lntc", new, {"dft"}, "translate")
    BY <1>6 DEF Canonicalise
  <2> HIDE DEF new
  <2>2. RunCommand("dft2lntc", new, {"dft"}, "translate")
    BY <2>1 DEF RunCommand
  <2>3. QED  BY <1>1, <1>3, <1>4, <2>2, UnderWay, RunFits
<1>7. QED  BY <1>5, <1>6

\* The copy of the tree is translated with the evidence of the invocation.
LEMMA TranslationType ==
  ASSUME Fits, pc = "translate"
  PROVE  LET c == [Here["dft"] EXCEPT !.src.ev = opt.ev]
         IN  /\ c \in Contents /\ c.form = Here["dft"].form
             /\ c.src = [input |-> Here["dft"].src.input, ev |-> opt.ev]
<1>1. Here["dft"] \in Contents /\ opt.ev \in BOOLEAN
  BY UnderWay, PipelineAssumption DEF Fits, StepReady, Reads, Has, Kinds
<1> DEFINE f == Here["dft"]
<1>2. f.src \in Sources /\ f.src.input \in Inputs /\ f.form = Here["dft"].form
  BY <1>1 DEF Contents, Sources
<1>3. [f EXCEPT !.src.ev = opt.ev] = [f EXCEPT !.src = [f.src EXCEPT !.ev = opt.ev]]
  BY Zenon
<1>4. [f.src EXCEPT !.ev = opt.ev] = [input |-> f.src.input, ev |-> opt.ev]
  BY <1>2 DEF Sources
<1>5. QED  BY <1>1, <1>2, <1>3, <1>4 DEF Contents, Sources

LEMMA TranslateFits ==
  ASSUME Fits, Translate  PROVE  Fits'
<1> DEFINE c == [Here["dft"] EXCEPT !.src.ev = opt.ev]
           D == {"exp", "svl"}
           new == [k \in D |-> c]
           next == IF opt.checker = "EXP_ONLY" THEN "done" ELSE "lookup"
<1>1. pc = "translate" /\ Fitting("dft", Here["dft"]) /\ Has("dft")
  BY UnderWay DEF Translate, Fits, StepReady, Reads, Kinds
<1>2. c \in Contents /\ c.form \notin {"ctmdpi", "tra"}
  BY <1>1, TranslationType DEF Fitting, Has
<1>3. Reads(next) \subseteq D /\ D \subseteq Kinds
      /\ next \in Steps \ {"idle", "next", "modularise", "split"} /\ Suits(next)
  BY DEF Reads, Kinds, Steps, Suits
<1> HIDE DEF c, next
<1>4. new \in [D -> Contents] /\ \A k \in D : Fitting(k, new[k])
  BY <1>2 DEF Fitting
<1>5. CASE Reusable("exp") /\ Has("svl")
  <2>1. Goto(next)
    BY <1>5 DEF Translate, next
  <2>2. \A k \in Reads(next) : Has(k)
    BY <1>3, <1>5 DEF Reusable
  <2>3. QED  BY <1>1, <1>3, <2>1, <2>2, UnderWay, GotoFits
<1>6. CASE ~(Reusable("exp") /\ Has("svl"))
  <2>1. RunCommand("dft2lntc", new, D, next)
    BY <1>6 DEF Translate, next, c
  <2> HIDE DEF new, D
  <2>2. QED  BY <1>1, <1>3, <1>4, <2>1, UnderWay, RunFits
<1>7. QED  BY <1>5, <1>6

LEMMA ExpOnlyDoneFits ==
  ASSUME Fits, ExpOnlyDone  PROVE  Fits'
<1>1. todo \in Seq(Tasks) /\ todo # <<>> /\ todo' = Tail(todo)
      /\ pc' = "next" /\ UNCHANGED <<files, runs, opt, trusted, cache, got>>
  BY DEF Fits, TypeOK, ExpOnlyDone, Return0
<1>2. \A g \in got' : g.task \in Tasks /\ {g.model, g.labels} \subseteq Contents
  BY <1>1 DEF Fits, TypeOK
<1>3. CacheFits'
  BY <1>1 DEF Fits, CacheFits
<1>4. QED  BY <1>1, <1>2, <1>3, TailEffect, NextFits

\* An answer, if there is one, and on to the next calculation.
LEMMA AnswerFits ==
  ASSUME Fits, todo # <<>>, Return0, files' = files, CacheFits',
         got' = got \/ \E a : /\ {a.model, a.labels} \subseteq Contents
                              /\ Answer(a)
  PROVE  Fits'
<1>1. todo \in Seq(Tasks) /\ todo' = Tail(todo)
      /\ pc' = "next" /\ UNCHANGED <<runs, opt, trusted>>
  BY DEF Fits, TypeOK, Return0
<1>2. \A g \in got' : g.task \in Tasks /\ {g.model, g.labels} \subseteq Contents
  <2>1. CASE got' = got
    BY <2>1 DEF Fits, TypeOK
  <2>2. ASSUME NEW a, {a.model, a.labels} \subseteq Contents, Answer(a)
        PROVE  \A g \in got' : g.task \in Tasks
                               /\ {g.model, g.labels} \subseteq Contents
    BY <1>1, <2>2, TaskType DEF Fits, TypeOK, Answer
  <2>3. QED  BY <2>1, <2>2
<1>3. QED  BY <1>1, <1>2, TailEffect, NextFits

LEMMA LookupFits ==
  ASSUME Fits, Lookup  PROVE  Fits'
<1> DEFINE key == ExpKey(Here["exp"])
<1>1. pc = "lookup" /\ Has("exp")
  BY DEF Lookup, Fits, StepReady, Reads, Kinds
<1>2. CASE key \in DOMAIN cache
  <2>1. CacheFits'
    BY <1>2 DEF Lookup, Fits, CacheFits
  <2>2. cache[key] = Missing
        \/ {cache[key].model, cache[key].labels} \subseteq Contents
    BY <1>2 DEF Fits, CacheFits
  <2>3. Return0 /\ files' = files
        /\ IF cache[key] = Missing THEN got' = got ELSE Answer(cache[key])
    BY <1>2 DEF Lookup
  <2> HIDE DEF key
  <2>4. QED  BY <1>1, <2>1, <2>2, <2>3, UnderWay, AnswerFits
<1>3. CASE key \notin DOMAIN cache
  <2> DEFINE next == IF opt.conv = "DFTRES" THEN "export"
                     ELSE IF Reusable("bcg") THEN "inspect" ELSE "svl"
  <2>1. Goto(next)
    BY <1>3 DEF Lookup
  <2>2. next \in Steps \ {"idle", "next", "modularise", "split"} /\ Suits(next)
    BY DEF Steps, Suits
  <2>3. \A k \in Reads(next) : Has(k)
    BY <1>1 DEF Reads, Reusable
  <2> HIDE DEF next
  <2>4. QED  BY <1>1, <2>1, <2>2, <2>3, UnderWay, GotoFits
<1>4. QED  BY <1>2, <1>3

Forms == {"full", "partial", "raw", "maxprog", "ctmdpi", "tra"}

LEMMA MadeType ==
  ASSUME NEW c \in Contents, NEW form \in Forms
  PROVE  /\ Made(c, form) \in Contents /\ Made(c, form).src = c.src
         /\ Made(c, form).form
              = IF c.form \in {"partial", "raw"} THEN c.form ELSE form
  BY DEF Made, Contents, Forms

\* A tool of the chain writes one file, which the next step reads.
LEMMA ChainFits ==
  ASSUME Fits, pc \notin {"idle", "next", "modularise", "split"},
         NEW k \in Kinds \ {"mod", "lab"}, NEW c \in Contents,
         c.form \notin {"ctmdpi", "tra"}, NEW tool,
         NEW next \in Steps \ {"idle", "next", "modularise", "split"},
         Reads(next) = {k}, Suits(next), Chain(tool, k, c, next)
  PROVE  Fits'
<1> DEFINE D == {k}
           new == [x \in D |-> c]
<1>1. RunCommand(tool, new, D, next)
  BY DEF Chain
<1>2. new \in [D -> Contents] /\ \A x \in D : Fitting(x, new[x])
  BY DEF Fitting
<1>3. D \subseteq Kinds /\ Reads(next) \subseteq D
  OBVIOUS
<1> HIDE DEF D, new
<1>4. QED  BY <1>1, <1>2, <1>3, UnderWay, RunFits

LEMMA SvlFits ==
  ASSUME Fits, Svl  PROVE  Fits'
<1>1. Here["exp"] \in Contents /\ pc = "svl"
  BY UnderWay DEF Svl, Fits, StepReady, Reads, Has, Kinds
<1>2. Reads("maxprog") = {"bcg"} /\ Suits("maxprog")
  BY <1>1, UnderWay DEF Reads, Suits, Kinds
<1> DEFINE c == Made(Here["exp"], "raw")
<1>3. c \in Contents /\ c.form \notin {"ctmdpi", "tra"}
  BY <1>1, MadeType DEF Forms
<1>4. Chain("svl", "bcg", c, "maxprog")
  BY DEF Svl
<1> HIDE DEF c
<1>5. QED  BY <1>1, <1>2, <1>3, <1>4, ChainFits DEF Kinds, Steps

\* What maximal progress is applied to.
LEMMA CutType ==
  ASSUME NEW c \in Contents
  PROVE  LET cut == [c EXCEPT !.form = IF @ = "raw" THEN "maxprog" ELSE @]
         IN  /\ cut \in Contents /\ cut.src = c.src
             /\ cut.form = IF c.form = "raw" THEN "maxprog" ELSE c.form
  BY DEF Contents

LEMMA MaxprogFits ==
  ASSUME Fits, Maxprog  PROVE  Fits'
<1>1. /\ Here["bcg"] \in Contents /\ Here["bcg"].form \notin {"ctmdpi", "tra"}
      /\ pc = "maxprog"
  BY UnderWay DEF Maxprog, Fits, StepReady, Reads, Has, Kinds, Fitting
<1>2. Reads("bcg_io") = {"aut"} /\ Suits("bcg_io")
  BY <1>1, UnderWay DEF Reads, Suits, Kinds
<1> DEFINE c == [Here["bcg"] EXCEPT !.form = IF @ = "raw" THEN "maxprog" ELSE @]
<1>3. c \in Contents /\ c.form \notin {"ctmdpi", "tra"}
  BY <1>1, CutType
<1>4. Chain("maxprog", "aut", c, "bcg_io")
  BY DEF Maxprog
<1> HIDE DEF c
<1>5. QED  BY <1>1, <1>2, <1>3, <1>4, ChainFits DEF Kinds, Steps

LEMMA BcgIoFits ==
  ASSUME Fits, BcgIo  PROVE  Fits'
<1>1. /\ Here["aut"] \in Contents /\ Here["aut"].form \notin {"ctmdpi", "tra"}
      /\ pc = "bcg_io"
  BY UnderWay DEF BcgIo, Fits, StepReady, Reads, Has, Kinds, Fitting
<1>2. Reads("bcg_min") = {"bcg"} /\ Suits("bcg_min")
  BY <1>1, UnderWay DEF Reads, Suits, Kinds
<1>3. QED  BY <1>1, <1>2, ChainFits DEF BcgIo, Kinds, Steps

LEMMA BcgMinFits ==
  ASSUME Fits, BcgMin  PROVE  Fits'
<1>1. Here["bcg"] \in Contents /\ pc = "bcg_min"
  BY UnderWay DEF BcgMin, Fits, StepReady, Reads, Has, Kinds
<1>2. Reads("inspect") = {"bcg"} /\ Suits("inspect")
  BY <1>1, UnderWay DEF Reads, Suits, Kinds
<1> DEFINE c == Made(Here["bcg"], "full")
<1>3. c \in Contents /\ c.form \notin {"ctmdpi", "tra"}
  BY <1>1, MadeType DEF Forms
<1>4. Chain("bcg_min", "bcg", c, "inspect")
  BY DEF BcgMin
<1> HIDE DEF c
<1>5. QED  BY <1>1, <1>2, <1>3, <1>4, ChainFits DEF Kinds, Steps

LEMMA InspectFits ==
  ASSUME Fits, Inspect  PROVE  Fits'
<1>1. pc = "inspect" /\ Has("bcg")
  BY DEF Inspect, Fits, StepReady, Reads, Kinds
<1>2. CASE Goto("convert")
  <2>1. (\A k \in Reads("convert") : Has(k)) /\ Suits("convert")
    BY <1>1, UnderWay DEF Reads, Suits
  <2>2. QED  BY <1>1, <1>2, <2>1, UnderWay, GotoFits DEF Steps
<1>3. CASE Return1 /\ UNCHANGED files
  BY <1>1, <1>3, UnderWay, GiveUpFits DEF Return1
<1>4. QED  BY <1>2, <1>3 DEF Inspect

\* The file the model checker reads, by converter and checker.
LEMMA ModelFileIs ==
  /\ opt.conv = "DFTRES" => ModelFile = ExactFile /\ LabelFile = "exact.lab"
  /\ opt.conv # "DFTRES" /\ opt.checker = "MRMC" => ModelFile = "ctmdpi"
  /\ opt.conv # "DFTRES" /\ opt.checker = "IMRMC" => ModelFile = "tra"
  /\ opt.conv # "DFTRES" /\ opt.checker = "IMCA" => ModelFile = "ma"
  /\ opt.conv # "DFTRES" /\ opt.checker \notin {"MRMC", "IMRMC", "IMCA"}
       => ModelFile = "jani"
  /\ opt.conv # "DFTRES" => LabelFile = "lab"
  /\ ExactFile = IF opt.checker = "IMRMC" THEN "exact.tra" ELSE "jani"
  /\ ModelFile \in {"exact.tra", "jani", "ctmdpi", "tra", "ma"}
<1>1. ExactFile = IF opt.checker = "IMRMC" THEN "exact.tra" ELSE "jani"
  BY DEF ExactFile
<1>2. CASE opt.conv = "DFTRES"
  BY <1>1, <1>2 DEF ModelFile, LabelFile
<1>3. CASE opt.conv # "DFTRES"
  BY <1>1, <1>3 DEF ModelFile, LabelFile
<1>4. QED  BY <1>2, <1>3

LEMMA ExportFits ==
  ASSUME Fits, Export  PROVE  Fits'
<1> DEFINE D == IF opt.checker = "IMRMC" THEN {"exact.tra", "exact.lab"} ELSE {"jani"}
           c == Made(Here["exp"], "full")
           new == [k \in D |-> c]
<1>1. Here["exp"] \in Contents /\ pc = "export"
  BY UnderWay DEF Export, Fits, StepReady, Reads, Has, Kinds
<1>2. c \in Contents /\ c.form \notin {"ctmdpi", "tra"}
  BY <1>1, MadeType DEF Forms
<1>3. Reads("analyse") = {} /\ "analyse" \in Steps /\ Suits("analyse")
  BY DEF Reads, Steps, Suits
<1>4. D \subseteq Kinds \ {"mod"}
  BY DEF Kinds
<1>5. CASE Reusable(ExactFile)
  BY <1>1, <1>3, <1>5, UnderWay, GotoFits DEF Export
<1>6. CASE ~Reusable(ExactFile)
  <2>1. RunCommand("dftres", new, D, "analyse")
    BY <1>6 DEF Export
  <2> HIDE DEF D, c
  <2>2. new \in [D -> Contents] /\ \A k \in D : Fitting(k, new[k])
    BY <1>2, <1>4 DEF Fitting
  <2> HIDE DEF new
  <2>3. QED  BY <1>1, <1>3, <1>4, <2>1, <2>2, UnderWay, RunFits
<1>7. QED  BY <1>5, <1>6

\* What a converter writes: the model, and the labels under the model's format.
Conversion == {ModelFile} \cup (IF HasLabels THEN {"lab"} ELSE {})
Converted ==
    [k \in Conversion |-> Made(Here["bcg"], IF k = "lab" THEN ModelFile ELSE "full")]

LEMMA ConvertedType ==
  ASSUME Here["bcg"] \in Contents, opt.conv # "DFTRES"
  PROVE  /\ Conversion \subseteq Kinds \ {"mod"} /\ ModelFile \in Conversion
         /\ Converted \in [Conversion -> Contents]
         /\ \A k \in Conversion :
              /\ Fitting(k, Converted[k]) /\ Converted[k].src = Here["bcg"].src
              /\ Converted[k].form = IF Here["bcg"].form \in {"partial", "raw"}
                                     THEN Here["bcg"].form
                                     ELSE IF k = "lab" THEN ModelFile ELSE "full"
<1>1. ModelFile \in {"jani", "ctmdpi", "tra", "ma"}
      /\ (HasLabels => ModelFile \in {"ctmdpi", "tra"})
  BY ModelFileIs DEF HasLabels
<1>2. ASSUME NEW k \in Conversion
      PROVE  /\ (IF k = "lab" THEN ModelFile ELSE "full") \in Forms
             /\ k # "lab" => (IF k = "lab" THEN ModelFile ELSE "full") = "full"
  BY <1>1, <1>2 DEF Forms, Conversion
<1>3. Conversion \subseteq Kinds \ {"mod"} /\ ModelFile \in Conversion
  BY <1>1 DEF Conversion, Kinds
<1> HIDE DEF Conversion, ModelFile
<1>4. ASSUME NEW k \in Conversion
      PROVE  /\ Converted[k] \in Contents /\ Converted[k].src = Here["bcg"].src
             /\ Converted[k].form = IF Here["bcg"].form \in {"partial", "raw"}
                                    THEN Here["bcg"].form
                                    ELSE IF k = "lab" THEN ModelFile ELSE "full"
  BY <1>2, MadeType DEF Converted
<1>5. \A k \in Conversion : Fitting(k, Converted[k])
  BY <1>2, <1>3, <1>4 DEF Fitting
<1>6. Converted \in [Conversion -> Contents]
  BY <1>4 DEF Converted
<1>7. QED  BY <1>3, <1>4, <1>5, <1>6

LEMMA ConvertFits ==
  ASSUME Fits, Convert  PROVE  Fits'
<1>1. Here["bcg"] \in Contents /\ pc = "convert"
  BY UnderWay DEF Convert, Fits, StepReady, Reads, Has, Kinds
<1>2. Reads("analyse") = {} /\ "analyse" \in Steps /\ Suits("analyse")
      /\ opt.conv # "DFTRES"
  BY <1>1, UnderWay DEF Reads, Steps, Suits
<1>3. CASE Reusable(ModelFile)
  BY <1>1, <1>2, <1>3, UnderWay, GotoFits DEF Convert
<1>4. CASE ~Reusable(ModelFile)
  <2>1. RunCommand(Converter, Converted, {ModelFile}, "analyse")
    BY <1>4 DEF Convert, Converted, Conversion
  <2>2. /\ Conversion \in SUBSET Kinds /\ {ModelFile} \in SUBSET Conversion
        /\ Converted \in [Conversion -> Contents]
        /\ \A k \in Conversion : Fitting(k, Converted[k])
    BY <1>1, <1>2, ConvertedType
  <2>3. todo # <<>> /\ Task.part = "whole"
    BY <1>1, UnderWay
  <2>4. /\ "analyse" \in Steps \ {"idle", "next"}
        /\ "analyse" \notin {"modularise", "split"}
        /\ Reads("analyse") \subseteq {ModelFile}
    BY <1>2
  <2>5. QED  BY <1>2, <2>1, <2>2, <2>3, <2>4, RunFits
<1>5. QED  BY <1>3, <1>4

LEMMA AnalyseFits ==
  ASSUME Fits, Analyse  PROVE  Fits'
<1> DEFINE a == [model |-> Here[ModelFile],
                 labels |-> IF HasLabels THEN Here[LabelFile] ELSE Here[ModelFile]]
           key == ExpKey(Here["exp"])
<1>1. pc = "analyse" /\ Return0 /\ files' = files
  BY DEF Analyse
<1>2. ModelFile \in Kinds /\ LabelFile \in Kinds
  BY ModelFileIs DEF Kinds, LabelFile
<1>3. {a.model, a.labels} \subseteq Contents \cup {Missing}
  BY <1>1, <1>2, UnderWay
<1>4. \/ Missing \notin {a.model, a.labels} /\ Answer(a) /\ Remember(key, a)
      \/ got' = got /\ Remember(key, Missing)
  BY DEF Analyse
<1> HIDE DEF a, key
<1>5. CASE Missing \notin {a.model, a.labels} /\ Answer(a) /\ Remember(key, a)
  <2>1. CacheFits'
    BY <1>3, <1>5 DEF Remember, Fits, CacheFits
  <2>2. QED  BY <1>1, <1>3, <1>5, <2>1, UnderWay, AnswerFits
<1>6. CASE got' = got /\ Remember(key, Missing)
  <2>1. CacheFits'
    BY <1>6 DEF Remember, Fits, CacheFits
  <2>2. QED  BY <1>1, <1>6, <2>1, UnderWay, AnswerFits
<1>7. QED  BY <1>4, <1>5, <1>6

\* Type correctness and the shape of every state, whatever the tools do.
THEOREM PipelineFits == Spec => []Fits
<1>1. Init => Fits
  <2> SUFFICES ASSUME Init  PROVE Fits
    OBVIOUS
  <2>1. TypeOK /\ FilesFit
    <3>1. ASSUME NEW b \in Bases, b \in UserBases
          PROVE  UserOf(b) \in Inputs
      <4>1. \E i \in InPlace : NameOf[i] = b
        BY <3>1 DEF UserBases
      <4>2. UserOf(b) \in InPlace
        BY <4>1 DEF UserOf
      <4>3. QED  BY <4>2, PipelineAssumption
    <3> DEFINE own(b) == [src |-> [input |-> UserOf(b), ev |-> FALSE], form |-> "full"]
    <3>2. ASSUME NEW b \in Bases, b \in UserBases
          PROVE  own(b) \in Contents /\ own(b).form = "full"
      BY <3>1, <3>2 DEF Contents, Sources
    <3>3. files = [b \in Bases |-> [k \in Kinds |->
                     IF k = "dft" /\ b \in UserBases THEN own(b) ELSE Missing]]
      BY DEF Init
    <3> HIDE DEF own
    <3>4. files \in Folders
      BY <3>2, <3>3 DEF Folders
    <3>5. FilesFit
      BY <3>2, <3>3 DEF FilesFit, Fitting
    <3>6. TypeOK
      BY <3>4, PipelineAssumption, EmptySeq DEF Init, TypeOK, Folders, Steps
    <3>7. QED  BY <3>5, <3>6
  <2>2. CacheFits /\ Rests /\ StepReady
    BY DEF Init, CacheFits, Rests, StepReady, Reads
  <2>3. Plan /\ ModulesListed
    BY DEF Init, Plan, Suits, ModulesListed
  <2>4. QED  BY <2>1, <2>2, <2>3 DEF Fits
<1>2. Fits /\ [Next]_vars => Fits'
  <2> SUFFICES ASSUME Fits, [Next]_vars  PROVE Fits'
    OBVIOUS
  <2>1. CASE \E o \in Options : Start(o)
    BY <2>1, StartFits
  <2>2. CASE Finish \/ Killed
    BY <2>2, ExitFits DEF Finish, Killed
  <2>3. CASE SkipLost \/ Modularise \/ ListModules \/ Split \/ Constant \/ ModuleRoot
    BY <2>3, SkipLostFits, ModulariseFits, ListModulesFits, SplitFits,
       ConstantFits, ModuleRootFits
  <2>4. CASE Prepare \/ Canonicalise \/ Translate \/ ExpOnlyDone \/ Lookup
    BY <2>4, PrepareFits, CanonicaliseFits, TranslateFits, ExpOnlyDoneFits, LookupFits
  <2>5. CASE Svl \/ Maxprog \/ BcgIo \/ BcgMin
    BY <2>5, SvlFits, MaxprogFits, BcgIoFits, BcgMinFits
  <2>6. CASE Inspect \/ Export \/ Convert \/ Analyse
    BY <2>6, InspectFits, ExportFits, ConvertFits, AnalyseFits
  <2>7. CASE UNCHANGED vars
    <3>1. TypeOK' /\ FilesFit' /\ CacheFits' /\ Rests'
      BY <2>7 DEF vars, Fits, TypeOK, FilesFit, CacheFits, Rests
    <3>2. Plan' /\ StepReady' /\ ModulesListed'
      BY <2>7 DEF vars, Fits, Plan, Suits, StepReady, Has, Here, Task, BaseOf,
                  ModulesListed
    <3>3. QED  BY <3>1, <3>2 DEF Fits
  <2>8. QED  BY <2>1, <2>2, <2>3, <2>4, <2>5, <2>6, <2>7 DEF Next
<1>3. QED  BY <1>1, <1>2, PTL DEF Spec

\* The state is well formed, and inside calculateDFT there is a calculation:
\* after an error no step is taken on the files it left.
THEOREM PipelineTypeCorrect == Spec => []TypeOK
<1>1. Fits => TypeOK
  BY DEF Fits
<1>2. QED  BY <1>1, PipelineFits, PTL
-----------------------------------------------------------------------------
(* Every step keeps Sound. *)

\* A file that is of use is finished and the own one of the calculation.
LEMMA UsableIsOwn ==
  ASSUME Fits, pc \notin {"idle", "next"}, NEW k \in Kinds \ {"lab", "mod"},
         Usable(k), Has(k)
  PROVE  Ours(k, SourceOf(Task, IF k = "dft" THEN FALSE ELSE opt.ev), {"full"})
<1>1. Here[k] \in Contents /\ Here[k].form \notin {"ctmdpi", "tra"}
  BY UnderWay DEF Has, Fitting
<1>2. Here[k].form \notin {"partial", "raw", "maxprog"}
  BY DEF Usable, Has
<1>3. Here[k].form = "full"
  BY <1>1, <1>2 DEF Contents
<1>4. Here[k].src = SourceOf(Task, IF k = "dft" THEN FALSE ELSE opt.ev)
  BY DEF Usable, Has
<1>5. QED  BY <1>3, <1>4 DEF Ours

\* The trees in the inputs are what they were.
LEMMA TreesSame ==
  ASSUME \A b \in Bases : files'[b]["dft"] = files[b]["dft"]
  PROVE  \A i \in Inputs : Tree(i)' = Tree(i)
<1>1. \A i \in Inputs : OwnFile(i)' = OwnFile(i)
  BY DEF OwnFile, Bases
<1>2. QED  BY <1>1 DEF Tree, Exists

\* The answers so far stay right, and so does what is remembered.
LEMMA AnswersKept ==
  ASSUME Sound, Fits, got \subseteq got', opt' = opt,
         opt.modular => \A b \in Bases : files'[b]["dft"] = files[b]["dft"]
  PROVE  \A g \in got : \/ g.task.part = "whole" /\ WholeRight(g)'
                        \/ g.task.part = "constant" /\ ModuleRight(g)'
<1> SUFFICES ASSUME NEW g \in got
             PROVE  \/ g.task.part = "whole" /\ WholeRight(g)'
                    \/ g.task.part = "constant" /\ ModuleRight(g)'
  OBVIOUS
<1>1. g.task \in Tasks /\ g.task.input \in Inputs
  BY DEF Fits, TypeOK, Tasks
<1>2. Fresh' => Fresh
  BY DEF Fresh
<1>3. CASE g.task.part = "whole" /\ WholeRight(g)
  BY <1>2, <1>3 DEF WholeRight, LabelsFit, HasLabels, ModelFile, ExactFile, Right
<1>4. CASE g.task.part = "constant" /\ ModuleRight(g)
  BY <1>1, <1>4, TreesSame DEF ModuleRight
<1>5. QED  BY <1>3, <1>4 DEF Sound, AnswersFit

LEMMA AnswersStay ==
  ASSUME Sound, Fits, got' = got, opt' = opt,
         opt.modular => \A b \in Bases : files'[b]["dft"] = files[b]["dft"]
  PROVE  AnswersFit'
  BY AnswersKept DEF AnswersFit

LEMMA RememberedStays ==
  ASSUME Sound, cache' = cache, got \subseteq got', opt' = opt
  PROVE  Remembered'
<1>1. Fresh' => Fresh
  BY DEF Fresh
<1>2. QED
  BY <1>1 DEF Sound, Remembered, LabelsFit, HasLabels, ModelFile, ExactFile

\* Between two calculations.
LEMMA OffTrack ==
  ASSUME pc' \in {"idle", "next", "modularise", "split"}
  PROVE  OnTrack'
  BY DEF OnTrack

\* While trees are calculated there are no modules.
LEMMA NoModules ==
  ASSUME Fits, todo # <<>>, Task.part = "whole"
  PROVE  ~opt.modular /\ \A n \in DOMAIN todo : todo[n].part # "constant"
<1>1. todo \in Seq(Tasks) /\ Plan
  BY DEF Fits, TypeOK
<1>2. 1 \in DOMAIN todo /\ Task = todo[1]
  BY <1>1, TaskType
<1>3. QED  BY <1>1, <1>2, NoneListed DEF Plan

\* What is left of the modules is of the lists as they were.
LEMMA ModulesStay ==
  ASSUME Sound, pc' = "next", files' = files, opt' = opt, NEW j \in Nat,
         \A n \in DOMAIN todo' : n + j \in DOMAIN todo /\ todo'[n] = todo[n + j]
  PROVE  ModulesOwn'
  BY DEF Sound, ModulesOwn, ListIsOwn, BaseOf, Tree, Exists, OwnFile

\* Going on with what is left, without an answer.
LEMMA NextSound ==
  ASSUME Sound, Fits, todo # <<>>, pc' = "next", UNCHANGED <<opt, cache, got>>,
         files' = files, NEW j \in Nat,
         \A n \in DOMAIN todo' : n + j \in DOMAIN todo /\ todo'[n] = todo[n + j]
  PROVE  Sound'
<1>1. OnTrack' /\ AnswersFit' /\ Remembered'
  BY OffTrack, AnswersStay, RememberedStays
<1>2. QED  BY <1>1, ModulesStay DEF Sound

LEMMA GiveUpSound ==
  ASSUME Sound, Fits, todo # <<>>, Return1, UNCHANGED files
  PROVE  Sound'
<1>1. todo \in Seq(Tasks) /\ GiveUp /\ pc' = "next" /\ UNCHANGED <<opt, cache, got>>
  BY DEF Fits, TypeOK, Return1
<1>2. PICK j \in Nat \ {0} : \A n \in DOMAIN todo' :
              n + j \in DOMAIN todo /\ todo'[n] = todo[n + j]
  BY <1>1, GiveUpEffect
<1>3. QED  BY <1>1, <1>2, NextSound

LEMMA StartSound ==
  ASSUME Fits, Sound, Fits', NEW o \in Options, Start(o)  PROVE  Sound'
<1>1. got' = {} /\ cache' = <<>> /\ pc' = "next"
  BY DEF Fits, Rests, Start
<1>2. \A n \in DOMAIN todo' : todo'[n].part # "constant"
  BY DEF Start
<1>3. QED
  BY <1>1, <1>2, OffTrack DEF Sound, ModulesOwn, Remembered, AnswersFit

LEMMA ExitSound ==
  ASSUME Exit  PROVE  Sound'
  BY OffTrack DEF Exit, Sound, ModulesOwn, Remembered, AnswersFit

LEMMA SkipLostSound ==
  ASSUME Fits, Sound, SkipLost  PROVE  Sound'
<1>1. todo \in Seq(Tasks) /\ todo # <<>> /\ todo' = Tail(todo)
      /\ pc' = "next" /\ UNCHANGED <<files, opt, cache, got>>
  BY DEF Fits, TypeOK, SkipLost
<1>2. QED  BY <1>1, TailEffect, NextSound

\* What storing does to the calculation under way.
LEMMA StoreHere ==
  ASSUME Fits, todo # <<>>, todo' = todo,
         NEW D \in SUBSET Kinds, NEW new \in [D -> Contents \cup {Missing}],
         Store(new)
  PROVE  /\ Task' = Task /\ BaseOf(Task)' = BaseOf(Task)
         /\ \A k \in Kinds : Here'[k] = IF k \in D THEN new[k] ELSE Here[k]
         /\ "dft" \notin D => \A b \in Bases : files'[b]["dft"] = files[b]["dft"]
<1>1. files \in Folders /\ todo \in Seq(Tasks)
  BY DEF Fits, TypeOK, Folders
<1>2. /\ \A b \in Bases : b # BaseOf(Task) => files'[b] = files[b]
      /\ \A k \in Kinds :
           files'[BaseOf(Task)][k] = IF k \in D THEN new[k] ELSE Here[k]
  BY <1>1, StoreEffect
<1>3. Task' = Task /\ BaseOf(Task)' = BaseOf(Task)
  BY DEF Task, BaseOf
<1>4. \A k \in Kinds : Here'[k] = IF k \in D THEN new[k] ELSE Here[k]
  BY <1>2, <1>3 DEF Here
<1>5. "dft" \in Kinds
  BY DEF Kinds
<1>6. QED  BY <1>2, <1>3, <1>4, <1>5 DEF Here

LEMMA ModulariseSound ==
  ASSUME Fits, Sound, Modularise  PROVE  Sound'
<1>1. /\ todo # <<>> /\ Task.part = "modular" /\ pc' = "modularise"
      /\ UNCHANGED <<opt, todo, cache, got>> /\ todo \in Seq(Tasks)
  BY DEF Modularise, Fits, TypeOK
<1>2. \A n \in DOMAIN todo' : todo'[n].part # "constant"
  BY <1>1, NoneListed DEF Fits
<1>3. /\ opt.reuse \/ ~Has("mod")'
      /\ \A b \in Bases : files'[b]["dft"] = files[b]["dft"]
  <2>1. CASE opt.reuse
    BY <2>1 DEF Modularise
  <2>2. CASE ~opt.reuse
    <3>1. Store([k \in {"mod"} |-> Missing])
      BY <2>2 DEF Modularise
    <3>2. {"mod"} \subseteq Kinds
      BY DEF Kinds
    <3>3. Here'["mod"] = Missing
          /\ \A b \in Bases : files'[b]["dft"] = files[b]["dft"]
      BY <1>1, <3>1, <3>2, StoreHere
    <3>4. QED  BY <3>3 DEF Has
  <2>3. QED  BY <2>1, <2>2
<1>4. OnTrack' /\ AnswersFit' /\ Remembered'
  BY <1>1, <1>3, OffTrack, AnswersStay, RememberedStays
<1>5. ModulesOwn'
  BY <1>1, <1>2, <1>3 DEF ModulesOwn
<1>6. QED  BY <1>4, <1>5 DEF Sound

LEMMA ListModulesSound ==
  ASSUME Fits, Sound, ListModules  PROVE  Sound'
<1> DEFINE new == [k \in {"mod"} |-> Original]
<1>1. /\ pc = "modularise" /\ todo # <<>> /\ Task.part = "modular"
      /\ files \in Folders /\ todo \in Seq(Tasks) /\ "mod" \in Kinds
      /\ BaseOf(Task) \in Bases /\ Task.input \in Inputs
  BY UnderWay DEF ListModules, Fits, TypeOK, Folders, Kinds
<1>2. Original \in Contents /\ Original.src.input = Tree(Task.input)
  BY <1>1, OriginalType
<1>3. \A n \in DOMAIN todo : todo[n].part # "constant"
  BY <1>1, NoneListed DEF Fits
<1>4. opt.reuse \/ ~Has("mod")
  BY <1>1 DEF Sound, ModulesOwn
<1>5. ASSUME pc' = "split", todo' = todo, UNCHANGED <<opt, cache, got>>,
             \A b \in Bases : files'[b]["dft"] = files[b]["dft"],
             opt.reuse \/ Here'["mod"] = Original
      PROVE  Sound'
  <2>1. OnTrack' /\ AnswersFit' /\ Remembered'
    BY <1>5, OffTrack, AnswersStay, RememberedStays
  <2>2. ListIsOwn(Task)'
    <3>1. Tree(Task.input)' = Tree(Task.input)
      BY <1>1, <1>5, TreesSame DEF Task
    <3>2. QED  BY <1>2, <1>5, <3>1 DEF ListIsOwn, Here, Task, BaseOf
  <2>3. ModulesOwn'
    BY <1>3, <1>5, <2>2 DEF ModulesOwn
  <2>4. QED  BY <2>1, <2>3 DEF Sound
<1>6. CASE Reusable("mod")
  BY <1>5, <1>6 DEF ListModules, Goto, Reusable
<1>7. CASE ~Reusable("mod")
  <2>1. RunCommand("dft2lntc", new, {"mod"}, "split")
    BY <1>7 DEF ListModules
  <2>2. new \in [{"mod"} -> Contents] /\ new["mod"] = Original
        /\ new \in [{"mod"} -> Contents \cup {Missing}]
    BY <1>2
  <2> HIDE DEF new
  <2>3. /\ UNCHANGED <<opt, cache, got>>
        /\ \/ /\ pc' = "split" /\ todo' = todo /\ Store(new)
           \/ /\ pc' = "split" /\ todo' = todo /\ files' = files /\ Has("mod")
           \/ /\ pc' = "next" /\ GiveUp
              /\ \/ files' = files
                 \/ \E ks \in SUBSET {"mod"} : Store(Truncated(new, ks))
    BY <1>1, <2>1, <2>2, RunEffect
  <2>4. CASE pc' = "split" /\ todo' = todo /\ Store(new)
    BY <1>1, <1>5, <2>2, <2>3, <2>4, StoreHere
  <2>5. CASE pc' = "split" /\ todo' = todo /\ files' = files /\ Has("mod")
    BY <1>4, <1>5, <2>3, <2>5
  <2>6. CASE pc' = "next" /\ GiveUp /\ files' = files
    <3>1. PICK j \in Nat \ {0} : \A n \in DOMAIN todo' :
              n + j \in DOMAIN todo /\ todo'[n] = todo[n + j]
      BY <1>1, <2>6, GiveUpEffect
    <3>2. QED  BY <1>1, <2>3, <2>6, <3>1, NextSound
  <2>7. ASSUME pc' = "next", GiveUp,
               NEW ks \in SUBSET {"mod"}, Store(Truncated(new, ks))
        PROVE  Sound'
    <3>1. \A n \in DOMAIN todo' : todo'[n].part # "constant"
      BY <1>1, <1>3, <2>7, GiveUpEffect
    <3>2. Truncated(new, ks) \in [ks -> Contents \cup {Missing}]
      <4>1. Truncated(new, ks) \in [ks -> Contents]
        BY <2>2, TruncatedType
      <4>2. QED  BY <4>1
    <3>3. \A b \in Bases : files'[b]["dft"] = files[b]["dft"]
      BY <1>1, <2>7, <3>2, StoreEffect DEF Here, Kinds
    <3>4. OnTrack' /\ AnswersFit' /\ Remembered'
      BY <2>3, <2>7, <3>3, OffTrack, AnswersStay, RememberedStays
    <3>5. ModulesOwn'
      BY <2>7, <3>1 DEF ModulesOwn
    <3>6. QED  BY <3>4, <3>5 DEF Sound
  <2>8. QED  BY <2>3, <2>4, <2>5, <2>6, <2>7
<1>8. QED  BY <1>6, <1>7

\* The modules of an input are found in the list just read.
LEMMA SplitSound ==
  ASSUME Fits, Sound, Split  PROVE  Sound'
<1>1. pc = "split" /\ todo \in Seq(Tasks) /\ todo # <<>> /\ Task.part = "modular"
  BY UnderWay DEF Split
<1>2. CASE ModFile.form # "full"
  BY <1>1, <1>2, GiveUpSound DEF Split
<1>3. CASE ModFile.form = "full"
  <2>1. pc' = "next" /\ UNCHANGED <<files, runs, opt, trusted, cache, got>>
    BY <1>3 DEF Split
  <2>2. OnTrack' /\ AnswersFit' /\ Remembered'
    BY <2>1, OffTrack, AnswersStay, RememberedStays
  <2>3. ListIsOwn(Task)
    BY <1>1 DEF Sound, ModulesOwn
  <2>4. \A n \in DOMAIN todo' :
          todo'[n].part = "constant" => todo'[n].input = Task.input
    BY <1>3, SplitParts
  <2>5. ModulesOwn'
    BY <2>1, <2>3, <2>4
       DEF ModulesOwn, ListIsOwn, BaseOf, Tree, Exists, OwnFile
  <2>6. QED  BY <2>2, <2>5 DEF Sound
<1>4. QED  BY <1>2, <1>3

\* A module that is a constant is answered from the list of its own tree.
LEMMA ConstantSound ==
  ASSUME Fits, Sound, Constant  PROVE  Sound'
<1> DEFINE r == [task |-> Task, model |-> ModFile, labels |-> ModFile,
                 trusted |-> ModFile.src.input = Task.input]
<1>1. /\ todo \in Seq(Tasks) /\ todo # <<>> /\ todo' = Tail(todo)
      /\ pc' = "next" /\ UNCHANGED <<files, runs, opt, trusted, cache>>
      /\ Task.part = "constant" /\ got' = got \cup {r}
  BY DEF Fits, TypeOK, Constant
<1>2. 1 \in DOMAIN todo /\ Task = todo[1] /\ BaseOf(Task) \in Bases
  BY <1>1, TaskType
<1>3. ModFile.form = "full" /\ opt.modular /\ ListIsOwn(Task)
  BY <1>1, <1>2
     DEF Fits, ModulesListed, Plan, Sound, ModulesOwn, ModFile, Here
<1>4. ModFile.src.ev = FALSE
  <2>1. ModFile \in Contents \cup {Missing} /\ Fitting("mod", ModFile)
    BY <1>2 DEF Fits, TypeOK, FilesFit, ModFile, Here, Kinds
  <2>2. QED  BY <1>3, <2>1, FoundIsContents DEF Fitting
<1>5. ASSUME NEW g, g = r
      PROVE  g.task.part = "constant" /\ ModuleRight(g)'
  <2>1. Tree(g.task.input)' = Tree(g.task.input)
    BY <1>1 DEF Tree, Exists, OwnFile
  <2>2. QED  BY <1>1, <1>3, <1>4, <1>5, <2>1 DEF ModuleRight, ListIsOwn, ModFile, Here
<1>6. OnTrack' /\ Remembered' /\ ModulesOwn'
  BY <1>1, OffTrack, RememberedStays, TailEffect, ModulesStay
<1> HIDE DEF r
<1>7. AnswersFit'
  <2>1. \A g \in got : \/ g.task.part = "whole" /\ WholeRight(g)'
                       \/ g.task.part = "constant" /\ ModuleRight(g)'
    BY <1>1, AnswersKept
  <2>2. QED  BY <1>1, <1>5, <2>1 DEF AnswersFit
<1>8. QED  BY <1>6, <1>7 DEF Sound

LEMMA ModuleRootSound ==
  ASSUME Fits, Sound, ModuleRoot  PROVE  Sound'
  BY GiveUpSound DEF ModuleRoot

\* A calculation starts with files that are of use, or without them.
LEMMA PrepareSound ==
  ASSUME Fits, Sound, Prepare  PROVE  Sound'
<1>1. /\ pc' = "canonicalise" /\ todo # <<>> /\ Task.part = "whole"
      /\ UNCHANGED <<opt, todo, cache, got>>
      /\ trusted' = (\A k \in Kinds \ {"aut", "mod"} : Usable(k))
  BY DEF Prepare
<1>2. ~opt.modular /\ \A n \in DOMAIN todo : todo[n].part # "constant"
  BY <1>1, NoModules
<1>3. AnswersFit' /\ Remembered' /\ ModulesOwn'
  BY <1>1, <1>2, AnswersStay, RememberedStays DEF ModulesOwn
<1>4. ASSUME Clean', NEW k \in Kinds \ {"aut", "mod"}
      PROVE  AsFound(k)'
  <2>1. CASE opt.reuse
    <3>1. UNCHANGED files /\ Usable(k)
      BY <1>1, <1>4, <2>1 DEF Clean, Prepare
    <3>2. QED
      BY <1>1, <2>1, <3>1 DEF AsFound, Usable, Here, Task, BaseOf, SourceOf
  <2>2. CASE ~opt.reuse
    <3>1. Store([x \in Removed |-> Missing]) /\ Removed \subseteq Kinds
      BY <2>2 DEF Prepare, Removed, Kinds
    <3>2. k \in Removed => Here'[k] = Missing
      <4> DEFINE D == Removed
      <4>1. D \in SUBSET Kinds /\ Store([x \in D |-> Missing])
        BY <3>1
      <4> HIDE DEF D
      <4>2. k \in D => Here'[k] = Missing
        BY <1>1, <4>1, StoreHere
      <4>3. QED  BY <4>2 DEF D
    <3>3. QED  BY <1>1, <2>2, <3>2 DEF AsFound, Has
  <2>3. QED  BY <2>1, <2>2
<1>5. {"dft", "exp", "bcg", ModelFile'} \subseteq Kinds \ {"aut", "mod"}
  BY <1>1, ModelFileIs DEF Kinds, ModelFile, ExactFile
<1>6. OnTrack'
  BY <1>1, <1>4, <1>5 DEF OnTrack
<1>7. QED  BY <1>3, <1>6 DEF Sound

\* A step of a tree at which there is no answer keeps the rest.
LEMMA WholeStays ==
  ASSUME Fits, Sound, todo # <<>>, Task.part = "whole",
         UNCHANGED <<opt, cache, got>>,
         \/ todo' = todo /\ pc' \notin {"modularise", "split"}
         \/ pc' = "next" /\ GiveUp
  PROVE  AnswersFit' /\ Remembered' /\ ModulesOwn'
<1>1. todo \in Seq(Tasks) /\ ~opt.modular
      /\ \A n \in DOMAIN todo : todo[n].part # "constant"
  BY NoModules DEF Fits, TypeOK
<1>2. \A n \in DOMAIN todo' : todo'[n].part # "constant"
  <2>1. CASE todo' = todo
    BY <1>1, <2>1
  <2>2. CASE GiveUp
    BY <1>1, <2>2, GiveUpEffect
  <2>3. QED  BY <2>1, <2>2
<1>3. QED  BY <1>1, <1>2, AnswersStay, RememberedStays DEF ModulesOwn

\* A tool that failed leaves files that no answer is read from.
LEMMA FailsSound ==
  ASSUME Fits, Sound, todo # <<>>, Task.part = "whole",
         pc' = "next", GiveUp, UNCHANGED <<opt, cache, got>>
  PROVE  Sound'
  BY OffTrack, WholeStays DEF Sound

LEMMA GotoSound ==
  ASSUME Fits, Sound, todo # <<>>, Task.part = "whole", NEW next,
         next \notin {"modularise", "split"}, Goto(next), OnTrack'
  PROVE  Sound'
  BY WholeStays DEF Sound, Goto

\* A tool was run for a tree: what it did is on track, if it goes on.
LEMMA RunSound ==
  ASSUME Fits, Sound, pc \notin {"idle", "next", "modularise", "split"},
         NEW D \in SUBSET Kinds, NEW new \in [D -> Contents],
         NEW tool, NEW expected, NEW next, next \notin {"modularise", "split"},
         RunCommand(tool, new, expected, next),
         /\ Task' = Task /\ UNCHANGED <<opt, trusted>> /\ pc' = next
         /\ \A k \in Kinds : Here'[k] = IF k \in D THEN new[k] ELSE Here[k]
         => OnTrack',
         /\ tool \in MaySkip /\ \A k \in expected : Has(k)
         /\ Task' = Task /\ Here' = Here /\ UNCHANGED <<opt, trusted>> /\ pc' = next
         => OnTrack'
  PROVE  Sound'
<1>1. todo \in Seq(Tasks) /\ todo # <<>> /\ Task.part = "whole" /\ files \in Folders
  BY UnderWay DEF Fits, TypeOK, Folders
<1>2. /\ UNCHANGED <<runs, opt, trusted, cache, got>>
      /\ \/ /\ pc' = next /\ todo' = todo /\ Store(new)
         \/ /\ pc' = next /\ todo' = todo /\ files' = files
            /\ tool \in MaySkip /\ \A k \in expected : Has(k)
         \/ pc' = "next" /\ GiveUp
  BY <1>1, RunEffect
<1>3. CASE pc' = next /\ todo' = todo /\ Store(new)
  <2>1. new \in [D -> Contents \cup {Missing}]
    OBVIOUS
  <2>2. Task' = Task /\ \A k \in Kinds : Here'[k] = IF k \in D THEN new[k] ELSE Here[k]
    BY <1>1, <1>3, <2>1, StoreHere
  <2>3. QED  BY <1>1, <1>2, <1>3, <2>2, WholeStays DEF Sound
<1>4. CASE /\ pc' = next /\ todo' = todo /\ files' = files
           /\ tool \in MaySkip /\ \A k \in expected : Has(k)
  <2>1. Task' = Task /\ Here' = Here
    BY <1>4 DEF Task, Here, BaseOf
  <2>2. QED  BY <1>1, <1>2, <1>4, <2>1, WholeStays DEF Sound
<1>5. CASE pc' = "next" /\ GiveUp
  BY <1>1, <1>2, <1>5, FailsSound
<1>6. QED  BY <1>2, <1>3, <1>4, <1>5

\* What is said of a file stays true while the file and the question stay.
LEMMA SameFile ==
  ASSUME Task' = Task, UNCHANGED <<opt, trusted>>
  PROVE  /\ Own' = Own /\ SourceOf(Task, FALSE)' = SourceOf(Task, FALSE)
         /\ Clean' = Clean /\ ModelFile' = ModelFile /\ LabelFile' = LabelFile
         /\ HasLabels' = HasLabels
         /\ \A k : Here'[k] = Here[k] =>
              /\ AsFound(k)' = AsFound(k)
              /\ \A src, forms : Ours(k, src, forms)' = Ours(k, src, forms)
  BY DEF Own, SourceOf, Clean, ModelFile, ExactFile, LabelFile, HasLabels,
         AsFound, Usable, Has, Ours

\* The tree is copied from the input, unless the copy found may be used.
LEMMA CanonicaliseSound ==
  ASSUME Fits, Sound, Canonicalise  PROVE  Sound'
<1> DEFINE new == [k \in {"dft"} |-> Original]
<1>1. /\ pc = "canonicalise" /\ todo # <<>> /\ Task.part = "whole"
      /\ Task.input \in Inputs /\ files \in Folders
      /\ Original \in Contents /\ Original.form = "full"
      /\ Original.src = [input |-> Tree(Task.input), ev |-> FALSE]
  BY UnderWay, OriginalType DEF Canonicalise, Fits, TypeOK, Folders
<1>2. {"dft", "exp", "bcg"} \subseteq Kinds /\ "dft" \in Removed
      /\ ModelFile \in Kinds \ {"dft", "lab", "mod"}
  BY ModelFileIs DEF Kinds, Removed
<1>3. Clean => /\ AsFound("dft") /\ AsFound("exp") /\ AsFound("bcg")
               /\ AsFound(ModelFile)
  BY <1>1 DEF Sound, OnTrack
<1>4. ASSUME Task' = Task, UNCHANGED <<opt, trusted>>, pc' = "translate",
             \A k \in Kinds \ {"dft"} : Here'[k] = Here[k],
             Clean => Ours("dft", SourceOf(Task, FALSE), {"full"})'
      PROVE  OnTrack'
  <2>1. CASE ~Clean
    BY <1>4, <2>1, SameFile DEF OnTrack
  <2>2. CASE Clean
    <3>1. AsFound("exp")' /\ AsFound("bcg")' /\ AsFound(ModelFile)'
      BY <1>2, <1>3, <1>4, <2>2, SameFile
    <3>2. QED  BY <1>4, <2>2, <3>1, SameFile DEF OnTrack
  <2>3. QED  BY <2>1, <2>2
<1>5. CASE Reusable("dft")
  <2>1. Clean => Ours("dft", SourceOf(Task, FALSE), {"full"})
    BY <1>1, <1>2, <1>3, <1>5, UsableIsOwn DEF Reusable, AsFound
  <2>2. Goto("translate")
    BY <1>5 DEF Canonicalise
  <2>3. Task' = Task /\ Here' = Here /\ UNCHANGED <<opt, trusted>> /\ pc' = "translate"
    BY <2>2 DEF Goto, Task, Here, BaseOf
  <2>4. QED  BY <1>1, <1>4, <2>1, <2>2, <2>3, SameFile, GotoSound
<1>6. CASE ~Reusable("dft")
  <2>1. Clean => ~Has("dft")
    BY <1>2, <1>3, <1>6 DEF Reusable, AsFound
  <2>2. CASE ~Exists(Task.input)
    BY <1>1, <1>6, <2>2, FailsSound DEF Canonicalise, Fails, Return1
  <2>3. CASE Exists(Task.input)
    <3>1. RunCommand("dft2lntc", new, {"dft"}, "translate")
      BY <1>6, <2>3 DEF Canonicalise
    <3>2. Clean => Tree(Task.input) = Task.input
      BY <2>1, <2>3 DEF Tree, Exists, OwnFile, Has, Here, BaseOf
    <3>3. new \in [{"dft"} -> Contents] /\ new["dft"] = Original
      BY <1>1
    <3> HIDE DEF new
    <3>4. ASSUME Task' = Task, UNCHANGED <<opt, trusted>>, pc' = "translate",
                 \A k \in Kinds : Here'[k] = IF k \in {"dft"} THEN new[k] ELSE Here[k]
          PROVE  OnTrack'
      <4>1. ASSUME Clean
            PROVE  Ours("dft", SourceOf(Task, FALSE), {"full"})'
        <5>1. Here'["dft"] = Original /\ Here'["dft"] # Missing
          BY <1>1, <1>2, <3>3, <3>4, FoundIsContents
        <5>2. QED  BY <1>1, <3>2, <3>4, <4>1, <5>1 DEF Ours, Has, SourceOf
      <4>2. QED  BY <1>4, <3>4, <4>1
    <3>5. ~(Clean /\ Has("dft"))
      BY <2>1
    <3>6. ASSUME Has("dft"), Task' = Task, UNCHANGED <<opt, trusted>>
          PROVE  OnTrack'
      BY <3>5, <3>6, SameFile DEF OnTrack
    <3> DEFINE D == {"dft"}
    <3>7. /\ D \in SUBSET Kinds /\ new \in [D -> Contents]
          /\ RunCommand("dft2lntc", new, D, "translate")
          /\ (\A k \in D : Has(k)) => Has("dft")
      BY <1>2, <3>1, <3>3
    <3>8. ASSUME Task' = Task, UNCHANGED <<opt, trusted>>, pc' = "translate",
                 \A k \in Kinds : Here'[k] = IF k \in D THEN new[k] ELSE Here[k]
          PROVE  OnTrack'
      BY <3>4, <3>8
    <3> HIDE DEF D
    <3>9. QED  BY <1>1, <3>6, <3>7, <3>8, RunSound
  <2>4. QED  BY <2>2, <2>3
<1>7. QED  BY <1>5, <1>6

\* The copy is translated for the evidence of this invocation.
LEMMA TranslateSound ==
  ASSUME Fits, Sound, Translate  PROVE  Sound'
<1> DEFINE c == [Here["dft"] EXCEPT !.src.ev = opt.ev]
           D == {"exp", "svl"}
           new == [k \in D |-> c]
           next == IF opt.checker = "EXP_ONLY" THEN "done" ELSE "lookup"
<1>1. /\ pc = "translate" /\ todo # <<>> /\ Task.part = "whole"
      /\ c \in Contents /\ c.form = Here["dft"].form
      /\ c.src = [input |-> Here["dft"].src.input, ev |-> opt.ev]
  BY UnderWay, TranslationType DEF Translate
<1>2. /\ D \in SUBSET Kinds /\ "bcg" \in Kinds \ D /\ "exp" \in D /\ "exp" \in Removed
      /\ "exp" \in Kinds \ {"lab", "mod"}
      /\ ModelFile \in Kinds \ D
  BY ModelFileIs DEF Kinds, Removed
<1>3. next \in {"done", "lookup"}
  OBVIOUS
<1>4. Clean => /\ Ours("dft", SourceOf(Task, FALSE), {"full"})
               /\ AsFound("exp") /\ AsFound("bcg") /\ AsFound(ModelFile)
  BY <1>1 DEF Sound, OnTrack
<1>5. Clean => c.src = Own /\ c.form = "full"
  BY <1>1, <1>4 DEF Ours, Own, SourceOf
<1> HIDE DEF c, next
<1>6. ASSUME Task' = Task, UNCHANGED <<opt, trusted>>, pc' = next,
             \A k \in Kinds \ D : Here'[k] = Here[k],
             Clean => Ours("exp", Own, {"full"})'
      PROVE  OnTrack'
  <2>1. CASE ~Clean
    BY <1>6, <2>1, SameFile DEF OnTrack
  <2>2. CASE Clean
    <3>1. AsFound("bcg")' /\ AsFound(ModelFile)'
      BY <1>2, <1>4, <1>6, <2>2, SameFile
    <3>2. QED  BY <1>3, <1>6, <2>2, <3>1, SameFile DEF OnTrack
  <2>3. QED  BY <2>1, <2>2
<1>7. CASE Reusable("exp") /\ Has("svl")
  <2>1. Clean => Ours("exp", Own, {"full"})
    BY <1>1, <1>2, <1>4, <1>7, UsableIsOwn DEF Reusable, AsFound, Own
  <2>2. Goto(next)
    BY <1>7 DEF Translate, next
  <2>3. Task' = Task /\ Here' = Here /\ UNCHANGED <<opt, trusted>> /\ pc' = next
    BY <2>2 DEF Goto, Task, Here, BaseOf
  <2>4. OnTrack'
    BY <1>6, <2>1, <2>3, SameFile
  <2>5. QED  BY <1>1, <1>3, <2>2, <2>4, GotoSound
<1>8. CASE ~(Reusable("exp") /\ Has("svl"))
  <2>1. RunCommand("dft2lntc", new, D, next) /\ new \in [D -> Contents] /\ new["exp"] = c
    BY <1>1, <1>2, <1>8 DEF Translate, next, c
  <2> HIDE DEF new
  <2>2. ASSUME Task' = Task, UNCHANGED <<opt, trusted>>, pc' = next,
               \A k \in Kinds : Here'[k] = IF k \in D THEN new[k] ELSE Here[k]
        PROVE  OnTrack'
    <3>1. ASSUME Clean
          PROVE  Ours("exp", Own, {"full"})'
      <4>1. Here'["exp"] = c /\ Here'["exp"] # Missing /\ Own' = Own
        BY <1>1, <1>2, <2>1, <2>2, FoundIsContents, SameFile
      <4>2. QED  BY <1>5, <3>1, <4>1 DEF Ours, Has
    <3>2. QED  BY <1>6, <2>2, <3>1
  <2>3. ASSUME \A k \in D : Has(k), Task' = Task, UNCHANGED <<opt, trusted>>
        PROVE  OnTrack'
    <3>1. ~Clean
      BY <1>2, <1>4, <1>8, <2>3 DEF Reusable, AsFound
    <3>2. QED  BY <2>3, <3>1, SameFile DEF OnTrack
  <2> HIDE DEF D
  <2>4. QED  BY <1>1, <1>2, <1>3, <2>1, <2>2, <2>3, RunSound
<1>9. QED  BY <1>7, <1>8

LEMMA ExpOnlyDoneSound ==
  ASSUME Fits, Sound, ExpOnlyDone  PROVE  Sound'
<1>1. todo \in Seq(Tasks) /\ todo # <<>> /\ todo' = Tail(todo)
      /\ pc' = "next" /\ UNCHANGED <<files, opt, cache, got>>
  BY DEF Fits, TypeOK, ExpOnlyDone, Return0
<1>2. QED  BY <1>1, TailEffect, NextSound

\* A right answer is added to right answers.
LEMMA AnswerSound ==
  ASSUME Fits, Sound, pc \notin {"idle", "next", "modularise", "split"},
         Return0, files' = files, Remembered', NEW a, Answer(a), LabelsFit(a),
         Clean /\ Fresh =>
            /\ a.model.form = "full" /\ Shape(a.model.src) = Shape(Own)
            /\ opt.conv # "DFTRES" => Task.input \notin Broken
  PROVE  Sound'
<1> DEFINE r == [task |-> Task, trusted |-> trusted, model |-> a.model, labels |-> a.labels]
<1>1. /\ todo \in Seq(Tasks) /\ todo # <<>> /\ Task.part = "whole"
      /\ todo' = Tail(todo) /\ pc' = "next" /\ opt' = opt /\ got' = got \cup {r}
  BY UnderWay DEF Return0, Answer
<1>2. ~opt.modular /\ OnTrack' /\ ModulesOwn'
  BY <1>1, NoModules, OffTrack, TailEffect, ModulesStay
<1>3. Fresh' => Fresh /\ Clean
  <2>1. r \in got' /\ r.trusted = trusted /\ got \subseteq got'
    BY <1>1
  <2> HIDE DEF r
  <2>2. QED  BY <1>1, <2>1 DEF Fresh, Clean
<1>4. ASSUME NEW g, g = r
      PROVE  g.task.part = "whole" /\ WholeRight(g)'
  <2>1. g.task = Task /\ g.model = a.model /\ g.labels = a.labels
    BY <1>4
  <2>2. LabelsFit(g)'
    BY <1>1, <2>1 DEF LabelsFit, HasLabels, ModelFile, ExactFile
  <2>3. Fresh' => Right(g.model, g.task)'
                  /\ (opt'.conv # "DFTRES" => g.task.input \notin Broken)
    BY <1>1, <1>3, <2>1 DEF Right, Own
  <2>4. QED  BY <1>1, <2>1, <2>2, <2>3 DEF WholeRight
<1> HIDE DEF r
<1>5. \A g \in got : \/ g.task.part = "whole" /\ WholeRight(g)'
                     \/ g.task.part = "constant" /\ ModuleRight(g)'
  BY <1>1, <1>2, AnswersKept
<1>6. AnswersFit'
  BY <1>1, <1>4, <1>5 DEF AnswersFit
<1>7. QED  BY <1>2, <1>6 DEF Sound

\* A translation met before has the answer it had then.
LEMMA LookupSound ==
  ASSUME Fits, Sound, Lookup  PROVE  Sound'
<1> DEFINE key == ExpKey(Here["exp"])
<1>1. pc = "lookup" /\ todo \in Seq(Tasks) /\ todo # <<>> /\ Task.part = "whole"
      /\ Task.input \in Inputs
  BY UnderWay DEF Lookup
<1>2. Clean => /\ Ours("exp", Own, {"full"}) /\ AsFound("bcg") /\ AsFound(ModelFile)
  BY <1>1 DEF Sound, OnTrack
<1>3. key.shape = Shape(Here["exp"].src)
  BY DEF ExpKey
<1>4. Clean => key.shape = Shape(Own) /\ key.shape.of = ShapeOf[Task.input]
  BY <1>2, <1>3 DEF Ours, Shape, Own, SourceOf
<1>5. CASE key \in DOMAIN cache
  <2>1. Return0 /\ UNCHANGED <<files, cache, opt>>
    BY <1>5 DEF Lookup, Return0
  <2> DEFINE a == cache[key]
  <2>2. IF a = Missing THEN got' = got ELSE Answer(a)
    BY <1>5 DEF Lookup
  <2>3. CASE a = Missing
    BY <1>1, <2>1, <2>2, <2>3, TailEffect, NextSound DEF Return0
  <2>4. CASE a # Missing
    <3>1. Answer(a) /\ LabelsFit(a)
      BY <1>5, <2>2, <2>4 DEF Sound, Remembered
    <3>2. Fresh => /\ a.model.form = "full" /\ Shape(a.model.src) = key.shape
                   /\ opt.conv # "DFTRES" =>
                        \A i \in Inputs : ShapeOf[i] = key.shape.of => i \notin Broken
      BY <1>5, <2>4 DEF Sound, Remembered
    <3> HIDE DEF a, key
    <3>3. got \subseteq got'
      BY <3>1 DEF Answer
    <3>4. Remembered'
      BY <2>1, <3>3, RememberedStays
    <3>5. QED  BY <1>1, <1>4, <2>1, <3>1, <3>2, <3>4, AnswerSound
  <2>5. QED  BY <2>3, <2>4
<1>6. CASE key \notin DOMAIN cache
  <2> DEFINE next == IF opt.conv = "DFTRES" THEN "export"
                     ELSE IF Reusable("bcg") THEN "inspect" ELSE "svl"
  <2>1. Goto(next)
    BY <1>6 DEF Lookup
  <2>2. Task' = Task /\ Here' = Here /\ UNCHANGED <<opt, trusted>> /\ pc' = next
    BY <2>1 DEF Goto, Task, Here, BaseOf
  <2>3. "bcg" \in Kinds \ {"dft", "lab", "mod"} /\ "bcg" \in Removed
    BY DEF Kinds, Removed
  <2>4. Clean => /\ next = "svl" => ~Has("bcg")
                 /\ next = "inspect" => Ours("bcg", Own, {"full"})
    BY <1>1, <1>2, <2>3, UsableIsOwn DEF AsFound, Reusable, Own
  <2>5. Clean /\ next = "inspect" => Ours("bcg", Own, {"maxprog", "full"})
    BY <2>4 DEF Ours
  <2>6. next \in {"export", "inspect", "svl"}
    OBVIOUS
  <2> HIDE DEF next
  <2>7. OnTrack'
    <3>1. CASE ~Clean
      BY <2>2, <3>1, SameFile DEF OnTrack
    <3>2. CASE Clean
      <4>1. /\ Ours("exp", Own, {"full"})' /\ AsFound(ModelFile)'
            /\ next = "inspect" => Ours("bcg", Own, {"maxprog", "full"})'
            /\ next = "svl" => ~Has("bcg")'
        BY <1>2, <2>2, <2>4, <2>5, <3>2, SameFile DEF Has
      <4>2. QED  BY <2>2, <2>6, <4>1 DEF OnTrack
    <3>3. QED  BY <3>1, <3>2
  <2>8. QED  BY <1>1, <2>1, <2>6, <2>7, GotoSound
<1>7. QED  BY <1>5, <1>6

\* What each tool of the chain to <name>.bcg hands to the next.
Handed ==
    [maxprog |-> {"raw"}, bcg_io |-> {"maxprog"},
     bcg_min |-> {"maxprog", "full"}, inspect |-> {"maxprog", "full"}]

LEMMA ChainSound ==
  ASSUME Fits, Sound, pc \in {"svl", "maxprog", "bcg_io", "bcg_min"},
         NEW tool, NEW c \in Contents, NEW next \in DOMAIN Handed,
         NEW k, k = IF next = "bcg_io" THEN "aut" ELSE "bcg",
         Chain(tool, k, c, next),
         Clean => c.src = Own /\ c.form \in Handed[next],
         Clean /\ tool \in MaySkip /\ Has(k) => Ours(k, Own, Handed[next])
  PROVE  Sound'
<1> DEFINE D == {k}
           new == [x \in D |-> c]
<1>1. /\ D \in SUBSET Kinds /\ k \in D /\ "exp" \in Kinds \ D /\ ModelFile \in Kinds \ D
      /\ next \in {"maxprog", "bcg_io", "bcg_min", "inspect"}
  BY ModelFileIs DEF Kinds, Handed
<1>2. Clean => Ours("exp", Own, {"full"}) /\ AsFound(ModelFile)
  BY DEF Sound, OnTrack
<1>3. ASSUME Task' = Task, UNCHANGED <<opt, trusted>>, pc' = next,
             \A x \in Kinds \ D : Here'[x] = Here[x],
             Clean => Here'[k] # Missing /\ Here'[k].src = Own
                      /\ Here'[k].form \in Handed[next]
      PROVE  OnTrack'
  <2>1. CASE ~Clean
    BY <1>3, <2>1, SameFile DEF OnTrack
  <2>2. CASE Clean
    <3>1. Ours("exp", Own, {"full"})' /\ AsFound(ModelFile)'
      BY <1>1, <1>2, <1>3, <2>2, SameFile
    <3>2. Ours(k, Own, Handed[next])'
      BY <1>3, <2>2, SameFile DEF Ours, Has
    <3>3. CASE next = "maxprog"
      <4>1. Ours("bcg", Own, {"raw"})'
        BY <3>2, <3>3 DEF Handed
      <4>2. QED  BY <1>3, <3>1, <3>3, <4>1 DEF OnTrack
    <3>4. CASE next = "bcg_io"
      <4>1. Ours("aut", Own, {"maxprog"})'
        BY <3>2, <3>4 DEF Handed
      <4>2. QED  BY <1>3, <3>1, <3>4, <4>1 DEF OnTrack
    <3>5. CASE next \in {"bcg_min", "inspect"}
      <4>1. Ours("bcg", Own, {"maxprog", "full"})'
        BY <3>2, <3>5 DEF Handed
      <4>2. QED  BY <1>3, <3>1, <3>5, <4>1 DEF OnTrack
    <3>6. QED  BY <1>1, <3>3, <3>4, <3>5
  <2>3. QED  BY <2>1, <2>2
<1>4. RunCommand(tool, new, D, next) /\ new \in [D -> Contents] /\ new[k] = c
  BY DEF Chain
<1> HIDE DEF new
<1>5. ASSUME Task' = Task, UNCHANGED <<opt, trusted>>, pc' = next,
             \A x \in Kinds : Here'[x] = IF x \in D THEN new[x] ELSE Here[x]
      PROVE  OnTrack'
  <2>1. Here'[k] = c /\ Here'[k] # Missing
    BY <1>1, <1>4, <1>5, FoundIsContents
  <2>2. \A x \in Kinds \ D : Here'[x] = Here[x]
    BY <1>5
  <2> HIDE DEF D
  <2>3. QED  BY <1>3, <1>5, <2>1, <2>2
<1>6. ASSUME \A x \in D : Has(x), tool \in MaySkip, pc' = next,
             Task' = Task, Here' = Here, UNCHANGED <<opt, trusted>>
      PROVE  OnTrack'
  BY <1>3, <1>6 DEF Ours, Has
<1> HIDE DEF D
<1>7. QED  BY <1>1, <1>4, <1>5, <1>6, RunSound

LEMMA SvlSound ==
  ASSUME Fits, Sound, Svl  PROVE  Sound'
<1> DEFINE c == Made(Here["exp"], "raw")
<1>1. Here["exp"] \in Contents /\ pc = "svl"
  BY UnderWay DEF Svl, Fits, StepReady, Reads, Has, Kinds
<1>2. Clean => Ours("exp", Own, {"full"}) /\ ~Has("bcg")
  BY <1>1 DEF Sound, OnTrack
<1>3. c \in Contents /\ (Clean => c.src = Own /\ c.form = "raw")
  BY <1>1, <1>2, MadeType DEF Forms, Ours
<1>4. Chain("svl", "bcg", c, "maxprog")
  BY DEF Svl
<1> HIDE DEF c
<1>5. QED  BY <1>1, <1>2, <1>3, <1>4, ChainSound DEF Handed

LEMMA MaxprogSound ==
  ASSUME Trustworthy, Fits, Sound, Maxprog  PROVE  Sound'
<1> DEFINE c == [Here["bcg"] EXCEPT !.form = IF @ = "raw" THEN "maxprog" ELSE @]
<1>1. Here["bcg"] \in Contents /\ pc = "maxprog"
  BY UnderWay DEF Maxprog, Fits, StepReady, Reads, Has, Kinds
<1>2. Clean => Ours("bcg", Own, {"raw"})
  BY <1>1 DEF Sound, OnTrack
<1>3. c \in Contents /\ (Clean => c.src = Own /\ c.form = "maxprog")
  BY <1>1, <1>2, CutType DEF Ours
<1>4. Chain("maxprog", "aut", c, "bcg_io") /\ "maxprog" \notin MaySkip
  BY DEF Maxprog, Trustworthy
<1> HIDE DEF c
<1>5. QED  BY <1>1, <1>3, <1>4, ChainSound DEF Handed

LEMMA BcgIoSound ==
  ASSUME Trustworthy, Fits, Sound, BcgIo  PROVE  Sound'
<1>1. Here["aut"] \in Contents /\ pc = "bcg_io"
  BY UnderWay DEF BcgIo, Fits, StepReady, Reads, Has, Kinds
<1>2. Clean => Ours("aut", Own, {"maxprog"})
  BY <1>1 DEF Sound, OnTrack
<1>3. Chain("bcg_io", "bcg", Here["aut"], "bcg_min") /\ "bcg_io" \notin MaySkip
  BY DEF BcgIo, Trustworthy
<1>4. QED  BY <1>1, <1>2, <1>3, ChainSound DEF Handed, Ours

LEMMA BcgMinSound ==
  ASSUME Fits, Sound, BcgMin  PROVE  Sound'
<1> DEFINE c == Made(Here["bcg"], "full")
<1>1. Here["bcg"] \in Contents /\ pc = "bcg_min"
  BY UnderWay DEF BcgMin, Fits, StepReady, Reads, Has, Kinds
<1>2. Clean => Ours("bcg", Own, {"maxprog", "full"})
  BY <1>1 DEF Sound, OnTrack
<1>3. c \in Contents /\ (Clean => c.src = Own /\ c.form = "full")
  BY <1>1, <1>2, MadeType DEF Forms, Ours
<1>4. Chain("bcg_min", "bcg", c, "inspect")
  BY DEF BcgMin
<1> HIDE DEF c
<1>5. QED  BY <1>1, <1>2, <1>3, <1>4, ChainSound DEF Handed

\* A model goes on to the converters only when nothing IMPOSSIBLE is in it.
LEMMA InspectSound ==
  ASSUME Fits, Sound, Inspect  PROVE  Sound'
<1>1. pc = "inspect" /\ todo # <<>> /\ Task.part = "whole"
  BY UnderWay DEF Inspect
<1>2. CASE ~Impossible(Here["bcg"]) /\ Goto("convert")
  <2>1. Task' = Task /\ Here' = Here /\ UNCHANGED <<opt, trusted>> /\ pc' = "convert"
    BY <1>2 DEF Goto, Task, Here, BaseOf
  <2>2. OnTrack'
    <3>1. CASE ~Clean
      BY <2>1, <3>1, SameFile DEF OnTrack
    <3>2. CASE Clean
      <4>1. /\ Ours("exp", Own, {"full"}) /\ AsFound(ModelFile)
            /\ Ours("bcg", Own, {"maxprog", "full"})
        BY <1>1, <3>2 DEF Sound, OnTrack
      <4>2. Task.input \notin Broken
        BY <1>2, <4>1 DEF Impossible, Ours, Own, SourceOf
      <4>3. /\ Ours("exp", Own, {"full"})' /\ AsFound(ModelFile)'
            /\ Ours("bcg", Own, {"maxprog", "full"})'
        BY <2>1, <4>1, SameFile
      <4>4. QED  BY <2>1, <4>2, <4>3 DEF OnTrack
    <3>3. QED  BY <3>1, <3>2
  <2>3. QED  BY <1>1, <1>2, <2>2, GotoSound
<1>3. CASE Return1 /\ UNCHANGED files
  BY <1>1, <1>3, GiveUpSound
<1>4. QED  BY <1>2, <1>3 DEF Inspect

\* With DFTRES the labels that are read are written with the model.
LEMMA ExportSound ==
  ASSUME Trustworthy, Fits, Sound, Export  PROVE  Sound'
<1> DEFINE D == IF opt.checker = "IMRMC" THEN {"exact.tra", "exact.lab"} ELSE {"jani"}
           c == Made(Here["exp"], "full")
           new == [k \in D |-> c]
<1>1. /\ pc = "export" /\ opt.conv = "DFTRES" /\ Here["exp"] \in Contents
      /\ todo # <<>> /\ Task.part = "whole"
  BY UnderWay DEF Export, Fits, StepReady, Reads, Has, Kinds, Suits
<1>2. /\ ModelFile = ExactFile /\ ModelFile \in D /\ ModelFile \in {"exact.tra", "jani"}
      /\ "exp" \in Kinds \ D /\ D \in SUBSET Kinds
  BY <1>1, ModelFileIs DEF Kinds
<1>3. HasLabels => LabelFile \in D
  <2>1. opt.checker \in {"IMRMC", "STORM", "MODEST", "EXP_ONLY"}
    BY <1>1, PipelineAssumption DEF Fits, TypeOK
  <2>2. QED  BY <1>1, <2>1, ModelFileIs DEF HasLabels
<1>4. Clean => Ours("exp", Own, {"full"}) /\ AsFound(ModelFile)
  BY <1>1 DEF Sound, OnTrack
<1>5. c \in Contents /\ (Clean => c.src = Own /\ c.form = "full")
  BY <1>1, <1>4, MadeType DEF Forms, Ours
<1> HIDE DEF c
<1>6. ASSUME Task' = Task, UNCHANGED <<opt, trusted>>, pc' = "analyse",
             Here'["exp"] = Here["exp"], Clean => Ours(ModelFile, Own, {"full"})',
             ~opt.reuse /\ HasLabels => Here'[ModelFile] = c /\ Here'[LabelFile] = c
      PROVE  OnTrack'
  <2>1. CASE ~Clean
    BY <1>6, <2>1, SameFile DEF OnTrack
  <2>2. CASE Clean
    <3>1. Ours("exp", Own, {"full"})'
      BY <1>4, <1>6, <2>2, SameFile
    <3>2. LabelsFit([model |-> Here[ModelFile], labels |-> Here[LabelFile]])'
      BY <1>1, <1>5, <1>6, <2>2, SameFile DEF LabelsFit
    <3>3. opt'.conv = "DFTRES" /\ Ours(ModelFile, Own, {"full"})'
      BY <1>1, <1>6, <2>2
    <3>4. QED  BY <1>6, <3>1, <3>2, <3>3 DEF OnTrack
  <2>3. QED  BY <2>1, <2>2
<1>7. CASE Reusable(ExactFile)
  <2>1. Goto("analyse") /\ Has(ModelFile) /\ opt.reuse
    BY <1>2, <1>7 DEF Export, Reusable
  <2>2. Task' = Task /\ Here' = Here /\ UNCHANGED <<opt, trusted>> /\ pc' = "analyse"
    BY <2>1 DEF Goto, Task, Here, BaseOf
  <2>3. Clean => Ours(ModelFile, Own, {"full"})
    BY <1>1, <1>2, <1>4, <2>1, UsableIsOwn DEF AsFound, Own, Kinds
  <2>4. Clean => Ours(ModelFile, Own, {"full"})'
    BY <2>2, <2>3, SameFile DEF Ours, Has
  <2>5. OnTrack'
    BY <1>6, <2>1, <2>2, <2>4
  <2>6. QED  BY <1>1, <2>1, <2>5, GotoSound
<1>8. CASE ~Reusable(ExactFile)
  <2>1. /\ RunCommand("dftres", new, D, "analyse") /\ "dftres" \notin MaySkip
        /\ new \in [D -> Contents] /\ \A k \in D : new[k] = c
    BY <1>5, <1>8 DEF Export, Trustworthy, c
  <2> HIDE DEF new, D
  <2>2. ASSUME Task' = Task, UNCHANGED <<opt, trusted>>, pc' = "analyse",
               \A k \in Kinds : Here'[k] = IF k \in D THEN new[k] ELSE Here[k]
        PROVE  OnTrack'
    <3>1. \A k \in D : Here'[k] = c
      BY <1>2, <2>1, <2>2
    <3>2. Here'["exp"] = Here["exp"]
      BY <1>2, <2>2
    <3>3. Clean => Ours(ModelFile, Own, {"full"})'
      <4>1. c # Missing /\ Here'[ModelFile] = c
        BY <1>2, <1>5, <3>1, FoundIsContents
      <4>2. QED  BY <1>5, <2>2, <4>1, SameFile DEF Ours, Has
    <3>4. QED  BY <1>2, <1>3, <1>6, <2>2, <3>1, <3>2, <3>3
  <2>3. QED  BY <1>1, <1>2, <2>1, <2>2, RunSound
<1>9. QED  BY <1>7, <1>8

\* A converter writes model and labels, or the model found is not read.
LEMMA ConvertSound ==
  ASSUME Trustworthy, Fits, Sound, Convert  PROVE  Sound'
<1>1. /\ pc = "convert" /\ opt.conv # "DFTRES" /\ Here["bcg"] \in Contents
      /\ todo # <<>> /\ Task.part = "whole"
  BY UnderWay DEF Convert, Fits, StepReady, Reads, Has, Kinds, Suits
<1> DEFINE D == Conversion
           new == Converted
<1>2. /\ D \in SUBSET Kinds /\ ModelFile \in D /\ new \in [D -> Contents]
      /\ \A k \in D :
           /\ new[k].src = Here["bcg"].src
           /\ new[k].form = IF Here["bcg"].form \in {"partial", "raw"}
                            THEN Here["bcg"].form
                            ELSE IF k = "lab" THEN ModelFile ELSE "full"
  BY <1>1, ConvertedType
<1>3. /\ ModelFile \in {"jani", "ctmdpi", "tra", "ma"}
      /\ "exp" \in Kinds \ D /\ (HasLabels => LabelFile = "lab" /\ "lab" \in D)
  BY <1>1, ModelFileIs DEF Conversion, Kinds
<1>4. Clean => /\ Ours("exp", Own, {"full"}) /\ AsFound(ModelFile)
               /\ Ours("bcg", Own, {"maxprog", "full"}) /\ Task.input \notin Broken
  BY <1>1 DEF Sound, OnTrack
<1>5. Clean => \A k \in D : new[k].src = Own
                  /\ new[k].form = IF k = "lab" THEN ModelFile ELSE "full"
  BY <1>2, <1>4 DEF Ours
<1>6. ASSUME Task' = Task, UNCHANGED <<opt, trusted>>, pc' = "analyse",
             Here'["exp"] = Here["exp"], Clean => Ours(ModelFile, Own, {"full"})',
             Clean /\ ~opt.reuse /\ HasLabels =>
                Here'[LabelFile].src = Own /\ Here'[LabelFile].form = ModelFile
      PROVE  OnTrack'
  <2>1. CASE ~Clean
    BY <1>6, <2>1, SameFile DEF OnTrack
  <2>2. CASE Clean
    <3>1. Ours("exp", Own, {"full"})'
      BY <1>4, <1>6, <2>2, SameFile
    <3>2. LabelsFit([model |-> Here[ModelFile], labels |-> Here[LabelFile]])'
      BY <1>1, <1>6, <2>2, SameFile DEF LabelsFit, Ours
    <3>3. QED  BY <1>4, <1>6, <2>2, <3>1, <3>2 DEF OnTrack
  <2>3. QED  BY <2>1, <2>2
<1>7. CASE Reusable(ModelFile)
  <2>1. Goto("analyse") /\ Has(ModelFile) /\ opt.reuse
    BY <1>7 DEF Convert, Reusable
  <2>2. Task' = Task /\ Here' = Here /\ UNCHANGED <<opt, trusted>> /\ pc' = "analyse"
    BY <2>1 DEF Goto, Task, Here, BaseOf
  <2>3. Clean => Ours(ModelFile, Own, {"full"})
    BY <1>1, <1>3, <1>4, <2>1, UsableIsOwn DEF AsFound, Own, Kinds
  <2>4. Clean => Ours(ModelFile, Own, {"full"})'
    BY <2>2, <2>3, SameFile DEF Ours, Has
  <2>5. OnTrack'
    BY <1>6, <2>1, <2>2, <2>4
  <2>6. QED  BY <1>1, <2>1, <2>5, GotoSound
<1>8. CASE ~Reusable(ModelFile)
  <2> DEFINE expected == {ModelFile}
  <2>1. RunCommand(Converter, new, expected, "analyse")
    BY <1>8 DEF Convert, Converted, Conversion
  <2>2. Clean /\ Converter \in MaySkip => ~Has(ModelFile)
    <3>1. ModelFile \in Removed \/ Converter = "bcg2jani"
      BY <1>1, ModelFileIs DEF Removed, Converter
    <3>2. QED  BY <1>4, <1>8, <3>1 DEF AsFound, Reusable, Trustworthy
  <2> HIDE DEF new, D
  <2>3. ASSUME Task' = Task, UNCHANGED <<opt, trusted>>, pc' = "analyse",
               \A k \in Kinds : Here'[k] = IF k \in D THEN new[k] ELSE Here[k]
        PROVE  OnTrack'
    <3>1. \A k \in D : Here'[k] = new[k] /\ new[k] \in Contents
      BY <1>2, <2>3
    <3>2. Here'["exp"] = Here["exp"]
      BY <1>3, <2>3
    <3>3. Clean => Ours(ModelFile, Own, {"full"})'
      <4>1. new[ModelFile] # Missing /\ Here'[ModelFile] = new[ModelFile]
            /\ ModelFile # "lab"
        BY <1>2, <1>3, <3>1, FoundIsContents
      <4>2. QED  BY <1>2, <1>5, <2>3, <4>1, SameFile DEF Ours, Has
    <3>4. QED  BY <1>3, <1>5, <1>6, <2>3, <3>1, <3>2, <3>3
  <2>4. ASSUME \A k \in expected : Has(k), Converter \in MaySkip,
               Task' = Task, UNCHANGED <<opt, trusted>>
        PROVE  OnTrack'
    BY <2>2, <2>4, SameFile DEF OnTrack
  <2> HIDE DEF expected
  <2>5. QED  BY <1>1, <1>2, <2>1, <2>3, <2>4, RunSound
<1>9. QED  BY <1>7, <1>8

\* What is added to cachedResults was found for the translation it is added for.
LEMMA RememberSound ==
  ASSUME Sound, opt' = opt, got \subseteq got', NEW key, NEW a, Remember(key, a),
         a # Missing =>
            /\ LabelsFit(a)
            /\ Fresh' =>
                /\ a.model.form = "full" /\ Shape(a.model.src) = key.shape
                /\ opt.conv # "DFTRES" =>
                      \A i \in Inputs : ShapeOf[i] = key.shape.of => i \notin Broken
  PROVE  Remembered'
<1>1. Fresh' => Fresh
  BY DEF Fresh
<1>2. \A b : LabelsFit(b) => LabelsFit(b)'
  BY DEF LabelsFit, HasLabels, ModelFile, ExactFile
<1>3. \A k \in DOMAIN cache' : \/ k = key /\ cache'[k] = a
                               \/ k \in DOMAIN cache /\ cache'[k] = cache[k]
  BY DEF Remember
<1>4. QED  BY <1>1, <1>2, <1>3 DEF Sound, Remembered

\* What the model checker reads is the model of the question, with its labels.
LEMMA AnalyseSound ==
  ASSUME Fits, Sound, Analyse  PROVE  Sound'
<1> DEFINE a == [model |-> Here[ModelFile],
                 labels |-> IF HasLabels THEN Here[LabelFile] ELSE Here[ModelFile]]
           key == ExpKey(Here["exp"])
<1>1. /\ pc = "analyse" /\ todo \in Seq(Tasks) /\ todo # <<>> /\ Task.part = "whole"
      /\ Return0 /\ files' = files /\ opt' = opt /\ Task.input \in Inputs
  BY UnderWay DEF Analyse, Return0
<1>2. \/ Answer(a) /\ Remember(key, a)
      \/ got' = got /\ Remember(key, Missing)
  BY DEF Analyse
<1>3. Clean => /\ Ours("exp", Own, {"full"}) /\ Ours(ModelFile, Own, {"full"})
               /\ opt.conv # "DFTRES" => Task.input \notin Broken
               /\ LabelsFit([model |-> Here[ModelFile], labels |-> Here[LabelFile]])
  BY <1>1 DEF Sound, OnTrack
<1>4. key.shape = Shape(Here["exp"].src)
  BY DEF ExpKey
<1>5. Clean => /\ key.shape = Shape(Own) /\ key.shape.of = ShapeOf[Task.input]
               /\ a.model.form = "full" /\ a.model.src = Own
  BY <1>3, <1>4 DEF Ours, Shape, Own, SourceOf
<1>6. LabelsFit(a)
  BY <1>3 DEF LabelsFit, Clean
<1>7. Clean /\ opt.conv # "DFTRES" =>
        \A i \in Inputs : ShapeOf[i] = key.shape.of => i \notin Broken
  BY <1>1, <1>3, <1>5, PipelineAssumption
<1> HIDE DEF a, key
<1>8. CASE Answer(a) /\ Remember(key, a)
  <2>1. got \subseteq got' /\ (Fresh' => Clean)
    <3> DEFINE r == [task |-> Task, trusted |-> trusted, model |-> a.model, labels |-> a.labels]
    <3>1. got' = got \cup {r} /\ r.trusted = trusted
      BY <1>8 DEF Answer
    <3> HIDE DEF r
    <3>2. QED  BY <1>1, <3>1 DEF Fresh, Clean
  <2>2. Remembered'
    BY <1>1, <1>5, <1>6, <1>7, <1>8, <2>1, RememberSound
  <2>3. QED  BY <1>1, <1>3, <1>5, <1>6, <1>8, <2>2, AnswerSound
<1>9. CASE got' = got /\ Remember(key, Missing)
  <2>1. Remembered'
    BY <1>1, <1>9, RememberSound
  <2>2. ~opt.modular /\ OnTrack' /\ ModulesOwn' /\ AnswersFit'
    BY <1>1, <1>9, NoModules, OffTrack, TailEffect, ModulesStay, AnswersStay DEF Return0
  <2>3. QED  BY <2>1, <2>2 DEF Sound
<1>10. QED  BY <1>2, <1>8, <1>9

\* Whatever ran, failed or was killed before: files that were not found to be of
\* use are not read, and what is read was made for the question that is asked.
THEOREM PipelineSound ==
  ASSUME Trustworthy  PROVE  Spec => []Sound
<1>1. Init => Sound
  BY DEF Init, Sound, OnTrack, ModulesOwn, Remembered, AnswersFit
<1>2. Fits /\ Fits' /\ Sound /\ [Next]_vars => Sound'
  <2> SUFFICES ASSUME Fits, Fits', Sound, [Next]_vars  PROVE Sound'
    OBVIOUS
  <2>1. CASE \E o \in Options : Start(o)
    BY <2>1, StartSound
  <2>2. CASE Finish \/ Killed
    BY <2>2, ExitSound DEF Finish, Killed
  <2>3. CASE SkipLost \/ Modularise \/ ListModules \/ Split \/ Constant \/ ModuleRoot
    BY <2>3, SkipLostSound, ModulariseSound, ListModulesSound, SplitSound,
       ConstantSound, ModuleRootSound
  <2>4. CASE Prepare \/ Canonicalise \/ Translate \/ ExpOnlyDone \/ Lookup
    BY <2>4, PrepareSound, CanonicaliseSound, TranslateSound, ExpOnlyDoneSound, LookupSound
  <2>5. CASE Svl \/ Maxprog \/ BcgIo \/ BcgMin
    BY <2>5, SvlSound, MaxprogSound, BcgIoSound, BcgMinSound
  <2>6. CASE Inspect \/ Export \/ Convert \/ Analyse
    BY <2>6, InspectSound, ExportSound, ConvertSound, AnalyseSound
  <2>7. CASE UNCHANGED vars
    <3>1. Task' = Task /\ Here' = Here /\ UNCHANGED <<files, opt, pc, todo, trusted, cache, got>>
      BY <2>7 DEF vars, Task, Here, BaseOf
    <3>2. AnswersFit' /\ Remembered'
      BY <3>1, AnswersStay, RememberedStays
    <3>3. ModulesOwn'
      BY <3>1 DEF Sound, ModulesOwn, ListIsOwn, BaseOf, Tree, Exists, OwnFile, Has
    <3>4. OnTrack'
      <4>1. /\ Own' = Own /\ SourceOf(Task, FALSE)' = SourceOf(Task, FALSE)
            /\ ModelFile' = ModelFile /\ LabelFile' = LabelFile /\ Here' = Here
            /\ pc' = pc /\ Task' = Task /\ opt' = opt
        BY <3>1 DEF Own, SourceOf, ModelFile, LabelFile, ExactFile
      <4>2. Clean' <=> Clean
        BY <3>1, Zenon DEF Clean
      <4>3. \A k : Has(k)' <=> Has(k)
        BY <4>1, Zenon DEF Has
      <4>4. \A k : AsFound(k)' <=> AsFound(k)
        BY <4>1, <4>3, Zenon DEF AsFound, Usable, SourceOf
      <4>5. AsFound(ModelFile)' <=> AsFound(ModelFile)
        BY <4>1, <4>3, Zenon DEF AsFound, Usable, SourceOf, Has
      <4>6. LabelsFit([model |-> Here[ModelFile], labels |-> Here[LabelFile]])' <=>
              LabelsFit([model |-> Here[ModelFile], labels |-> Here[LabelFile]])
        BY <4>1, Zenon DEF LabelsFit, HasLabels
      <4>7. QED  BY <4>1, <4>2, <4>3, <4>4, <4>5, <4>6, Zenon DEF Sound, OnTrack, Ours, Has
    <3>5. QED  BY <3>2, <3>3, <3>4 DEF Sound
  <2>8. QED  BY <2>1, <2>2, <2>3, <2>4, <2>5, <2>6, <2>7 DEF Next
<1>3. QED  BY <1>1, <1>2, PipelineFits, PTL DEF Spec

-----------------------------------------------------------------------------
(* What it means for the user *)

\* Without -R always, with -R when nothing stale was found: an answer comes from
\* a finished model of the tree and the evidence that were asked for.
THEOREM AnswersAreRight ==
  ASSUME Trustworthy  PROVE  Spec => []AnswerIsRight
<1>1. Fits /\ Sound => AnswerIsRight
  <2> SUFFICES ASSUME Fits, Sound, Fresh, NEW g \in got,
                      Tree(g.task.input) = g.task.input,
                      ~(opt.ev /\ g.task.part = "constant")
               PROVE  Right(g.model, g.task)
    BY DEF AnswerIsRight
  <2>1. CASE g.task.part = "whole" /\ WholeRight(g)
    BY <2>1 DEF WholeRight
  <2>2. CASE g.task.part = "constant" /\ ModuleRight(g)
    <3>1. opt.ev \in BOOLEAN
      BY PipelineAssumption DEF Fits, TypeOK
    <3>2. g.model.src.input = g.task.input /\ g.model.src.ev = FALSE
          /\ g.model.form = "full" /\ opt.ev = FALSE
      BY <2>2, <3>1 DEF ModuleRight, Fresh
    <3>3. QED  BY <3>2 DEF Right, Shape, SourceOf
  <2>3. QED  BY <2>1, <2>2 DEF Sound, AnswersFit
<1>2. QED  BY <1>1, PipelineFits, PipelineSound, PTL

\* Labels that were written for another format are never read without -R.
THEOREM LabelsBelong ==
  ASSUME Trustworthy  PROVE  Spec => []LabelsMatch
<1>1. Sound => LabelsMatch
  BY DEF Sound, AnswersFit, WholeRight, LabelsFit, LabelsMatch
<1>2. QED  BY <1>1, PipelineSound, PTL

\* The check for IMPOSSIBLE cannot be got around by a model found, or an answer
\* remembered.
THEOREM BrokenHasNoAnswer ==
  ASSUME Trustworthy  PROVE  Spec => []NoAnswerForBroken
<1>1. Sound => NoAnswerForBroken
  BY DEF Sound, AnswersFit, WholeRight, NoAnswerForBroken
<1>2. QED  BY <1>1, PipelineSound, PTL
=============================================================================
