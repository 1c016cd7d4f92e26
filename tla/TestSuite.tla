------------------------------ MODULE TestSuite ------------------------------
(***************************************************************************)
(* dfttest (src/dfttest): suites of tests kept in files, with the results  *)
(* of earlier runs and the values verified by hand.  A process reads a     *)
(* suite once, runs its tests and rewrites the whole file after each.      *)
(* Nothing locks the file: processes overlap, and may be killed at any     *)
(* step.  Results are filed under the local time in seconds, of which      *)
(* several steps may have the same and which goes back an hour in autumn.  *)
(*                                                                         *)
(* Abstracted: statistics, columns and descriptions; the four places a     *)
(* suite is looked for are a sequence of files; a typed file name is the   *)
(* file it names and whether it was typed without a directory.             *)
(***************************************************************************)
EXTENDS Integers, Sequences, SequencesExt, FiniteSets

CONSTANTS
    Procs,       \* dfttest processes
    SuiteFiles,  \* files a suite may be in
    ReadOnly,    \* those that can be neither written nor created
    DftFiles,    \* trees that exist
    Commands,    \* command lines tried: tryOut, mode, limitTests
    FirstSuites, \* what the suite files may hold at first
    MaxStarts,   \* bound on the processes started
    Times        \* the seconds in which tests may be started

Invalid == -1
Result(t, i, p) == [time |-> t, iteration |-> i, failprob |-> p]
Missing == [form |-> "missing", tests |-> <<>>]
Suite(form, tests) == [form |-> form, tests |-> tests]

VARIABLES
    disk,    \* suite file -> its form (ok, torn or missing) and its tests
    started,
    proc,    \* process -> its state
    read,    \* ghost: the tests a process found in the file it works on
    told,    \* ghost: the fresh results it has reported, with their tests
    writer   \* ghost: the process that alone has written the file since it opened it

vars == <<disk, started, proc, read, told, writer>>

Nobody == "nobody"
NoFile == "none"
Process(pc, cmd, tried) ==
    [pc |-> pc, cmd |-> cmd, tried |-> tried, origin |-> CHOOSE f \in SuiteFiles : TRUE,
     tests |-> <<>>, limit |-> {}, at |-> 0, result |-> {}, cached |-> TRUE, stop |-> FALSE, verdict |-> "UNKNOWN"]
Resting == Process("idle", CHOOSE c \in Commands : TRUE, 0)
Init ==
    /\ disk \in FirstSuites /\ started = 0
    /\ proc = [p \in Procs |-> Resting]
    /\ read = [p \in Procs |-> <<>>] /\ told = [p \in Procs |-> {}]
    /\ writer = [f \in SuiteFiles |-> Nobody]

\* A map holds one thing under a key: no two results of a test have the same
\* time and iteration, no two of its verified values the same motive.
IsTest(t) ==
    /\ DOMAIN t = {"name", "uuid", "had", "format", "file", "verified", "results"}
    /\ IsFiniteSet(t.results) /\ \A r \in t.results : r.time \in Nat /\ r.failprob \in Int
    /\ \A r, s \in t.results : r.time = s.time /\ r.iteration = s.iteration => r = s
    /\ \A v \in t.verified : v.motive \in Nat /\ v.failprob \in Int
    /\ \A v, w \in t.verified : v.motive = w.motive => v = w
IsTests(ts) == ts \in Seq(Range(ts)) /\ \A t \in Range(ts) : IsTest(t)

ASSUME TestSuiteAssumption ==
    /\ Nobody \notin Procs /\ SuiteFiles # {} /\ Commands # {}
    /\ Times \subseteq Nat
    /\ \A c \in Commands : c.tryOut \in Seq(SuiteFiles) /\ IsFiniteSet(c.limitTests)
    /\ \A d \in FirstSuites : DOMAIN d = SuiteFiles /\ \A f \in SuiteFiles : IsTests(d[f].tests)

-----------------------------------------------------------------------------
(* Results, and the value a test is verified against *)

isValid(r) == r.failprob >= 0
Newest(rs) == {r \in rs : \A s \in rs : s.time <= r.time}
Of(test, iteration) == {r \in test.results : r.iteration = iteration}
getLastResult(test, iteration) == Newest(Of(test, iteration))
getLastValidResult(test, iteration) == Newest({r \in Of(test, iteration) : isValid(r)})

\* A mutant for VerdictIsRight: of each iteration the first valid result.
getLastResultsFirst(test) ==
    {r \in test.results : isValid(r) /\ \A s \in Of(test, r.iteration) : isValid(s) => r.time <= s.time}
getLastResults(test) ==
    UNION {getLastValidResult(test, r.iteration) : r \in test.results}

\* The value of the first motive; without one, the value all iterations agree on.
getVerifiedValue(test) ==
    LET values == {r.failprob : r \in getLastResults(test)}
    IN  IF test.verified # {}
        THEN (CHOOSE v \in test.verified : \A w \in test.verified : v.motive <= w.motive).failprob
        ELSE IF Cardinality(values) = 1 THEN CHOOSE v \in values : TRUE ELSE Invalid

verify(test, r) ==
    IF isValid(r) /\ getVerifiedValue(test) \in {Invalid, r.failprob} THEN "OK" ELSE "FAILED"

\* A mutant for ReportedIsStored: inserted, so that an earlier result stays.
addResultInserted(test, r) ==
    IF \E s \in test.results : s.time = r.time /\ s.iteration = r.iteration THEN test
    ELSE [test EXCEPT !.results = @ \cup {r}]
addResult(test, r) ==
    [test EXCEPT !.results = {s \in @ : s.time # r.time \/ s.iteration # r.iteration} \cup {r}]

-----------------------------------------------------------------------------
(* Reading a suite *)

\* operator== of TestSpecification.
Same(a, b) ==
    IF a.had /\ b.had THEN a.uuid = b.uuid ELSE a.name # "" /\ a.name = b.name

\* A mutant for NothingLost: only the verified values of the second are taken.
appendVerified(old, other) ==
    [old EXCEPT !.verified = @ \cup {v \in other.verified : \A w \in @ : w.motive # v.motive}]
\* Of a time both tests have, the first one's results are kept.
append(old, other) ==
    [appendVerified(old, other) EXCEPT
        !.results = @ \cup {r \in other.results : \A s \in @ : s.time # r.time}]

Merged(ts, t) ==
    LET same == {n \in DOMAIN ts : Same(t, ts[n])}
    IN  IF same = {} THEN Append(ts, t) ELSE [ts EXCEPT ![Min(same)] = append(@, t)]
mergeTestLists(main, tba) ==
    LET merged[n \in 0..Len(tba)] == IF n = 0 THEN main ELSE Merged(merged[n - 1], tba[n])
    IN  merged[Len(tba)]

InUse == UNION {{t.uuid : t \in Range(disk[f].tests)} : f \in SuiteFiles}
         \cup UNION {{t.uuid : t \in Range(proc[p].tests)} : p \in Procs}
generateUUID(n) == n + Max(InUse \cup {0})

NewTest(file, n) ==
    [name |-> "", uuid |-> generateUUID(n), had |-> FALSE, format |-> 1, file |-> file,
     verified |-> {}, results |-> {}]

\* In the old format a verified value is a plain number, which the reader takes
\* for a map: it reports an error and leaves the value out.  Of a test in a later
\* format than 1 nothing is read but the tree.
Readable(t) == t.format <= 1
readYAMLNode(t, n) ==
    IF Readable(t)
    THEN [name |-> t.name, uuid |-> IF t.uuid = 0 THEN generateUUID(n) ELSE t.uuid, had |-> t.uuid # 0,
          format |-> 1, file |-> t.file, verified |-> IF t.format = 0 THEN {} ELSE t.verified,
          results |-> t.results]
    ELSE NewTest(t.file, n)
loadTests(suite) == [n \in DOMAIN suite.tests |-> readYAMLNode(suite.tests[n], n)]

\* A file YAML cannot read has no tests.
readTestFile(f) == IF disk[f].form = "ok" THEN mergeTestLists(<<>>, loadTests(disk[f])) ELSE <<>>
Found(f) == IF disk[f].form = "ok" THEN disk[f].tests ELSE <<>>

-----------------------------------------------------------------------------
(* main *)

Becomes(p, fields) ==
    proc' = [proc EXCEPT ![p] = [x \in DOMAIN @ |-> IF x \in DOMAIN fields THEN fields[x] ELSE @[x]]]

Start(p, cmd) ==
    /\ proc[p].pc = "idle" /\ started < MaxStarts
    /\ started' = started + 1
    /\ proc' = [proc EXCEPT ![p] = Process("load", cmd, 1)]
    /\ read' = [read EXCEPT ![p] = <<>>] /\ told' = [told EXCEPT ![p] = {}]
    /\ writer' = [f \in SuiteFiles |-> IF writer[f] = p THEN Nobody ELSE writer[f]]
    /\ UNCHANGED disk

Quiet == UNCHANGED <<disk, started, told, writer>>

\* The suite is the first of the files that exists and can be read.
Load(p) ==
    /\ proc[p].pc = "load"
    /\ LET me == proc[p]
           f == me.cmd.tryOut[me.tried]
       IN  IF me.tried > Len(me.cmd.tryOut)
           THEN /\ Becomes(p, [pc |-> IF me.cmd.limitTests = {} THEN "add" ELSE "create"])
                /\ UNCHANGED read
           ELSE IF disk[f].form = "missing" THEN Becomes(p, [tried |-> me.tried + 1]) /\ UNCHANGED read
           ELSE /\ Becomes(p, [origin |-> f, tests |-> readTestFile(f), tried |-> me.tried + 1,
                               pc |-> IF disk[f].form = "ok" THEN "add" ELSE "load"])
                /\ read' = [read EXCEPT ![p] = Found(f)]
    /\ Quiet

\* The user is asked for a file; that it could not be read is passed over.
createTestFile(p, f) ==
    /\ proc[p].pc = "create"
    /\ Becomes(p, [origin |-> f, tests |-> readTestFile(f), pc |-> "add"])
    /\ read' = [read EXCEPT ![p] = Found(f)]
    /\ Quiet

\* Trees named by -t that the suite does not have become tests; then the tests
\* are limited to those whose file name is what was typed, directory and all.
AddAndLimit(p) ==
    /\ proc[p].pc = "add"
    /\ LET me == proc[p]
           new == {a.file : a \in me.cmd.limitTests} \cap (DftFiles \ {t.file : t \in Range(me.tests)})
           names == SetToSeq(new)
           tests == me.tests \o [n \in DOMAIN names |-> NewTest(names[n], n)]
           typed == {a.file : a \in {b \in me.cmd.limitTests : b.bare}}
       IN  Becomes(p, [tests |-> tests, limit |-> {n \in DOMAIN tests : tests[n].file \in typed},
                       at |-> 1, pc |-> "run"])
    /\ UNCHANGED read /\ Quiet

-----------------------------------------------------------------------------
(* TestRun::run, for the suite and for each test *)

\* The command line of dftcalc is quoted as one word, which names no program:
\* whatever the tree, no answer is found and the probability stays -1.
runDftcalc == Invalid

Current(p) == proc[p].tests[proc[p].at]
Limited(p) == proc[p].limit # {} /\ proc[p].at \notin proc[p].limit
NextTest(p) ==
    /\ proc[p].pc = "run" /\ proc[p].at <= Len(proc[p].tests) /\ Limited(p)
    /\ Becomes(p, [at |-> proc[p].at + 1])
    /\ UNCHANGED read /\ Quiet

RunTest(p) ==
    /\ proc[p].pc = "run" /\ proc[p].at <= Len(proc[p].tests) /\ ~Limited(p)
    /\ LET valid == getLastValidResult(Current(p), "dftcalc")
           show(rs) == Becomes(p, [pc |-> "report", result |-> rs, cached |-> TRUE])
       IN  IF valid # {} /\ proc[p].cmd.mode # "f" THEN show(valid)
           ELSE IF proc[p].cmd.mode = "c" THEN show(getLastResult(Current(p), "dftcalc"))
           ELSE \E now \in Times, stop \in BOOLEAN :   \* dftcalc killed, the user asked to stop
                LET r == Result(now, "dftcalc", runDftcalc)
                IN  Becomes(p, [pc |-> "store", result |-> {r}, cached |-> FALSE, stop |-> stop,
                                tests |-> [proc[p].tests EXCEPT ![proc[p].at] = addResult(@, r)]])
    /\ UNCHANGED read /\ Quiet

\* reportTestResult.
Report(p) ==
    /\ proc[p].pc = "report"
    /\ Becomes(p, [pc |-> "save",
                   verdict |-> IF proc[p].result = {} THEN "UNKNOWN"
                               ELSE verify(Current(p), CHOOSE r \in proc[p].result : TRUE)])
    /\ told' = [told EXCEPT ![p] = @ \cup IF proc[p].cached THEN {}
                                         ELSE {[uuid |-> Current(p).uuid, result |-> r] : r \in proc[p].result}]
    /\ UNCHANGED <<disk, started, read, writer>>

\* updateOrigin, before the report of a fresh result and after every test: the
\* file is truncated when it is opened and filled when it is flushed.
Saving(p) == proc[p].pc \in {"store", "save"}
Opened == [store |-> "storing", save |-> "saving"]
Saved(p) ==
    IF proc[p].pc \in {"store", "storing"} THEN [pc |-> "report"]
    ELSE [pc |-> IF proc[p].stop THEN "end" ELSE "run", at |-> proc[p].at + 1, result |-> {}]
\* Without access the user is asked for another file, and the answer not used.
CannotSave(p) ==
    /\ Saving(p) /\ proc[p].origin \in ReadOnly
    /\ Becomes(p, Saved(p))
    /\ UNCHANGED read /\ Quiet
Open(p) ==
    /\ Saving(p) /\ proc[p].origin \notin ReadOnly
    /\ disk' = [disk EXCEPT ![proc[p].origin] = Suite("ok", <<>>)]
    /\ writer' = [writer EXCEPT ![proc[p].origin] = p]
    /\ Becomes(p, [pc |-> Opened[proc[p].pc]])
    /\ UNCHANGED <<started, read, told>>
Writing(p) == proc[p].pc \in {"storing", "saving"}
\* Over what another process wrote meanwhile, the end of that may stay behind.
Write(p) ==
    /\ Writing(p)
    /\ \E form \in IF disk[proc[p].origin] = Suite("ok", <<>>) THEN {"ok"} ELSE {"ok", "torn"} :
          disk' = [disk EXCEPT ![proc[p].origin] = Suite(form, proc[p].tests)]
    /\ writer' = [writer EXCEPT ![proc[p].origin] = IF @ = p THEN p ELSE Nobody]
    /\ Becomes(p, Saved(p))
    /\ UNCHANGED <<started, read, told>>

Done(p) ==
    \/ proc[p].pc = "end"
    \/ proc[p].pc = "run" /\ proc[p].at > Len(proc[p].tests)
Leave(p) == proc' = [proc EXCEPT ![p] = Resting]
Exit(p) == Done(p) /\ Leave(p) /\ UNCHANGED read /\ Quiet

\* What may be in the file of a test that is only partly written: fields come in
\* this order, results by their time.  (A name or number cut short is left out.)
Parts(t) ==
    LET earliest == {R \in SUBSET t.results :
                        \A r \in R, s \in t.results : s.time < r.time => s \in R}
        first == {V \in SUBSET t.verified :
                        \A v \in V, w \in t.verified : w.motive < v.motive => w \in V}
        cut == [t EXCEPT !.file = NoFile, !.verified = {}]
    IN  {[cut EXCEPT !.name = n, !.uuid = 0, !.had = FALSE, !.results = {}] : n \in {"", t.name}}
        \cup {[cut EXCEPT !.results = R] : R \in earliest}
        \cup {[cut EXCEPT !.verified = V] : V \in first} \cup {t}
Beginnings(ts) ==
    UNION {{[SubSeq(ts, 1, n) EXCEPT ![n] = t] : t \in Parts(ts[n])} : n \in DOMAIN ts}

\* Killed: while it wrote, the file is as the process opened it or holds the
\* beginning of what was to be written, which may be no YAML.
Killed(p) ==
    /\ proc[p].pc # "idle" /\ ~Done(p) /\ Leave(p)
    /\ \/ UNCHANGED disk
       \/ /\ Writing(p)
          /\ \E suite \in {Suite("ok", ts) : ts \in Beginnings(proc[p].tests)}
                           \cup {Suite("torn", proc[p].tests)} :
                disk' = [disk EXCEPT ![proc[p].origin] = suite]
    /\ writer' = IF ~Writing(p) \/ (disk' = disk /\ writer[proc[p].origin] # p) THEN writer
                 ELSE [writer EXCEPT ![proc[p].origin] = Nobody]
    /\ UNCHANGED <<started, read, told>>

Next ==
    \E p \in Procs :
        \/ \E c \in Commands : Start(p, c)
        \/ \E f \in SuiteFiles : createTestFile(p, f)
        \/ Load(p) \/ AddAndLimit(p) \/ NextTest(p) \/ RunTest(p) \/ Report(p)
        \/ CannotSave(p) \/ Open(p) \/ Write(p) \/ Exit(p) \/ Killed(p)
Spec == Init /\ [][Next]_vars

-----------------------------------------------------------------------------
(* Properties *)

OneTest(a, b) == a.uuid = b.uuid \/ (a.name # "" /\ a.name = b.name)
\* A test with neither uuid nor name cannot be found again.
Identified(t) == Readable(t) /\ (t.uuid # 0 \/ t.name # "")
\* What else of what a process read counts as test t, beside the n-th.
Twins(p, n, t) ==
    {read[p][m] : m \in {k \in DOMAIN read[p] \ {n} : Readable(read[p][k]) /\ OneTest(read[p][k], t)}}
Fresh(p) == {e.result : e \in told[p]} \cup IF proc[p].cached THEN {} ELSE proc[p].result

ResultKept(p, n, r, t) ==
    \/ r \in t.results
    \/ \E s \in Fresh(p) \cap t.results : s.time = r.time /\ s.iteration = r.iteration
    \/ \E twin \in Twins(p, n, t) : \E s \in twin.results : s.time = r.time
ValueKept(p, n, v, t) ==
    \/ v \in t.verified
    \/ \E twin \in Twins(p, n, t) : \E w \in twin.verified : w.motive = v.motive
FoundIn(p, n, t) ==
    LET found == read[p][n]
    IN  /\ OneTest(found, t)
        /\ \A r \in found.results : ResultKept(p, n, r, t)
        /\ found.format = 1 => \A v \in found.verified : ValueKept(p, n, v, t)

\* A process that rewrites a suite loses nothing of what it found in it: every
\* result and every value verified by hand is written back, under the same test,
\* unless the process has a result of its own for the very same second and
\* iteration, or the file had one test twice with results of one time.  This is
\* about what one process reads, merges and writes.  It leaves out values verified
\* in the old format and all that a later format holds, which are lost; what
\* another process has stored since this one read the file; and what a kill leaves
\* unwritten.  A file that another process left torn counts as written here.
NothingLost ==
    [][\A p \in Procs : Writing(p) /\ proc'[p].pc \notin {proc[p].pc, "idle"} =>
        \A n \in DOMAIN read[p] : Identified(read[p][n]) =>
            \E t \in Range(disk'[proc[p].origin].tests) : FoundIn(p, n, t)]_vars

\* As soon as a process has written a suite in full, and until it opens the file
\* anew or any other process writes it, the file can be read and holds every fresh
\* result that the process has reported, each under its test: so also when the
\* process has since been stopped, has ended or was killed, and when the clock has
\* been put back an hour between two results.  The property ends when the file is
\* opened for the next write.  From then until it is written in full nothing is
\* safe: the file is empty, and a kill there takes back all that was reported.
ReportedIsStored ==
    \A f \in SuiteFiles, p \in Procs :
        writer[f] = p /\ ~Writing(p) =>
            /\ disk[f].form = "ok"
            /\ \A e \in told[p] : \E t \in Range(disk[f].tests) :
                   t.uuid = e.uuid /\ e.result \in t.results

\* A valid result is reported as failed exactly when the first of the values
\* verified by hand is known and differs: never for its own sake, never because
\* of an older result.
VerdictIsRight ==
    \A p \in Procs : proc[p].pc = "save" => \A r \in proc[p].result :
        isValid(r) =>
            LET test == Current(p)
                first == {v \in test.verified : \A w \in test.verified : v.motive <= w.motive}
            IN  proc[p].verdict = "FAILED" <=> \E v \in first : v.failprob \notin {Invalid, r.failprob}
=============================================================================
