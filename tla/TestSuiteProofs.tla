-------------------------- MODULE TestSuiteProofs --------------------------
(***************************************************************************)
(* The test driver, for any number of processes on any suites, killed at   *)
(* any step.                                                               *)
(*                                                                         *)
(* Inv says of every process that it works on tests that are there and     *)
(* writes only where it may (Shape, NoAccess), that what it has reported   *)
(* is among its tests (Held) and in the file that it alone has written     *)
(* since it opened it (Kept), that a valid result it shows is the last one *)
(* of its test (Shown) and how it was judged (Judged).  ReportedIsStored   *)
(* needs Held, since a file is always rewritten from the tests of the      *)
(* process, and of Kept that a file opened and not yet written is empty.   *)
(*                                                                         *)
(* That nothing is lost takes two invariants more.  Gathers, over the      *)
(* tests of a file merged so far: each stands in the list, and what a      *)
(* test of the list holds is from tests that count as one with it, or it   *)
(* would displace the results of a stranger.  Covered, over the steps of a *)
(* process: what it read is in its tests, but for what its own fresh       *)
(* results took the place of.                                              *)
(***************************************************************************)
EXTENDS TestSuite, SequenceTheorems, WellFoundedInduction, FiniteSetTheorems, TLAPS

-----------------------------------------------------------------------------
(* Lists of tests *)

\* A sequence whose elements are tests is a list of tests.
LEMMA ListOf ==
  ASSUME NEW S, NEW ts \in Seq(S), \A n \in DOMAIN ts : IsTest(ts[n])
  PROVE  IsTests(ts)
<1>1. ts \in [1..Len(ts) -> S] /\ Len(ts) \in Nat
  BY LenProperties
<1>2. Range(ts) = {ts[n] : n \in DOMAIN ts}
  BY DEF Range
<1>3. ts \in [1..Len(ts) -> Range(ts)]
  BY <1>1, <1>2
<1>4. ts \in Seq(Range(ts))
  BY <1>1, <1>3, SeqDef
<1>5. QED  BY <1>2, <1>4 DEF IsTests

\* What a list of tests is.
LEMMA IsList ==
  ASSUME NEW ts, IsTests(ts)
  PROVE  /\ ts \in Seq(Range(ts)) /\ Len(ts) \in Nat /\ DOMAIN ts = 1..Len(ts)
         /\ Range(ts) = {ts[n] : n \in DOMAIN ts}
         /\ \A n \in DOMAIN ts : IsTest(ts[n])
<1>1. ts \in Seq(Range(ts)) /\ \A t \in Range(ts) : IsTest(t)
  BY DEF IsTests
<1>2. Len(ts) \in Nat /\ DOMAIN ts = 1..Len(ts)
  BY <1>1, LenProperties
<1>3. Range(ts) = {ts[n] : n \in DOMAIN ts}
  BY DEF Range
<1>4. QED  BY <1>1, <1>2, <1>3

\* A suite without tests is a list of tests.
LEMMA EmptyList == IsTests(<<>>)
<1>1. <<>> \in Seq({}) /\ DOMAIN <<>> = {}
  OBVIOUS
<1>2. QED  BY <1>1, ListOf

\* One test put in the place of another.
LEMMA ReplaceOne ==
  ASSUME NEW ts, IsTests(ts), NEW i \in DOMAIN ts, NEW t, IsTest(t)
  PROVE  /\ IsTests([ts EXCEPT ![i] = t])
         /\ DOMAIN [ts EXCEPT ![i] = t] = DOMAIN ts
         /\ \A n \in DOMAIN ts : [ts EXCEPT ![i] = t][n] = IF n = i THEN t ELSE ts[n]
<1> DEFINE S == Range(ts) \cup {t}
           us == [ts EXCEPT ![i] = t]
<1>1. ts \in Seq(S) /\ DOMAIN ts = 1..Len(ts) /\ \A n \in DOMAIN ts : IsTest(ts[n])
  <2>1. ts \in Seq(Range(ts)) /\ Range(ts) \subseteq S
    BY IsList
  <2>2. ts \in Seq(S)
    BY <2>1, SeqMonotonic
  <2>3. QED  BY <2>2, IsList
<1>2. /\ us \in Seq(S) /\ DOMAIN us = DOMAIN ts
      /\ \A n \in DOMAIN ts : us[n] = IF n = i THEN t ELSE ts[n]
  <2>1. t \in S
    OBVIOUS
  <2> HIDE DEF S
  <2>2. QED  BY <1>1, <2>1, ExceptSeq
<1> HIDE DEF us, S
<1>3. IsTests(us)
  BY <1>1, <1>2, ListOf
<1>4. QED  BY <1>2, <1>3 DEF us

\* Two lists in one.
LEMMA Both ==
  ASSUME NEW ts, IsTests(ts), NEW us, IsTests(us)
  PROVE  /\ IsTests(ts \o us)
         /\ \A j \in DOMAIN ts : j \in DOMAIN (ts \o us) /\ (ts \o us)[j] = ts[j]
<1> DEFINE S == Range(ts) \cup Range(us)
<1>1. ts \in Seq(S) /\ us \in Seq(S)
  BY IsList, SeqMonotonic
<1>2. /\ \A n \in 1..Len(ts) : IsTest(ts[n])
      /\ \A n \in 1..Len(us) : IsTest(us[n])
      /\ Len(ts) \in Nat /\ Len(us) \in Nat
  BY IsList
<1> HIDE DEF S
<1>3. /\ ts \o us \in Seq(S) /\ DOMAIN (ts \o us) = 1..Len(ts) + Len(us)
      /\ \A i \in 1..Len(ts) + Len(us) :
           (ts \o us)[i] = IF i <= Len(ts) THEN ts[i] ELSE us[i - Len(ts)]
  <2>1. /\ ts \o us \in Seq(S) /\ Len(ts \o us) = Len(ts) + Len(us)
        /\ \A i \in 1..Len(ts) + Len(us) :
             (ts \o us)[i] = IF i <= Len(ts) THEN ts[i] ELSE us[i - Len(ts)]
    BY <1>1, ConcatProperties
  <2>2. QED  BY <2>1, LenProperties
<1>4. \A i \in 1..Len(ts) + Len(us) : IsTest((ts \o us)[i])
  BY <1>2, <1>3
<1>5. IsTests(ts \o us)
  BY <1>3, <1>4, ListOf
<1>6. DOMAIN ts = 1..Len(ts) /\ \A j \in 1..Len(ts) : j \in 1..Len(ts) + Len(us) /\ j <= Len(ts)
  BY <1>2, IsList
<1>7. QED  BY <1>3, <1>5, <1>6

\* The beginning of a list.
LEMMA Beginning ==
  ASSUME NEW ts, IsTests(ts), NEW n \in DOMAIN ts
  PROVE  IsTests(SubSeq(ts, 1, n)) /\ n \in DOMAIN SubSeq(ts, 1, n)
<1>1. /\ n \in Int /\ 1 \in Int /\ 1 <= n /\ n <= Len(ts) /\ Len(ts) \in Nat
      /\ \A i \in 1..n : i \in DOMAIN ts /\ ts[i] \in Range(ts) /\ IsTest(ts[i])
  BY IsList
<1>2. /\ SubSeq(ts, 1, n) \in Seq(Range(ts)) /\ Len(SubSeq(ts, 1, n)) = n
      /\ \A i \in 1..n : SubSeq(ts, 1, n)[i] = ts[i]
  BY <1>1, SubSeqProperties
<1>3. DOMAIN SubSeq(ts, 1, n) = 1..n
  BY <1>2, LenProperties
<1>4. IsTests(SubSeq(ts, 1, n))
  BY <1>1, <1>2, <1>3, ListOf
<1>5. QED  BY <1>1, <1>3, <1>4

-----------------------------------------------------------------------------
(* Results and verified values *)

\* A set of numbers that is not empty has a least one.
LEMMA Least ==
  ASSUME NEW S, S \subseteq Nat, S # {}
  PROVE  \E n \in S : \A m \in S : n <= m
<1>1. PICK n \in S : \A m \in S : ~ (<<m, n>> \in OpToRel(<, Nat))
  BY NatLessThanWellFounded, WFMin
<1>2. \A m \in S : ~ (m < n)
  BY <1>1 DEF OpToRel
<1>3. QED  BY <1>2

\* The first of several places is one of them.
LEMMA MinIsIn ==
  ASSUME NEW S, S \subseteq Nat, S # {}
  PROVE  Min(S) \in S
BY Least DEF Min

\* A fresh result is put in the place of one of the same second and iteration.
LEMMA AddOne ==
  ASSUME NEW t, IsTest(t), NEW r, r.time \in Nat, r.failprob \in Int
  PROVE  LET u == addResult(t, r)
         IN  /\ IsTest(u) /\ r \in u.results
             /\ u.uuid = t.uuid /\ u.name = t.name /\ u.verified = t.verified
             /\ \A s \in t.results : s \in u.results \/ (s.time = r.time /\ s.iteration = r.iteration)
<1> DEFINE R == {s \in t.results : s.time # r.time \/ s.iteration # r.iteration} \cup {r}
<1>1. IsFiniteSet(R)
  BY FS_Subset, FS_AddElement DEF IsTest
<1>2. /\ \A s \in R : s.time \in Nat /\ s.failprob \in Int
      /\ \A s, u \in R : s.time = u.time /\ s.iteration = u.iteration => s = u
      /\ r \in R
  BY DEF IsTest
<1>3. addResult(t, r) = [t EXCEPT !.results = R]
  BY DEF addResult
<1>4. \A s \in t.results : s \in R \/ (s.time = r.time /\ s.iteration = r.iteration)
  OBVIOUS
<1> HIDE DEF R
<1> DEFINE u == addResult(t, r)
<1>5. /\ DOMAIN u = DOMAIN t /\ u.results = R
      /\ u.uuid = t.uuid /\ u.name = t.name /\ u.verified = t.verified
  BY <1>3 DEF IsTest
<1> HIDE DEF u
<1>6. IsTest(u)
  BY <1>1, <1>2, <1>5 DEF IsTest
<1>7. QED  BY <1>2, <1>4, <1>5, <1>6 DEF u

\* Merging two tests.
LEMMA AppendOne ==
  ASSUME NEW a, IsTest(a), NEW b, IsTest(b)
  PROVE  IsTest(append(a, b))
<1> DEFINE V == a.verified \cup {v \in b.verified : \A w \in a.verified : w.motive # v.motive}
           R == a.results \cup {r \in b.results : \A s \in a.results : s.time # r.time}
           c == appendVerified(a, b)
<1>1. IsFiniteSet(R)
  BY FS_Subset, FS_Union DEF IsTest
<1>2. /\ \A s \in R : s.time \in Nat /\ s.failprob \in Int
      /\ \A s, u \in R : s.time = u.time /\ s.iteration = u.iteration => s = u
  BY DEF IsTest
<1>3. /\ \A v \in V : v.motive \in Nat /\ v.failprob \in Int
      /\ \A v, w \in V : v.motive = w.motive => v = w
  BY DEF IsTest
<1>4. DOMAIN c = DOMAIN a /\ c.verified = V /\ c.results = a.results
  <2>1. c = [a EXCEPT !.verified = V]
    BY DEF appendVerified
  <2> HIDE DEF c, V
  <2>2. QED  BY <2>1 DEF IsTest
<1>5. append(a, b) = [c EXCEPT !.results = R]
  <2>1. append(a, b) = [c EXCEPT !.results = c.results \cup {r \in b.results : \A s \in c.results : s.time # r.time}]
    BY DEF append
  <2> HIDE DEF c
  <2>2. QED  BY <1>4, <2>1
<1> HIDE DEF V, R, c
<1>6. QED  BY <1>1, <1>2, <1>3, <1>4, <1>5 DEF IsTest

-----------------------------------------------------------------------------
(* Reading a suite *)

\* A list into which a test is merged is a list of tests.
LEMMA MergeOne ==
  ASSUME NEW ts, IsTests(ts), NEW t, IsTest(t)
  PROVE  IsTests(Merged(ts, t))
<1> DEFINE same == {n \in DOMAIN ts : Same(t, ts[n])}
<1>1. CASE same = {}
  <2>1. IsTests(<<t>>)
    <3>1. <<t>> \in Seq({t}) /\ DOMAIN <<t>> = {1} /\ <<t>>[1] = t
      OBVIOUS
    <3>2. QED  BY <3>1, ListOf
  <2>2. Append(ts, t) = ts \o <<t>>
    BY IsList, AppendProperties, ConcatProperties
  <2>3. QED  BY <1>1, <2>1, <2>2, Both DEF Merged
<1>2. CASE same # {}
  <2>1. Min(same) \in same
    <3>1. same \subseteq Nat
      BY IsList
    <3> HIDE DEF same
    <3>2. QED  BY <1>2, <3>1, MinIsIn
  <2> DEFINE i == Min(same)
             u == append(ts[i], t)
  <2>2. Merged(ts, t) = [ts EXCEPT ![i] = u]
    BY <1>2 DEF Merged
  <2>3. i \in DOMAIN ts /\ IsTest(ts[i])
    BY <2>1, IsList
  <2> HIDE DEF same, i
  <2>4. IsTest(u)
    BY <2>3, AppendOne
  <2> HIDE DEF u
  <2>5. IsTests([ts EXCEPT ![i] = u])
    BY <2>3, <2>4, ReplaceOne
  <2>6. QED  BY <2>2, <2>5, Zenon
<1>3. QED  BY <1>1, <1>2

\* The lists that one merge after another makes.
Merges(g, main, tba, m) ==
  g = [n \in 0..m |-> IF n = 0 THEN main ELSE Merged(g[n - 1], tba[n])]

\* There is such a sequence of lists: merged, in mergeTestLists, is one.
LEMMA MergesExist ==
  ASSUME NEW main, NEW tba, NEW m \in Nat
  PROVE  \E g : Merges(g, main, tba, m)
<1> DEFINE Bad == {k \in Nat : ~ \E g : Merges(g, main, tba, k)}
<1>1. SUFFICES ASSUME Bad # {}  PROVE FALSE
  OBVIOUS
<1>2. PICK k \in Bad : \A l \in Bad : k <= l
  <2>1. Bad \subseteq Nat
    OBVIOUS
  <2> HIDE DEF Bad
  <2>2. QED  BY <1>1, <2>1, Least
<1>3. CASE k = 0
  <2>1. Merges([n \in 0..0 |-> main], main, tba, 0)
    BY DEF Merges
  <2>2. QED  BY <1>2, <1>3, <2>1
<1>4. CASE k # 0
  <2>1. k - 1 \in Nat /\ k - 1 \notin Bad
    BY <1>2, <1>4
  <2>2. PICK g : Merges(g, main, tba, k - 1)
    BY <2>1
  <2> DEFINE h == [n \in 0..k |-> IF n = k THEN Merged(g[k - 1], tba[k]) ELSE g[n]]
  <2>3. ASSUME NEW n \in 0..k
        PROVE  h[n] = IF n = 0 THEN main ELSE Merged(h[n - 1], tba[n])
    <3>1. \A i \in 0..k - 1 : g[i] = IF i = 0 THEN main ELSE Merged(g[i - 1], tba[i])
      BY <2>2, Zenon DEF Merges
    <3>2. CASE n = k
      <4>1. n - 1 \in 0..k /\ n - 1 # k /\ h[n] = Merged(g[n - 1], tba[n]) /\ n # 0
        BY <1>4, <2>1, <3>2
      <4>2. QED  BY <4>1
    <3>3. CASE n # k
      <4>1. /\ n \in 0..k - 1 /\ h[n] = g[n]
            /\ n # 0 => n - 1 \in 0..k /\ n - 1 # k /\ h[n - 1] = g[n - 1]
        BY <2>1, <3>3
      <4> HIDE DEF h
      <4>2. QED  BY <3>1, <4>1
    <3>4. QED  BY <3>2, <3>3
  <2>4. Merges(h, main, tba, k)
    <3>1. h = [n \in 0..k |-> h[n]]
      OBVIOUS
    <3> HIDE DEF h
    <3>2. QED  BY <2>3, <3>1 DEF Merges
  <2>5. QED  BY <1>2, <2>4
<1>5. QED  BY <1>3, <1>4

\* What mergeTestLists makes of the first n tests.
LEMMA MergeSteps ==
  ASSUME NEW main, NEW tba, Len(tba) \in Nat
  PROVE  \E g : Merges(g, main, tba, Len(tba)) /\ mergeTestLists(main, tba) = g[Len(tba)]
<1> DEFINE c == CHOOSE g : Merges(g, main, tba, Len(tba))
<1>1. Merges(c, main, tba, Len(tba))
  BY MergesExist
<1>2. mergeTestLists(main, tba) = c[Len(tba)]
  BY DEF mergeTestLists, Merges
<1>3. QED  BY <1>1, <1>2

\* Two lists of tests merged are one.
LEMMA MergeLists ==
  ASSUME NEW main, IsTests(main), NEW tba, IsTests(tba)
  PROVE  IsTests(mergeTestLists(main, tba))
<1>1. Len(tba) \in Nat /\ \A n \in 1..Len(tba) : IsTest(tba[n])
  BY IsList
<1>2. PICK g : Merges(g, main, tba, Len(tba)) /\ mergeTestLists(main, tba) = g[Len(tba)]
  BY <1>1, MergeSteps
<1>3. \A n \in 0..Len(tba) : g[n] = IF n = 0 THEN main ELSE Merged(g[n - 1], tba[n])
  BY <1>2, Zenon DEF Merges
<1> DEFINE Bad == {n \in 0..Len(tba) : ~ IsTests(g[n])}
<1>4. Bad = {}
  <2> SUFFICES ASSUME Bad # {}  PROVE FALSE
    OBVIOUS
  <2>1. PICK n \in Bad : \A m \in Bad : n <= m
    <3>1. Bad \subseteq Nat
      OBVIOUS
    <3> HIDE DEF Bad
    <3>2. QED  BY <3>1, Least
  <2>2. n # 0
    BY <1>3, <2>1
  <2>3. n \in 1..Len(tba) /\ n - 1 \in 0..Len(tba) /\ IsTests(g[n - 1])
    BY <1>1, <2>1, <2>2
  <2>4. IsTests(Merged(g[n - 1], tba[n]))
    BY <1>1, <2>3, MergeOne
  <2>5. QED  BY <1>3, <2>1, <2>2, <2>4
<1>5. QED  BY <1>1, <1>2, <1>4

\* What loadTests makes of the tests of a suite are tests.
LEMMA LoadedList ==
  ASSUME NEW s, IsTests(s.tests)
  PROVE  IsTests(loadTests(s))
<1> DEFINE ts == loadTests(s)
<1>1. /\ DOMAIN s.tests = 1..Len(s.tests) /\ Len(s.tests) \in Nat
      /\ \A n \in DOMAIN s.tests : IsTest(s.tests[n])
  BY IsList
<1>2. ts = [n \in 1..Len(s.tests) |-> readYAMLNode(s.tests[n], n)]
  BY <1>1 DEF loadTests
<1>3. \A n \in 1..Len(s.tests) : IsTest(readYAMLNode(s.tests[n], n))
  BY <1>1, FS_EmptySet DEF IsTest, readYAMLNode, NewTest
<1> HIDE DEF ts
<1>4. ts \in Seq({ts[n] : n \in DOMAIN ts}) /\ \A n \in DOMAIN ts : IsTest(ts[n])
  <2>1. ts \in [1..Len(s.tests) -> {ts[n] : n \in DOMAIN ts}]
    BY <1>2
  <2>2. QED  BY <1>1, <1>2, <1>3, <2>1, SeqDef
<1>5. QED  BY <1>4, ListOf DEF ts

\* So is what is read from a file, readable or not.
LEMMA ReadList ==
  ASSUME NEW f, IsTests(disk[f].tests)
  PROVE  IsTests(readTestFile(f))
BY LoadedList, MergeLists, EmptyList DEF readTestFile

-----------------------------------------------------------------------------
(* What every process is like *)

Slots == {"pc", "cmd", "tried", "origin", "tests", "limit", "at", "result", "cached",
          "stop", "verdict"}
Running == {"run", "store", "storing", "report", "save", "saving"}
AtTest == Running \ {"run"}
Steps == {"idle", "load", "create", "add", "end"} \cup Running

\* The fields of a process at each step, and the test it is at.
ProcessFits(p) ==
  LET me == proc[p] IN
  /\ DOMAIN me = Slots /\ me.pc \in Steps
  /\ me.origin \in SuiteFiles /\ IsTests(me.tests)
  /\ me.pc # "idle" => me.cmd \in Commands
  /\ me.pc = "load" => me.tried \in Nat \ {0}
  /\ me.pc \in Running => me.at \in Nat \ {0}
  /\ me.pc \in AtTest => me.at \in DOMAIN me.tests
  /\ me.pc \in {"storing", "saving"} => me.origin \notin ReadOnly

Shape ==
  /\ DOMAIN proc = Procs /\ \A p \in Procs : ProcessFits(p)
  /\ DOMAIN disk = SuiteFiles /\ \A f \in SuiteFiles : IsTests(disk[f].tests)
  /\ DOMAIN told = Procs /\ DOMAIN writer = SuiteFiles

\* What Becomes leaves.
LEMMA BecomesIs ==
  ASSUME Shape, NEW p \in Procs, NEW fields, Becomes(p, fields)
  PROVE  /\ DOMAIN proc' = Procs /\ DOMAIN proc'[p] = Slots
         /\ \A q \in Procs \ {p} : proc'[q] = proc[q]
         /\ \A x \in Slots : proc'[p][x] = IF x \in DOMAIN fields THEN fields[x] ELSE proc[p][x]
<1>1. DOMAIN proc = Procs /\ DOMAIN proc[p] = Slots
  BY DEF Shape, ProcessFits
<1> DEFINE me == [x \in DOMAIN proc[p] |-> IF x \in DOMAIN fields THEN fields[x] ELSE proc[p][x]]
<1>2. proc' = [proc EXCEPT ![p] = me]
  BY DEF Becomes
<1>3. proc'[p] = me
  BY <1>1, <1>2
<1>4. QED  BY <1>1, <1>2, <1>3

\* The process starts over.
LEMMA Restarts ==
  ASSUME Shape, NEW p \in Procs, NEW pc \in Steps \ Running, NEW cmd, NEW tried,
         proc' = [proc EXCEPT ![p] = Process(pc, cmd, tried)],
         pc # "idle" => cmd \in Commands,
         pc = "load" => tried \in Nat \ {0}
  PROVE  /\ DOMAIN proc' = Procs /\ (\A q \in Procs \ {p} : proc'[q] = proc[q])
         /\ proc'[p].pc = pc /\ proc'[p].cached = TRUE /\ ProcessFits(p)'
<1>1. /\ DOMAIN proc' = Procs /\ (\A q \in Procs \ {p} : proc'[q] = proc[q])
      /\ proc'[p] = Process(pc, cmd, tried)
  BY DEF Shape
<1>2. (CHOOSE f \in SuiteFiles : TRUE) \in SuiteFiles
  BY TestSuiteAssumption
<1>3. QED  BY <1>1, <1>2, EmptyList DEF Process, ProcessFits, Slots, Steps, Running, AtTest

\* A command line names finitely many files.
LEMMA NamedFiles ==
  ASSUME NEW c \in Commands, NEW S
  PROVE  IsFiniteSet({a.file : a \in c.limitTests} \cap S)
<1> DEFINE named == {a.file : a \in c.limitTests}
           g == [a \in c.limitTests |-> a.file]
<1>1. g \in Surjection(c.limitTests, named)
  BY DEF Surjection
<1>2. IsFiniteSet(named)
  BY <1>1, TestSuiteAssumption, FS_Surjection
<1>3. QED  BY <1>2, FS_Subset

\* The tests a command line adds to a suite, and those it is limited to.
LEMMA AddedTests ==
  ASSUME NEW ts, IsTests(ts), NEW new, IsFiniteSet(new)
  PROVE  LET names == SetToSeq(new)
             us == ts \o [n \in DOMAIN names |-> NewTest(names[n], n)]
         IN  /\ IsTests(us)
             /\ \A j \in DOMAIN ts : j \in DOMAIN us /\ us[j] = ts[j]
<1> DEFINE names == SetToSeq(new)
           us == [n \in DOMAIN names |-> NewTest(names[n], n)]
<1>1. Cardinality(new) \in Nat
  BY FS_CardinalityType
<1>2. DOMAIN names = 1..Cardinality(new)
  <2>1. PICK f : f \in Bijection(1..Cardinality(new), new)
    BY FS_CardinalityType DEF ExistsBijection
  <2>2. f \in [1..Cardinality(new) -> new] /\ IsInjective(f)
    BY <2>1 DEF Bijection, Injection, IsInjective
  <2>3. names \in [1..Cardinality(new) -> new]
    BY <2>2 DEF SetToSeq
  <2>4. QED  BY <2>3
<1>3. \A n \in DOMAIN us : IsTest(us[n])
  <2>1. IsFiniteSet({})
    BY FS_EmptySet
  <2>2. QED  BY <2>1 DEF NewTest, IsTest
<1> HIDE DEF names
<1>4. us \in [1..Cardinality(new) -> {us[n] : n \in DOMAIN us}]
  BY <1>2
<1>5. IsTests(us)
  <2> HIDE DEF us
  <2>1. us \in Seq({us[n] : n \in DOMAIN us})
    BY <1>1, <1>4, SeqDef
  <2>2. QED  BY <1>3, <2>1, ListOf
<1> HIDE DEF us
<1>6. IsTests(ts \o us) /\ \A j \in DOMAIN ts : j \in DOMAIN (ts \o us) /\ (ts \o us)[j] = ts[j]
  BY <1>5, Both
<1>7. QED  BY <1>6 DEF us, names

-----------------------------------------------------------------------------
(* The invariant *)

\* A test holds a reported result.
Says(t, e) == t.uuid = e.uuid /\ e.result \in t.results

\* What a process has reported is among its tests, and so is what it is about to.
Held(p) ==
  LET me == proc[p] IN
  /\ me.pc \in {"load", "create", "add"} => told[p] = {}
  /\ me.pc \in Running \cup {"end"} => \A e \in told[p] : \E n \in DOMAIN me.tests :
        /\ n < me.at \/ (n = me.at /\ me.pc \in {"save", "saving"})
        /\ Says(me.tests[n], e)
  /\ me.pc \in {"store", "storing", "report"} /\ ~ me.cached =>
        \A r \in me.result : r \in Current(p).results

OnDisk(f, e) == \E t \in Range(disk[f].tests) : Says(t, e)

\* Both are in the file that it alone has written since it opened it, if it has
\* not opened it anew; and a running process has written none but its own.
Kept(p) ==
  LET me == proc[p] IN
  \A f \in SuiteFiles : writer[f] = p =>
    /\ me.pc # "idle" => me.pc \notin {"load", "create", "add"} /\ f = me.origin
    /\ Writing(p) => disk[f] = Suite("ok", <<>>)
    /\ ~ Writing(p) => disk[f].form = "ok" /\ \A e \in told[p] : OnDisk(f, e)
    /\ me.pc = "report" /\ ~ me.cached =>
         \A r \in me.result : OnDisk(f, [uuid |-> Current(p).uuid, result |-> r])

\* What is shown is the last valid result of the test, or no valid one.
Shows(test, rs) ==
  \A r \in rs : isValid(r) => rs = {r} /\ r \in getLastValidResult(test, "dftcalc")
Shown(p) ==
  proc[p].pc \in {"store", "storing", "report"} => Shows(Current(p), proc[p].result)

FirstValues(test) == {v \in test.verified : \A w \in test.verified : v.motive <= w.motive}
Judged(p) ==
  proc[p].pc = "save" => \A r \in proc[p].result : isValid(r) =>
    (proc[p].verdict = "FAILED" <=>
       \E v \in FirstValues(Current(p)) : v.failprob \notin {Invalid, r.failprob})

NoAccess == \A f \in ReadOnly \cap SuiteFiles : writer[f] \notin Procs

Fine(p) == ProcessFits(p) /\ Held(p) /\ Kept(p) /\ Shown(p) /\ Judged(p)
Inv == Shape /\ NoAccess /\ \A p \in Procs : Fine(p)

\* Only process p moves.
Only(p) == DOMAIN proc' = Procs /\ \A q \in Procs \ {p} : proc'[q] = proc[q]

-----------------------------------------------------------------------------
(* Every step keeps it. *)

\* Load: nothing has been reported yet.
LEMMA LoadKeeps ==
  ASSUME Inv, NEW p \in Procs, Load(p)
  PROVE  Only(p) /\ Fine(p)'
<1> DEFINE me == proc[p]
           f == me.cmd.tryOut[me.tried]
<1>1. /\ me.pc = "load" /\ me.cmd \in Commands /\ me.tried \in Nat \ {0}
      /\ me.origin \in SuiteFiles /\ IsTests(me.tests) /\ told[p] = {} /\ told' = told
      /\ DOMAIN told = Procs /\ me.pc \notin Running
      /\ writer' = writer /\ \A g \in SuiteFiles : writer[g] # p
  BY DEF Load, Quiet, Inv, Shape, Fine, ProcessFits, Held, Kept, Running
<1>2. CASE me.tried > Len(me.cmd.tryOut)
  <2> DEFINE fields == [pc |-> IF me.cmd.limitTests = {} THEN "add" ELSE "create"]
  <2>1. Becomes(p, fields)
    BY <1>2 DEF Load
  <2>2. /\ Only(p) /\ DOMAIN proc'[p] = Slots /\ proc'[p].pc \in {"add", "create"}
        /\ proc'[p].cmd = me.cmd /\ proc'[p].origin = me.origin /\ proc'[p].tests = me.tests
    BY <2>1, BecomesIs DEF Inv, Only, Slots
  <2>3. QED  BY <1>1, <2>2 DEF Fine, ProcessFits, Held, Kept, Shown, Judged, Running, AtTest, Steps
<1>3. CASE ~ (me.tried > Len(me.cmd.tryOut))
  <2>1. f \in SuiteFiles
    BY <1>1, <1>3, TestSuiteAssumption, ElementOfSeq, LenProperties
  <2>2. CASE disk[f].form = "missing"
    <3>1. Becomes(p, [tried |-> me.tried + 1])
      BY <1>3, <2>2 DEF Load
    <3>2. /\ Only(p) /\ DOMAIN proc'[p] = Slots /\ proc'[p].pc = "load"
          /\ proc'[p].tried = me.tried + 1
          /\ proc'[p].cmd = me.cmd /\ proc'[p].origin = me.origin /\ proc'[p].tests = me.tests
      BY <1>1, <3>1, BecomesIs DEF Inv, Only, Slots
    <3>3. QED  BY <1>1, <3>2 DEF Fine, ProcessFits, Held, Kept, Shown, Judged, Running, AtTest, Steps
  <2>3. CASE disk[f].form # "missing"
    <3>1. Becomes(p, [origin |-> f, tests |-> readTestFile(f), tried |-> me.tried + 1,
                      pc |-> IF disk[f].form = "ok" THEN "add" ELSE "load"])
      BY <1>3, <2>3 DEF Load
    <3>2. /\ Only(p) /\ DOMAIN proc'[p] = Slots /\ proc'[p].pc \in {"add", "load"}
          /\ proc'[p].tried = me.tried + 1
          /\ proc'[p].cmd = me.cmd /\ proc'[p].origin = f /\ proc'[p].tests = readTestFile(f)
      <4> DEFINE fields == [origin |-> f, tests |-> readTestFile(f), tried |-> me.tried + 1,
                            pc |-> IF disk[f].form = "ok" THEN "add" ELSE "load"]
      <4>1. /\ DOMAIN fields = {"origin", "tests", "tried", "pc"} /\ fields.pc \in {"add", "load"}
            /\ fields.tried = me.tried + 1 /\ fields.origin = f /\ fields.tests = readTestFile(f)
        OBVIOUS
      <4>2. Becomes(p, fields)
        BY <3>1, Zenon
      <4> HIDE DEF fields, f
      <4>3. QED  BY <1>1, <4>1, <4>2, BecomesIs DEF Inv, Only, Slots
    <3>3. IsTests(readTestFile(f))
      BY <2>1, ReadList DEF Inv, Shape
    <3> HIDE DEF f
    <3>4. ProcessFits(p)'
      BY <1>1, <2>1, <3>2, <3>3 DEF ProcessFits, Running, AtTest, Steps
    <3>5. QED
      BY <1>1, <3>2, <3>4 DEF Fine, Held, Kept, Shown, Judged, Running
  <2>4. QED  BY <2>2, <2>3
<1>4. QED  BY <1>2, <1>3

\* createTestFile: nor here.
LEMMA CreateKeeps ==
  ASSUME Inv, NEW p \in Procs, NEW f \in SuiteFiles, createTestFile(p, f)
  PROVE  Only(p) /\ Fine(p)'
<1>1. /\ proc[p].pc = "create" /\ proc[p].cmd \in Commands /\ told[p] = {} /\ told' = told
      /\ writer' = writer /\ \A g \in SuiteFiles : writer[g] # p
  BY DEF createTestFile, Quiet, Inv, Fine, ProcessFits, Held, Kept
<1>2. Becomes(p, [origin |-> f, tests |-> readTestFile(f), pc |-> "add"])
  BY DEF createTestFile
<1>3. /\ Only(p) /\ DOMAIN proc'[p] = Slots /\ proc'[p].pc = "add"
      /\ proc'[p].cmd = proc[p].cmd /\ proc'[p].origin = f /\ proc'[p].tests = readTestFile(f)
  BY <1>2, BecomesIs DEF Inv, Only, Slots
<1>4. IsTests(readTestFile(f))
  BY ReadList DEF Inv, Shape
<1>5. QED
  BY <1>1, <1>3, <1>4 DEF Fine, ProcessFits, Held, Kept, Shown, Judged, Running, AtTest, Steps

\* AddAndLimit: nor here; the first test is next.
LEMMA AddKeeps ==
  ASSUME Inv, NEW p \in Procs, AddAndLimit(p)
  PROVE  Only(p) /\ Fine(p)'
<1> DEFINE me == proc[p]
           new == {a.file : a \in me.cmd.limitTests} \cap (DftFiles \ {t.file : t \in Range(me.tests)})
           names == SetToSeq(new)
           tests == me.tests \o [n \in DOMAIN names |-> NewTest(names[n], n)]
           typed == {a.file : a \in {b \in me.cmd.limitTests : b.bare}}
           limit == {n \in DOMAIN tests : tests[n].file \in typed}
<1>1. /\ me.pc = "add" /\ me.cmd \in Commands /\ told[p] = {} /\ told' = told
      /\ IsTests(me.tests) /\ me.origin \in SuiteFiles
      /\ writer' = writer /\ \A g \in SuiteFiles : writer[g] # p
  BY DEF AddAndLimit, Quiet, Inv, Fine, ProcessFits, Held, Kept
<1>2. IsTests(tests)
  <2>1. IsFiniteSet(new)
    BY <1>1, NamedFiles
  <2> HIDE DEF new
  <2>2. QED  BY <1>1, <2>1, AddedTests
<1>3. Becomes(p, [tests |-> tests, limit |-> limit, at |-> 1, pc |-> "run"])
  BY DEF AddAndLimit
<1> HIDE DEF tests, limit
<1>4. /\ Only(p) /\ DOMAIN proc'[p] = Slots /\ proc'[p].pc = "run" /\ proc'[p].at = 1
      /\ proc'[p].cmd = me.cmd /\ proc'[p].origin = me.origin /\ proc'[p].tests = tests
  BY <1>3, BecomesIs DEF Inv, Only, Slots
<1>5. QED
  BY <1>1, <1>2, <1>4 DEF Fine, ProcessFits, Held, Kept, Shown, Judged, Running, AtTest, Steps

\* What Kept says of a process between two writes.
Stored(p) ==
  \A f \in SuiteFiles : writer[f] = p =>
    f = proc[p].origin /\ disk[f].form = "ok" /\ \A e \in told[p] : OnDisk(f, e)

\* NextTest: the tests before the next one are one more.
LEMMA NextTestKeeps ==
  ASSUME Inv, NEW p \in Procs, NextTest(p)
  PROVE  Only(p) /\ Fine(p)'
<1> DEFINE me == proc[p]
<1>1. /\ me.pc = "run" /\ me.cmd \in Commands /\ UNCHANGED <<told, disk, writer>>
      /\ IsTests(me.tests) /\ me.origin \in SuiteFiles /\ me.at \in Nat \ {0}
  BY DEF NextTest, Quiet, Inv, Fine, ProcessFits, Running
<1>2. /\ \A e \in told[p] : \E n \in DOMAIN me.tests : n < me.at /\ Says(me.tests[n], e)
      /\ Stored(p)
  BY <1>1 DEF Inv, Fine, Held, Kept, Stored, Running, Writing
<1>3. Becomes(p, [at |-> me.at + 1])
  BY DEF NextTest
<1>4. /\ Only(p) /\ DOMAIN proc'[p] = Slots /\ proc'[p].pc = "run" /\ proc'[p].at = me.at + 1
      /\ proc'[p].cmd = me.cmd /\ proc'[p].origin = me.origin /\ proc'[p].tests = me.tests
  BY <1>1, <1>3, BecomesIs DEF Inv, Only, Slots
<1>5. \A n \in DOMAIN me.tests : n < me.at => n < me.at + 1
  BY <1>1, IsList
<1>6. ProcessFits(p)'
  BY <1>1, <1>4 DEF ProcessFits, Running, AtTest, Steps
<1>7. Held(p)'
  BY <1>1, <1>2, <1>4, <1>5 DEF Held
<1>8. Kept(p)'
  BY <1>1, <1>2, <1>4 DEF Kept, Stored, OnDisk, Writing
<1>9. QED
  BY <1>4, <1>6, <1>7, <1>8 DEF Fine, Shown, Judged

\* Of one time and iteration a test has one result.
LEMMA OneNewest ==
  ASSUME NEW test, IsTest(test), NEW i
  PROVE  /\ Shows(test, getLastValidResult(test, "dftcalc"))
         /\ getLastValidResult(test, "dftcalc") = {} =>
              Shows(test, getLastResult(test, "dftcalc"))
<1>1. ASSUME NEW rs, rs \subseteq Of(test, "dftcalc"), NEW r \in Newest(rs)
      PROVE  Newest(rs) = {r}
  <2>1. ASSUME NEW s \in Newest(rs)  PROVE  s = r
    <3>1. r \in test.results /\ s \in test.results
      BY <1>1 DEF Of, Newest
    <3>2. r.time <= s.time /\ s.time <= r.time /\ r.time \in Nat /\ s.time \in Nat
      BY <1>1, <3>1 DEF Newest, IsTest
    <3>3. r.iteration = s.iteration /\ r.time = s.time
      BY <1>1, <3>2 DEF Of, Newest
    <3>4. QED  BY <3>1, <3>3 DEF IsTest
  <2>2. QED  BY <1>1, <2>1
<1>2. Shows(test, getLastValidResult(test, "dftcalc"))
  <2> DEFINE rs == {r \in Of(test, "dftcalc") : isValid(r)}
  <2>1. rs \subseteq Of(test, "dftcalc") /\ getLastValidResult(test, "dftcalc") = Newest(rs)
    BY DEF getLastValidResult
  <2> HIDE DEF rs
  <2>2. QED  BY <1>1, <2>1 DEF Shows
<1>3. ASSUME getLastValidResult(test, "dftcalc") = {}
      PROVE  Shows(test, getLastResult(test, "dftcalc"))
  BY <1>3 DEF Shows, getLastResult, getLastValidResult, Newest, Of
<1>4. QED  BY <1>2, <1>3

\* RunTest: a fresh result is put in the test at hand, behind all that is reported.
LEMMA RunKeeps ==
  ASSUME Inv, NEW p \in Procs, RunTest(p)
  PROVE  Only(p) /\ Fine(p)'
<1> DEFINE me == proc[p]
<1>1. /\ me.pc = "run" /\ me.cmd \in Commands /\ UNCHANGED <<told, disk, writer>>
      /\ IsTests(me.tests) /\ me.origin \in SuiteFiles /\ me.at \in DOMAIN me.tests
      /\ me.at \in Nat \ {0}
  <2>1. /\ me.pc = "run" /\ me.cmd \in Commands /\ UNCHANGED <<told, disk, writer>>
        /\ IsTests(me.tests) /\ me.origin \in SuiteFiles /\ me.at \in Nat \ {0}
        /\ me.at <= Len(me.tests)
    BY DEF RunTest, Quiet, Inv, Fine, ProcessFits, Running
  <2>2. me.at \in DOMAIN me.tests
    BY <2>1, IsList
  <2>3. QED  BY <2>1, <2>2
<1>2. /\ \A e \in told[p] : \E n \in DOMAIN me.tests : n < me.at /\ Says(me.tests[n], e)
      /\ Stored(p)
  BY <1>1 DEF Inv, Fine, Held, Kept, Stored, Running, Writing
<1> DEFINE t == me.tests[me.at]
<1>3. IsTest(t)
  BY <1>1, IsList
<1>4. ASSUME NEW rs, Shows(t, rs), Becomes(p, [pc |-> "report", result |-> rs, cached |-> TRUE])
      PROVE  Only(p) /\ Fine(p)'
  <2>1. /\ Only(p) /\ DOMAIN proc'[p] = Slots /\ proc'[p].pc = "report" /\ proc'[p].at = me.at
        /\ proc'[p].cmd = me.cmd /\ proc'[p].origin = me.origin /\ proc'[p].tests = me.tests
        /\ proc'[p].result = rs /\ proc'[p].cached
    BY <1>1, <1>4, BecomesIs DEF Inv, Only, Slots
  <2>2. ProcessFits(p)'
    BY <1>1, <2>1 DEF ProcessFits, Running, AtTest, Steps
  <2>3. Held(p)' /\ Kept(p)'
    BY <1>1, <1>2, <2>1 DEF Held, Kept, Stored, OnDisk, Writing
  <2>4. Shown(p)' /\ Judged(p)'
    BY <1>4, <2>1 DEF Shown, Judged, Current
  <2>5. QED  BY <2>1, <2>2, <2>3, <2>4 DEF Fine
<1>5. ASSUME NEW now \in Times, NEW stop \in BOOLEAN,
             LET r == Result(now, "dftcalc", runDftcalc)
             IN  Becomes(p, [pc |-> "store", result |-> {r}, cached |-> FALSE, stop |-> stop,
                             tests |-> [me.tests EXCEPT ![me.at] = addResult(@, r)]])
      PROVE  Only(p) /\ Fine(p)'
  <2> DEFINE r == Result(now, "dftcalc", runDftcalc)
             u == addResult(t, r)
             tests == [me.tests EXCEPT ![me.at] = u]
  <2>1. r.time = now /\ now \in Nat /\ r.failprob = Invalid /\ Invalid \in Int
    BY TestSuiteAssumption DEF Result, runDftcalc, Invalid
  <2>2. ~ isValid(r)
    BY <2>1 DEF isValid, Invalid
  <2>3. Becomes(p, [pc |-> "store", result |-> {r}, cached |-> FALSE, stop |-> stop, tests |-> tests])
    BY <1>5
  <2> HIDE DEF r
  <2>4. IsTest(u) /\ r \in u.results /\ u.uuid = t.uuid
    BY <1>3, <2>1, AddOne
  <2> HIDE DEF u, t
  <2>5. /\ IsTests(tests) /\ DOMAIN tests = DOMAIN me.tests
        /\ \A n \in DOMAIN me.tests : tests[n] = IF n = me.at THEN u ELSE me.tests[n]
    BY <1>1, <2>4, ReplaceOne
  <2> HIDE DEF tests
  <2>6. /\ Only(p) /\ DOMAIN proc'[p] = Slots /\ proc'[p].pc = "store" /\ proc'[p].at = me.at
        /\ proc'[p].cmd = me.cmd /\ proc'[p].origin = me.origin /\ proc'[p].tests = tests
        /\ proc'[p].result = {r}
    BY <1>1, <2>3, BecomesIs DEF Inv, Only, Slots
  <2>7. ProcessFits(p)'
    BY <1>1, <2>5, <2>6 DEF ProcessFits, Running, AtTest, Steps
  <2>8. Held(p)'
    <3>1. \A e \in told[p] : \E n \in DOMAIN tests : n < me.at /\ Says(tests[n], e)
      <4>1. \A n \in DOMAIN me.tests : n < me.at => tests[n] = me.tests[n]
        BY <1>1, <2>5
      <4>2. QED  BY <1>2, <2>5, <4>1
    <3>2. tests[me.at] = u
      BY <1>1, <2>5
    <3>3. QED  BY <1>1, <2>4, <2>6, <3>1, <3>2 DEF Held, Current
  <2>9. Kept(p)'
    BY <1>1, <1>2, <2>6 DEF Kept, Stored, OnDisk, Writing
  <2>10. Shown(p)' /\ Judged(p)'
    BY <2>2, <2>6 DEF Shown, Judged, Shows
  <2>11. QED  BY <2>6, <2>7, <2>8, <2>9, <2>10 DEF Fine
<1>6. QED
  <2> DEFINE valid == getLastValidResult(t, "dftcalc")
  <2>1. CASE valid # {} /\ me.cmd.mode # "f"
    <3>1. Becomes(p, [pc |-> "report", result |-> valid, cached |-> TRUE])
      BY <2>1 DEF RunTest, Current
    <3>2. QED  BY <1>3, <1>4, <3>1, OneNewest
  <2>2. CASE ~ (valid # {} /\ me.cmd.mode # "f") /\ me.cmd.mode = "c"
    <3>1. Becomes(p, [pc |-> "report", result |-> getLastResult(t, "dftcalc"), cached |-> TRUE])
      BY <2>2 DEF RunTest, Current
    <3>2. valid = {}
      BY <2>2
    <3>3. QED  BY <1>3, <1>4, <3>1, <3>2, OneNewest
  <2>3. CASE ~ (valid # {} /\ me.cmd.mode # "f") /\ me.cmd.mode # "c"
    <3>1. \E now \in Times, stop \in BOOLEAN :
             LET r == Result(now, "dftcalc", runDftcalc)
             IN  Becomes(p, [pc |-> "store", result |-> {r}, cached |-> FALSE, stop |-> stop,
                             tests |-> [me.tests EXCEPT ![me.at] = addResult(@, r)]])
      BY <2>3 DEF RunTest, Current
    <3>2. QED  BY <1>5, <3>1
  <2>4. QED  BY <2>1, <2>2, <2>3

\* Of verified values, the one of the first motive counts.
LEMMA FirstValue ==
  ASSUME NEW test, IsTest(test), test.verified # {}
  PROVE  \E v : /\ FirstValues(test) = {v} /\ v.failprob = getVerifiedValue(test)
<1> DEFINE M == {v.motive : v \in test.verified}
<1>1. PICK m \in M : \A k \in M : m <= k
  <2>1. M \subseteq Nat /\ M # {}
    BY DEF IsTest
  <2> HIDE DEF M
  <2>2. QED  BY <2>1, Least
<1>2. PICK v \in test.verified : v.motive = m
  OBVIOUS
<1>3. v \in FirstValues(test)
  BY <1>1, <1>2 DEF FirstValues
<1>4. \A w \in FirstValues(test) : w = v
  <2>1. ASSUME NEW w \in FirstValues(test)  PROVE  w = v
    <3>1. /\ w \in test.verified /\ w.motive <= v.motive /\ v.motive <= w.motive
          /\ w.motive \in Nat /\ v.motive \in Nat
      BY <1>2, <1>3 DEF FirstValues, IsTest
    <3>2. w.motive = v.motive
      BY <3>1
    <3>3. QED  BY <1>2, <3>1, <3>2 DEF IsTest
  <2>2. QED  BY <2>1
<1>5. getVerifiedValue(test) = v.failprob
  <2> DEFINE c == CHOOSE x \in test.verified : \A w \in test.verified : x.motive <= w.motive
  <2>1. c \in FirstValues(test)
    BY <1>3 DEF FirstValues
  <2>2. getVerifiedValue(test) = c.failprob
    BY DEF getVerifiedValue
  <2> HIDE DEF c
  <2>3. QED  BY <1>4, <2>1, <2>2
<1>6. QED  BY <1>3, <1>4, <1>5

\* The value all iterations agree on is that of the last result.
LEMMA AgreedValue ==
  ASSUME NEW test, IsTest(test), test.verified = {},
         NEW r \in getLastValidResult(test, "dftcalc")
  PROVE  getVerifiedValue(test) \in {Invalid, r.failprob}
<1> DEFINE L == getLastResults(test)
           values == {x.failprob : x \in L}
<1>1. r \in L /\ L \subseteq test.results
  <2>1. r \in test.results /\ r.iteration = "dftcalc"
    BY DEF getLastValidResult, Newest, Of
  <2>2. r \in L
    BY <2>1 DEF getLastResults
  <2>3. L \subseteq test.results
    BY DEF getLastResults, getLastValidResult, Newest, Of
  <2>4. QED  BY <2>2, <2>3
<1> HIDE DEF L
<1>2. IsFiniteSet(values)
  <2>1. IsFiniteSet(L)
    BY <1>1, FS_Subset DEF IsTest
  <2> DEFINE g == [x \in L |-> x.failprob]
  <2>2. g \in Surjection(L, values)
    BY DEF Surjection
  <2> HIDE DEF g, values
  <2>3. QED  BY <2>1, <2>2, FS_Surjection
<1>3. CASE Cardinality(values) = 1
  <2>1. r.failprob \in values
    BY <1>1
  <2> HIDE DEF values
  <2>2. values = {r.failprob}
    BY <1>2, <1>3, <2>1, FS_Singleton
  <2>3. getVerifiedValue(test) = CHOOSE v \in values : TRUE
    BY <1>3 DEF getVerifiedValue, values, L
  <2>4. QED  BY <2>2, <2>3
<1>4. CASE Cardinality(values) # 1
  BY <1>4 DEF getVerifiedValue, L
<1>5. QED  BY <1>3, <1>4

\* The verdict of a valid last result.
LEMMA Verdict ==
  ASSUME NEW test, IsTest(test), NEW r \in getLastValidResult(test, "dftcalc"), isValid(r)
  PROVE  verify(test, r) = "FAILED" <=>
           \E v \in FirstValues(test) : v.failprob \notin {Invalid, r.failprob}
<1>1. verify(test, r) = "FAILED" <=> getVerifiedValue(test) \notin {Invalid, r.failprob}
  BY DEF verify
<1>2. CASE test.verified = {}
  BY <1>1, <1>2, AgreedValue DEF FirstValues
<1>3. CASE test.verified # {}
  BY <1>1, <1>3, FirstValue
<1>4. QED  BY <1>2, <1>3

\* Report: what is told is in the test at hand.
LEMMA ReportKeeps ==
  ASSUME Inv, NEW p \in Procs, Report(p)
  PROVE  Only(p) /\ Fine(p)' /\ DOMAIN told' = Procs /\ \A q \in Procs \ {p} : told'[q] = told[q]
<1> DEFINE me == proc[p]
           t == Current(p)
           new == IF me.cached THEN {} ELSE {[uuid |-> t.uuid, result |-> r] : r \in me.result}
<1>1. /\ me.pc = "report" /\ me.cmd \in Commands /\ UNCHANGED <<disk, writer>>
      /\ IsTests(me.tests) /\ me.origin \in SuiteFiles /\ me.at \in DOMAIN me.tests
      /\ me.at \in Nat \ {0}
  BY DEF Report, Inv, Fine, ProcessFits, Running, AtTest
<1>2. /\ \A e \in told[p] : \E n \in DOMAIN me.tests : n < me.at /\ Says(me.tests[n], e)
      /\ \A e \in new : Says(t, e)
  <2>1. /\ \A e \in told[p] : \E n \in DOMAIN me.tests : n < me.at /\ Says(me.tests[n], e)
        /\ ~ me.cached => \A r \in me.result : r \in t.results
    BY <1>1 DEF Inv, Fine, Held, Running
  <2>2. QED  BY <2>1 DEF Says
<1>3. \A f \in SuiteFiles : writer[f] = p =>
        f = me.origin /\ disk[f].form = "ok" /\ \A e \in told[p] \cup new : OnDisk(f, e)
  BY <1>1 DEF Inv, Fine, Kept, Writing
<1>4. told' = [told EXCEPT ![p] = told[p] \cup new] /\ DOMAIN told = Procs
  BY DEF Report, Inv, Shape
<1> HIDE DEF new
<1>5. told'[p] = told[p] \cup new /\ DOMAIN told' = Procs /\ \A q \in Procs \ {p} : told'[q] = told[q]
  BY <1>4
<1> DEFINE v == IF me.result = {} THEN "UNKNOWN" ELSE verify(t, CHOOSE r \in me.result : TRUE)
<1>6. Becomes(p, [pc |-> "save", verdict |-> v])
  BY DEF Report
<1>7. \A r \in me.result : isValid(r) =>
        (v = "FAILED" <=> \E w \in FirstValues(t) : w.failprob \notin {Invalid, r.failprob})
  <2> SUFFICES ASSUME NEW r \in me.result, isValid(r)
               PROVE  v = "FAILED" <=> \E w \in FirstValues(t) : w.failprob \notin {Invalid, r.failprob}
    OBVIOUS
  <2>1. me.result = {r} /\ r \in getLastValidResult(t, "dftcalc")
    BY <1>1 DEF Inv, Fine, Shown, Shows
  <2>2. v = verify(t, r)
    BY <2>1
  <2>3. IsTest(t)
    BY <1>1, IsList DEF Current
  <2> HIDE DEF t, v
  <2>4. QED  BY <2>1, <2>2, <2>3, Verdict
<1> HIDE DEF v
<1>8. /\ Only(p) /\ DOMAIN proc'[p] = Slots /\ proc'[p].pc = "save" /\ proc'[p].at = me.at
      /\ proc'[p].cmd = me.cmd /\ proc'[p].origin = me.origin /\ proc'[p].tests = me.tests
      /\ proc'[p].result = me.result /\ proc'[p].verdict = v
  BY <1>1, <1>6, BecomesIs DEF Inv, Only, Slots
<1>9. ProcessFits(p)'
  BY <1>1, <1>8 DEF ProcessFits, Running, AtTest, Steps
<1>10. Held(p)'
  <2>1. t = me.tests[me.at]
    BY DEF Current
  <2> HIDE DEF t
  <2>2. \A e \in told'[p] : \E n \in DOMAIN me.tests : (n < me.at \/ n = me.at) /\ Says(me.tests[n], e)
    BY <1>1, <1>2, <1>5, <2>1
  <2>3. QED  BY <1>8, <2>2 DEF Held
<1>11. Kept(p)'
  BY <1>1, <1>3, <1>5, <1>8 DEF Kept, OnDisk, Writing
<1>12. Shown(p)' /\ Judged(p)'
  BY <1>7, <1>8 DEF Shown, Judged, Current
<1>13. QED  BY <1>5, <1>8, <1>9, <1>10, <1>11, <1>12 DEF Fine

\* After a suite is saved, or could not be, the process goes on.
LEMMA GoesOn ==
  ASSUME Inv, NEW p \in Procs, Becomes(p, Saved(p)), UNCHANGED told,
         proc[p].pc \in {"store", "storing", "save", "saving"}
  PROVE  /\ Only(p) /\ ProcessFits(p)' /\ Held(p)' /\ Shown(p)' /\ Judged(p)'
         /\ proc'[p].origin = proc[p].origin /\ proc'[p].tests = proc[p].tests
         /\ proc'[p].pc = "report" => /\ proc[p].pc \in {"store", "storing"}
                                      /\ proc'[p].at = proc[p].at
                                      /\ proc'[p].result = proc[p].result
                                      /\ proc'[p].cached = proc[p].cached
<1> DEFINE me == proc[p]
<1>1. /\ me.cmd \in Commands /\ IsTests(me.tests) /\ me.origin \in SuiteFiles
      /\ me.at \in DOMAIN me.tests /\ me.at \in Nat \ {0}
  BY DEF Inv, Fine, ProcessFits, Running, AtTest
<1>2. /\ \A e \in told[p] : \E n \in DOMAIN me.tests :
           /\ n < me.at \/ (n = me.at /\ me.pc \in {"save", "saving"})
           /\ Says(me.tests[n], e)
      /\ me.pc \in {"store", "storing"} /\ ~ me.cached => \A r \in me.result : r \in Current(p).results
      /\ me.pc \in {"store", "storing"} => Shows(Current(p), me.result)
  BY DEF Inv, Fine, Held, Shown, Running
<1>3. CASE me.pc \in {"store", "storing"}
  <2>1. Becomes(p, [pc |-> "report"])
    BY <1>3 DEF Saved
  <2>2. /\ Only(p) /\ DOMAIN proc'[p] = Slots /\ proc'[p].pc = "report" /\ proc'[p].at = me.at
        /\ proc'[p].cmd = me.cmd /\ proc'[p].origin = me.origin /\ proc'[p].tests = me.tests
        /\ proc'[p].result = me.result /\ proc'[p].cached = me.cached
    BY <2>1, BecomesIs DEF Inv, Only, Slots
  <2>3. ProcessFits(p)'
    BY <1>1, <2>2 DEF ProcessFits, Running, AtTest, Steps
  <2>4. Held(p)'
    BY <1>2, <1>3, <2>2 DEF Held, Current
  <2>5. Shown(p)' /\ Judged(p)'
    BY <1>2, <1>3, <2>2 DEF Shown, Judged, Current
  <2>6. QED  BY <1>3, <2>2, <2>3, <2>4, <2>5
<1>4. CASE me.pc \in {"save", "saving"}
  <2> DEFINE next == IF me.stop THEN "end" ELSE "run"
  <2>1. Becomes(p, [pc |-> next, at |-> me.at + 1, result |-> {}])
    BY <1>4 DEF Saved
  <2>2. next \in {"run", "end"}
    OBVIOUS
  <2> HIDE DEF next
  <2>3. /\ Only(p) /\ DOMAIN proc'[p] = Slots /\ proc'[p].pc = next /\ proc'[p].at = me.at + 1
        /\ proc'[p].cmd = me.cmd /\ proc'[p].origin = me.origin /\ proc'[p].tests = me.tests
    BY <2>1, BecomesIs DEF Inv, Only, Slots
  <2>4. ProcessFits(p)'
    BY <1>1, <2>2, <2>3 DEF ProcessFits, Running, AtTest, Steps
  <2>5. Held(p)'
    <3>1. \A n \in DOMAIN me.tests : n < me.at \/ n = me.at => n < me.at + 1
      BY <1>1, IsList
    <3>2. \A e \in told[p] : \E n \in DOMAIN me.tests : n < me.at + 1 /\ Says(me.tests[n], e)
      BY <1>2, <3>1
    <3>3. QED  BY <2>2, <2>3, <3>2 DEF Held
  <2>6. Shown(p)' /\ Judged(p)'
    BY <2>2, <2>3 DEF Shown, Judged
  <2>7. QED  BY <2>2, <2>3, <2>4, <2>5, <2>6
<1>5. QED  BY <1>3, <1>4

\* Where it goes on.
LEMMA SavedIs ==
  ASSUME Shape, NEW p \in Procs, Becomes(p, Saved(p))
  PROVE  proc'[p].pc \in {"report", "run", "end"}
<1>1. "pc" \in DOMAIN Saved(p) /\ Saved(p).pc \in {"report", "run", "end"} /\ "pc" \in Slots
  BY DEF Saved, Slots
<1>2. QED  BY <1>1, BecomesIs

\* CannotSave: the file is not this process's, which never writes there.
LEMMA CannotSaveKeeps ==
  ASSUME Inv, NEW p \in Procs, CannotSave(p)
  PROVE  Only(p) /\ Fine(p)'
<1>1. /\ proc[p].pc \in {"store", "save"} /\ proc[p].origin \in ReadOnly
      /\ UNCHANGED <<told, disk, writer>> /\ Becomes(p, Saved(p))
  BY DEF CannotSave, Saving, Quiet
<1>2. \A f \in SuiteFiles : writer[f] # p
  BY <1>1 DEF Inv, Fine, ProcessFits, NoAccess, Kept
<1>3. Kept(p)'
  BY <1>1, <1>2 DEF Kept
<1>4. QED  BY <1>1, <1>3, GoesOn DEF Fine

\* A file that this process writes, truncates or leaves is of no concern to the
\* others, and is one it may write.
Files(p) ==
  /\ DOMAIN disk' = SuiteFiles /\ DOMAIN writer' = SuiteFiles
  /\ \A f \in SuiteFiles :
        \/ disk'[f] = disk[f] /\ writer'[f] = writer[f]
        \/ IsTests(disk'[f].tests) /\ writer'[f] = Nobody
        \/ IsTests(disk'[f].tests) /\ writer'[f] = p /\ f \notin ReadOnly

\* Open: the file is empty until it is written.
LEMMA OpenKeeps ==
  ASSUME Inv, NEW p \in Procs, Open(p)
  PROVE  Only(p) /\ Fine(p)' /\ Files(p)
<1> DEFINE me == proc[p]
<1>1. /\ me.pc \in {"store", "save"} /\ me.origin \notin ReadOnly /\ UNCHANGED told
      /\ disk' = [disk EXCEPT ![me.origin] = Suite("ok", <<>>)]
      /\ writer' = [writer EXCEPT ![me.origin] = p]
      /\ Becomes(p, [pc |-> Opened[me.pc]])
  BY DEF Open, Saving
<1>2. /\ me.cmd \in Commands /\ IsTests(me.tests) /\ me.origin \in SuiteFiles
      /\ me.at \in DOMAIN me.tests /\ me.at \in Nat \ {0}
      /\ DOMAIN disk = SuiteFiles /\ DOMAIN writer = SuiteFiles
  BY <1>1 DEF Inv, Shape, Fine, ProcessFits, Running, AtTest
<1>3. \/ me.pc = "store" /\ Opened[me.pc] = "storing"
      \/ me.pc = "save" /\ Opened[me.pc] = "saving"
  <2>1. Opened["store"] = "storing" /\ Opened["save"] = "saving"
    BY DEF Opened
  <2>2. QED  BY <1>1, <2>1
<1>4. /\ Only(p) /\ DOMAIN proc'[p] = Slots /\ proc'[p].pc = Opened[me.pc] /\ proc'[p].at = me.at
      /\ proc'[p].cmd = me.cmd /\ proc'[p].origin = me.origin /\ proc'[p].tests = me.tests
      /\ proc'[p].result = me.result /\ proc'[p].cached = me.cached
  BY <1>1, BecomesIs DEF Inv, Only, Slots
<1>5. ProcessFits(p)'
  BY <1>1, <1>2, <1>3, <1>4 DEF ProcessFits, Running, AtTest, Steps
<1>6. Held(p)'
  <2>1. Held(p)
    BY DEF Inv, Fine
  <2>2. QED  BY <1>1, <1>3, <1>4, <2>1 DEF Held, Current, Running
<1>7. Shown(p)' /\ Judged(p)'
  <2>1. Shown(p)
    BY DEF Inv, Fine
  <2>2. QED  BY <1>3, <1>4, <2>1 DEF Shown, Judged, Current
<1>8. Kept(p)'
  <2>1. \A f \in SuiteFiles : writer'[f] = p => f = me.origin
    BY <1>1, <1>2 DEF Inv, Fine, Kept
  <2>2. disk'[me.origin] = Suite("ok", <<>>)
    BY <1>1, <1>2
  <2>3. QED  BY <1>3, <1>4, <2>1, <2>2 DEF Kept, Writing
<1>9. IsTests(Suite("ok", <<>>).tests)
  BY EmptyList DEF Suite
<1>10. Files(p)
  BY <1>1, <1>2, <1>9 DEF Files
<1>11. QED  BY <1>4, <1>5, <1>6, <1>7, <1>8, <1>10 DEF Fine

\* Write: the file holds the tests of the process, and so what it reported.
LEMMA WriteKeeps ==
  ASSUME Inv, NEW p \in Procs, Write(p)
  PROVE  Only(p) /\ Fine(p)' /\ Files(p)
<1> DEFINE me == proc[p]
<1>1. PICK form : /\ disk' = [disk EXCEPT ![me.origin] = Suite(form, me.tests)]
                  /\ disk[me.origin] = Suite("ok", <<>>) => form = "ok"
  BY Zenon DEF Write
<1>2. /\ me.pc \in {"storing", "saving"} /\ UNCHANGED told
      /\ writer' = [writer EXCEPT ![me.origin] = IF writer[me.origin] = p THEN p ELSE Nobody]
      /\ Becomes(p, Saved(p))
  BY DEF Write, Writing
<1>3. /\ IsTests(me.tests) /\ me.origin \in SuiteFiles /\ me.origin \notin ReadOnly
      /\ me.at \in DOMAIN me.tests /\ DOMAIN disk = SuiteFiles /\ DOMAIN writer = SuiteFiles
  BY <1>2 DEF Inv, Shape, Fine, ProcessFits, Running, AtTest
<1>4. /\ \A e \in told[p] : \E n \in DOMAIN me.tests : Says(me.tests[n], e)
      /\ me.pc = "storing" /\ ~ me.cached => \A r \in me.result : r \in Current(p).results
  BY <1>2 DEF Inv, Fine, Held, Running
<1>5. Files(p)
  <2>1. Suite(form, me.tests).tests = me.tests
    BY DEF Suite
  <2>2. QED  BY <1>1, <1>2, <1>3, <2>1 DEF Files
<1>6. /\ proc'[p].pc \in {"report", "run", "end"}
      /\ proc'[p].origin = me.origin /\ proc'[p].tests = me.tests
      /\ proc'[p].pc = "report" => /\ me.pc = "storing" /\ proc'[p].at = me.at
                                   /\ proc'[p].result = me.result /\ proc'[p].cached = me.cached
  BY <1>2, GoesOn, SavedIs DEF Inv
<1>7. ASSUME NEW f \in SuiteFiles, writer'[f] = p
      PROVE  /\ f = me.origin /\ disk'[f].form = "ok"
             /\ \A e \in told[p] : OnDisk(f, e)'
             /\ me.pc = "storing" /\ ~ me.cached => \A r \in me.result :
                  \E t \in Range(disk'[f].tests) : Says(t, [uuid |-> me.tests[me.at].uuid, result |-> r])
  <2>1. f = me.origin /\ writer[f] = p
    BY <1>2, <1>3, <1>7, TestSuiteAssumption DEF Inv, Fine, Kept
  <2>2. form = "ok"
    BY <1>1, <1>2, <2>1 DEF Inv, Fine, Kept, Writing
  <2>3. disk'[f].form = "ok" /\ Range(disk'[f].tests) = {me.tests[n] : n \in DOMAIN me.tests}
    BY <1>1, <1>3, <2>1, <2>2 DEF Suite, Range
  <2>4. \A e \in told[p] : OnDisk(f, e)'
    BY <1>2, <1>4, <2>3 DEF OnDisk
  <2>5. ASSUME me.pc = "storing", ~ me.cached, NEW r \in me.result
        PROVE  \E t \in Range(disk'[f].tests) : Says(t, [uuid |-> me.tests[me.at].uuid, result |-> r])
    BY <1>3, <1>4, <2>3, <2>5 DEF Current, Says
  <2>6. QED  BY <2>1, <2>3, <2>4, <2>5
<1>8. Kept(p)'
  BY <1>2, <1>6, <1>7 DEF Kept, Writing, OnDisk, Current
<1>9. QED  BY <1>2, <1>5, <1>8, GoesOn DEF Fine

\* A process that is started, leaves or is killed has a state of its own.
LEMMA StartKeeps ==
  ASSUME Inv, NEW p \in Procs, NEW cmd \in Commands, Start(p, cmd)
  PROVE  /\ Only(p) /\ Fine(p)' /\ Files(p)
         /\ DOMAIN told' = Procs /\ \A q \in Procs \ {p} : told'[q] = told[q]
<1>1. /\ proc' = [proc EXCEPT ![p] = Process("load", cmd, 1)]
      /\ told' = [told EXCEPT ![p] = {}] /\ DOMAIN told = Procs
      /\ writer' = [f \in SuiteFiles |-> IF writer[f] = p THEN Nobody ELSE writer[f]]
      /\ disk' = disk /\ DOMAIN disk = SuiteFiles /\ \A f \in SuiteFiles : IsTests(disk[f].tests)
  BY DEF Start, Inv, Shape
<1>2. Only(p) /\ proc'[p].pc = "load" /\ ProcessFits(p)'
  <2>1. "load" \in Steps \ Running /\ 1 \in Nat \ {0} /\ Shape
    BY DEF Steps, Running, Inv
  <2>2. QED  BY <1>1, <2>1, Restarts DEF Only
<1>3. told'[p] = {} /\ DOMAIN told' = Procs /\ \A q \in Procs \ {p} : told'[q] = told[q]
  BY <1>1
<1>4. Files(p) /\ \A f \in SuiteFiles : writer'[f] # p
  BY <1>1, TestSuiteAssumption DEF Files
<1>5. QED  BY <1>2, <1>3, <1>4 DEF Fine, Held, Kept, Shown, Judged, Running

\* Exit, Killed: the process is as at first.
LEMMA LeaveKeeps ==
  ASSUME Inv, NEW p \in Procs, Leave(p)
  PROVE  /\ Only(p) /\ proc'[p].pc = "idle"
         /\ ProcessFits(p)' /\ Held(p)' /\ Shown(p)' /\ Judged(p)'
<1>1. proc' = [proc EXCEPT ![p] = Process("idle", CHOOSE c \in Commands : TRUE, 0)]
  BY DEF Leave, Resting
<1>2. Only(p) /\ proc'[p].pc = "idle" /\ ProcessFits(p)'
  BY <1>1, Restarts DEF Inv, Only, Steps, Running
<1>3. QED  BY <1>2 DEF Held, Shown, Judged, Running

\* What was stored stays so when the process leaves between two writes.
LEMMA LeftBehind ==
  ASSUME Inv, NEW p \in Procs, ~ Writing(p), Leave(p), UNCHANGED <<disk, told, writer>>
  PROVE  Only(p) /\ Fine(p)'
<1>1. proc'[p].pc = "idle"
  BY LeaveKeeps
<1>2. Kept(p)'
  BY <1>1 DEF Inv, Fine, Kept, OnDisk, Writing
<1>3. QED  BY <1>2, LeaveKeeps DEF Fine

\* Exit: the file stays.
LEMMA ExitKeeps ==
  ASSUME Inv, NEW p \in Procs, Exit(p)
  PROVE  Only(p) /\ Fine(p)'
BY LeftBehind DEF Exit, Done, Writing, Quiet

\* A test that is only partly written is a test.
LEMMA PartIsTest ==
  ASSUME NEW t, IsTest(t), NEW u \in Parts(t)
  PROVE  IsTest(u)
<1> DEFINE earliest == {R \in SUBSET t.results :
                          \A r \in R, s \in t.results : s.time < r.time => s \in R}
           first == {V \in SUBSET t.verified :
                          \A v \in V, w \in t.verified : w.motive < v.motive => w \in V}
           cut == [t EXCEPT !.file = NoFile, !.verified = {}]
           Less == /\ DOMAIN u = DOMAIN t
                   /\ u.results \subseteq t.results /\ u.verified \subseteq t.verified
<1>1. DOMAIN cut = DOMAIN t /\ cut.verified = {} /\ cut.results = t.results
  BY DEF IsTest
<1>2. \/ \E n \in {"", t.name} : u = [cut EXCEPT !.name = n, !.uuid = 0, !.had = FALSE, !.results = {}]
      \/ \E R \in earliest : u = [cut EXCEPT !.results = R]
      \/ \E V \in first : u = [cut EXCEPT !.verified = V]
      \/ u = t
  BY DEF Parts
<1>3. Less
  <2> HIDE DEF cut
  <2>1. ASSUME NEW n, u = [cut EXCEPT !.name = n, !.uuid = 0, !.had = FALSE, !.results = {}]
        PROVE  Less
    BY <1>1, <2>1 DEF IsTest
  <2>2. ASSUME NEW R \in SUBSET t.results, u = [cut EXCEPT !.results = R]
        PROVE  Less
    BY <1>1, <2>2 DEF IsTest
  <2>3. ASSUME NEW V \in SUBSET t.verified, u = [cut EXCEPT !.verified = V]
        PROVE  Less
    BY <1>1, <2>3 DEF IsTest
  <2>4. earliest \subseteq SUBSET t.results /\ first \subseteq SUBSET t.verified
    OBVIOUS
  <2> HIDE DEF earliest, first
  <2>5. QED  BY <1>2, <2>1, <2>2, <2>3, <2>4
<1> HIDE DEF cut, earliest, first
<1>4. IsFiniteSet(u.results)
  BY <1>3, FS_Subset DEF IsTest
<1>5. QED  BY <1>3, <1>4 DEF IsTest

\* The beginning of a file is a list of tests too.
LEMMA BeginningsFit ==
  ASSUME NEW ts, IsTests(ts), NEW us \in Beginnings(ts)
  PROVE  IsTests(us)
<1>1. PICK n \in DOMAIN ts : \E t \in Parts(ts[n]) : us = [SubSeq(ts, 1, n) EXCEPT ![n] = t]
  BY Zenon DEF Beginnings
<1>2. PICK t \in Parts(ts[n]) : us = [SubSeq(ts, 1, n) EXCEPT ![n] = t]
  BY <1>1
<1>3. IsTest(t)
  BY IsList, PartIsTest
<1> DEFINE vs == SubSeq(ts, 1, n)
<1>4. IsTests(vs) /\ n \in DOMAIN vs
  BY Beginning
<1> HIDE DEF vs
<1>5. IsTests([vs EXCEPT ![n] = t])
  BY <1>3, <1>4, ReplaceOne
<1>6. QED  BY <1>2, <1>5 DEF vs

\* Killed: between two writes the file stays; else it is nobody's, and a list of
\* tests for all that is missing.
LEMMA KilledKeeps ==
  ASSUME Inv, NEW p \in Procs, Killed(p)
  PROVE  Only(p) /\ Fine(p)' /\ Files(p)
<1> DEFINE me == proc[p]
<1>1. /\ Leave(p) /\ DOMAIN disk = SuiteFiles /\ DOMAIN writer = SuiteFiles /\ UNCHANGED told
      /\ IsTests(me.tests) /\ me.origin \in SuiteFiles /\ me.pc # "idle"
      /\ \A f \in SuiteFiles : IsTests(disk[f].tests)
      /\ \A f \in SuiteFiles : writer[f] = p => f = me.origin
  BY DEF Killed, Inv, Shape, Fine, ProcessFits, Kept
<1>2. CASE ~ Writing(p)
  <2>1. disk' = disk /\ writer' = writer
    BY <1>2 DEF Killed
  <2>2. Files(p)
    BY <1>1, <2>1 DEF Files
  <2>3. QED  BY <1>1, <1>2, <2>1, <2>2, LeftBehind
<1>3. CASE Writing(p)
  <2>1. \A f \in SuiteFiles : \/ disk'[f] = disk[f] /\ writer'[f] = writer[f] /\ writer[f] # p
                              \/ IsTests(disk'[f].tests) /\ writer'[f] = Nobody
    <3>1. CASE disk' = disk /\ writer[me.origin] # p
      <4>1. writer' = writer
        BY <3>1 DEF Killed
      <4>2. QED  BY <1>1, <3>1, <4>1
    <3>2. CASE ~ (disk' = disk /\ writer[me.origin] # p)
      <4>1. writer' = [writer EXCEPT ![me.origin] = Nobody]
        BY <1>3, <3>2 DEF Killed
      <4>2. disk' = disk \/ \E suite : disk' = [disk EXCEPT ![me.origin] = suite] /\ IsTests(suite.tests)
        <5>1. CASE disk' # disk
          <6>1. PICK suite \in {Suite("ok", ts) : ts \in Beginnings(me.tests)} \cup {Suite("torn", me.tests)} :
                  disk' = [disk EXCEPT ![me.origin] = suite]
            BY <5>1, Zenon DEF Killed
          <6>2. IsTests(suite.tests)
            BY <1>1, <6>1, BeginningsFit DEF Suite
          <6>3. QED  BY <6>1, <6>2
        <5>2. QED  BY <5>1
      <4>3. QED  BY <1>1, <4>1, <4>2
    <3>3. QED  BY <3>1, <3>2
  <2>2. DOMAIN disk' = SuiteFiles
    BY <1>1 DEF Killed
  <2>3. DOMAIN writer' = SuiteFiles
    BY <1>1 DEF Killed
  <2>4. Files(p)
    BY <2>1, <2>2, <2>3 DEF Files
  <2>5. \A f \in SuiteFiles : writer'[f] # p
    BY <2>1, TestSuiteAssumption
  <2>6. Kept(p)'
    BY <2>5 DEF Kept
  <2>7. QED  BY <1>1, <2>4, <2>6, LeaveKeeps DEF Fine
<1>4. QED  BY <1>2, <1>3

\* What the others rely on.
LEMMA OthersKeep ==
  ASSUME Inv, NEW p \in Procs, NEW q \in Procs \ {p}, proc'[q] = proc[q], told'[q] = told[q],
         Files(p)
  PROVE  Fine(q)'
<1>1. /\ Fine(q)
      /\ \A f \in SuiteFiles : writer'[f] = q => disk'[f] = disk[f] /\ writer[f] = q
  BY TestSuiteAssumption DEF Inv, Files
<1>2. ProcessFits(q)' /\ Held(q)' /\ Shown(q)' /\ Judged(q)'
  BY <1>1 DEF Fine, ProcessFits, Held, Shown, Judged, Current
<1>3. Kept(q)'
  BY <1>1 DEF Fine, Kept, OnDisk, Current, Writing
<1>4. QED  BY <1>2, <1>3 DEF Fine

\* At first no process runs.
LEMMA InitFine ==
  ASSUME Init
  PROVE  Inv
<1>1. /\ DOMAIN proc = Procs /\ DOMAIN told = Procs
      /\ DOMAIN writer = SuiteFiles /\ \A f \in SuiteFiles : writer[f] = Nobody
      /\ \A p \in Procs : proc[p] = Resting /\ told[p] = {}
  BY DEF Init
<1>2. DOMAIN disk = SuiteFiles /\ \A f \in SuiteFiles : IsTests(disk[f].tests)
  BY TestSuiteAssumption DEF Init
<1>3. (CHOOSE f \in SuiteFiles : TRUE) \in SuiteFiles
  BY TestSuiteAssumption
<1>4. \A p \in Procs : proc[p].pc = "idle" /\ ProcessFits(p)
  BY <1>1, <1>3, EmptyList
     DEF Resting, Process, ProcessFits, Slots, Steps, Running, AtTest
<1>5. NoAccess /\ \A p \in Procs, f \in SuiteFiles : writer[f] # p
  BY <1>1, TestSuiteAssumption DEF NoAccess
<1>6. \A p \in Procs : Fine(p)
  BY <1>4, <1>5 DEF Fine, Held, Kept, Shown, Judged, Running
<1>7. QED  BY <1>1, <1>2, <1>4, <1>5, <1>6 DEF Inv, Shape

\* One step of one process: its own part, and what the others rely on.
LEMMA StepKeeps ==
  ASSUME Inv, [Next]_vars
  PROVE  Inv'
<1>1. ASSUME NEW p \in Procs, Only(p), Fine(p)', Files(p),
             DOMAIN told' = Procs, \A q \in Procs \ {p} : told'[q] = told[q]
      PROVE  Inv'
  <2>1. \A q \in Procs : Fine(q)'
    BY <1>1, OthersKeep DEF Only
  <2>2. \A f \in SuiteFiles : IsTests(disk'[f].tests)
    BY <1>1 DEF Inv, Shape, Files
  <2>3. Shape'
    BY <1>1, <2>1, <2>2 DEF Shape, Fine, Only, Files
  <2>4. NoAccess'
    BY <1>1, TestSuiteAssumption DEF Inv, NoAccess, Files
  <2>5. QED  BY <1>1, <2>1, <2>3, <2>4 DEF Inv
<1>2. ASSUME NEW p \in Procs, Only(p), Fine(p)', UNCHANGED <<disk, writer>>,
             DOMAIN told' = Procs, \A q \in Procs \ {p} : told'[q] = told[q]
      PROVE  Inv'
  <2>1. Files(p)
    BY <1>2 DEF Inv, Shape, Files
  <2>2. QED  BY <1>1, <1>2, <2>1
<1>3. ASSUME NEW p \in Procs, Only(p), Fine(p)', UNCHANGED <<disk, writer, told>>
      PROVE  Inv'
  <2>1. DOMAIN told' = Procs /\ \A q \in Procs \ {p} : told'[q] = told[q]
    BY <1>3 DEF Inv, Shape
  <2>2. QED  BY <1>2, <1>3, <2>1
<1>4. ASSUME NEW p \in Procs, Open(p) \/ Write(p) \/ Killed(p)
      PROVE  Inv'
  <2>1. DOMAIN told' = Procs /\ \A q \in Procs \ {p} : told'[q] = told[q]
    BY <1>4 DEF Open, Write, Killed, Inv, Shape
  <2>2. CASE Open(p)
    BY <1>1, <2>1, <2>2, OpenKeeps
  <2>3. CASE Write(p)
    BY <1>1, <2>1, <2>3, WriteKeeps
  <2>4. CASE Killed(p)
    BY <1>1, <2>1, <2>4, KilledKeeps
  <2>5. QED  BY <1>4, <2>2, <2>3, <2>4
<1>5. ASSUME NEW p \in Procs, NEW c \in Commands, Start(p, c)
      PROVE  Inv'
  BY <1>1, <1>5, StartKeeps
<1>6. ASSUME NEW p \in Procs, Report(p)
      PROVE  Inv'
  <2>1. UNCHANGED <<disk, writer>>
    BY <1>6 DEF Report
  <2>2. QED  BY <1>2, <1>6, <2>1, ReportKeeps
<1>7. ASSUME NEW p \in Procs, NEW f \in SuiteFiles, createTestFile(p, f)
      PROVE  Inv'
  <2>1. UNCHANGED <<disk, writer, told>>
    BY <1>7 DEF createTestFile, Quiet
  <2>2. QED  BY <1>3, <1>7, <2>1, CreateKeeps
<1>8. ASSUME NEW p \in Procs,
             Load(p) \/ AddAndLimit(p) \/ NextTest(p) \/ RunTest(p) \/ CannotSave(p) \/ Exit(p)
      PROVE  Inv'
  <2>1. UNCHANGED <<disk, writer, told>>
    BY <1>8 DEF Load, AddAndLimit, NextTest, RunTest, CannotSave, Exit, Quiet
  <2>2. Only(p) /\ Fine(p)'
    BY <1>8, LoadKeeps, AddKeeps, NextTestKeeps, RunKeeps, CannotSaveKeeps, ExitKeeps
  <2>3. QED  BY <1>3, <2>1, <2>2
<1>9. CASE UNCHANGED vars
  <2>1. UNCHANGED <<disk, proc, told, writer>>
    BY <1>9 DEF vars
  <2>2. QED
    BY <2>1 DEF Inv, Shape, NoAccess, Fine, ProcessFits, Held, Kept, Shown, Judged, OnDisk, Current,
                Writing
<1>10. QED  BY <1>4, <1>5, <1>6, <1>7, <1>8, <1>9 DEF Next

-----------------------------------------------------------------------------
(* What it means for the user *)

\* For any number of processes, commands and suites: every process works on tests
\* that are there, and what it reported is in the file that it alone has written.
THEOREM DriverFits == Spec => []Inv
<1>1. Init => Inv
  BY InitFine
<1>2. Inv /\ [Next]_vars => Inv'
  BY StepKeeps
<1>3. QED  BY <1>1, <1>2, PTL DEF Spec

\* As soon as a process has written a suite in full, and until it opens the file
\* anew or any other process writes it, the file can be read and holds every fresh
\* result that the process has reported, also when the process is gone.  Of the time
\* from opening the file to the end of a write, and of a kill in it, nothing is said.
THEOREM ReportsAreStored == Spec => []ReportedIsStored
<1>1. Inv => ReportedIsStored
  BY DEF Inv, Fine, Kept, ReportedIsStored, OnDisk, Says
<1>2. QED  BY <1>1, DriverFits, PTL

\* A valid result is reported as failed exactly when the first value verified by
\* hand is known and differs.
THEOREM VerdictsAreRight == Spec => []VerdictIsRight
<1>1. Inv => VerdictIsRight
  BY DEF Inv, Fine, Judged, VerdictIsRight, FirstValues
<1>2. QED  BY <1>1, DriverFits, PTL

-----------------------------------------------------------------------------
(* Merging loses nothing *)

\* A test as it is read.
LEMMA ReadNode ==
  ASSUME NEW t, NEW n, Readable(t)
  PROVE  LET u == readYAMLNode(t, n)
         IN  /\ u.name = t.name /\ u.results = t.results
             /\ (u.had <=> t.uuid # 0) /\ (u.had => u.uuid = t.uuid)
             /\ u.verified \subseteq t.verified /\ (t.format = 1 => u.verified = t.verified)
<1> DEFINE u == readYAMLNode(t, n)
<1>1. /\ u.name = t.name /\ u.results = t.results
      /\ u.uuid = IF t.uuid = 0 THEN generateUUID(n) ELSE t.uuid
      /\ u.verified = IF t.format = 0 THEN {} ELSE t.verified
  BY DEF readYAMLNode
<1>2. u.had <=> t.uuid # 0
  BY Zenon DEF readYAMLNode
<1> HIDE DEF u
<1>3. QED  BY <1>1, <1>2 DEF u

\* Of a test in a later format nothing is read that could be found again.
LEMMA UnreadNode ==
  ASSUME NEW t, NEW n, ~ Readable(t)
  PROVE  LET u == readYAMLNode(t, n)
         IN  u.name = "" /\ u.results = {} /\ u.verified = {} /\ ~ u.had
BY DEF readYAMLNode, NewTest

\* Two tests in one.
LEMMA MergedTest ==
  ASSUME NEW a, IsTest(a), NEW b, IsTest(b)
  PROVE  LET u == append(a, b)
         IN  /\ u.name = a.name /\ u.uuid = a.uuid /\ u.had = a.had
             /\ u.results = a.results \cup {r \in b.results : \A s \in a.results : s.time # r.time}
             /\ u.verified = a.verified \cup {v \in b.verified : \A w \in a.verified : w.motive # v.motive}
<1> DEFINE V == a.verified \cup {v \in b.verified : \A w \in a.verified : w.motive # v.motive}
           R == a.results \cup {r \in b.results : \A s \in a.results : s.time # r.time}
           c == appendVerified(a, b)
<1>1. /\ DOMAIN c = DOMAIN a /\ c.verified = V /\ c.results = a.results
      /\ c.name = a.name /\ c.uuid = a.uuid /\ c.had = a.had
  <2>1. c = [a EXCEPT !.verified = V]
    BY DEF appendVerified
  <2> HIDE DEF c, V
  <2>2. QED  BY <2>1 DEF IsTest
<1>2. append(a, b) = [c EXCEPT !.results = R]
  <2>1. append(a, b) = [c EXCEPT !.results = c.results \cup {r \in b.results : \A s \in c.results : s.time # r.time}]
    BY DEF append
  <2> HIDE DEF c
  <2>2. QED  BY <1>1, <2>1
<1> DEFINE u == append(a, b)
<1>3. u.name = a.name /\ u.uuid = a.uuid /\ u.had = a.had /\ u.results = R /\ u.verified = V
  <2> HIDE DEF V, R, c
  <2>1. QED  BY <1>1, <1>2 DEF IsTest
<1> HIDE DEF u
<1>4. QED  BY <1>3 DEF u

\* Of the first m tests of a file, test t stands for the n-th.
Stands(R, m, n, t) ==
  LET twins == {k \in 1..m \ {n} : Readable(R[k]) /\ OneTest(R[k], t)} IN
  /\ OneTest(R[n], t)
  /\ \A r \in R[n].results : r \in t.results \/ \E k \in twins : \E s \in R[k].results : s.time = r.time
  /\ R[n].format = 1 => \A v \in R[n].verified :
        v \in t.verified \/ \E k \in twins : \E w \in R[k].verified : w.motive = v.motive

\* What test t holds is from tests that count as one with it, unless nothing can.
Stems(R, m, t) ==
  LET sources == {k \in 1..m : (Readable(R[k]) /\ OneTest(R[k], t)) \/ (t.name = "" /\ ~ t.had)} IN
  /\ \A s \in t.results : \E k \in sources : s \in R[k].results
  /\ \A w \in t.verified : \E k \in sources : w \in R[k].verified

\* The list ts into which the first m tests of R are merged.
Gathers(R, m, ts) ==
  /\ \A n \in 1..m : Identified(R[n]) => \E j \in DOMAIN ts : Stands(R, m, n, ts[j])
  /\ \A j \in DOMAIN ts : Stems(R, m, ts[j])

\* A test goes on standing for another when more are read.
LEMMA StandsMore ==
  ASSUME NEW R, NEW m \in Nat, NEW n, NEW t, Stands(R, m, n, t)
  PROVE  Stands(R, m + 1, n, t)
<1>1. 1..m \subseteq 1..m + 1
  OBVIOUS
<1>2. QED  BY <1>1 DEF Stands

\* And what it holds goes on being from where it was.
LEMMA StemsMore ==
  ASSUME NEW R, NEW m \in Nat, NEW t, Stems(R, m, t)
  PROVE  Stems(R, m + 1, t)
<1>1. 1..m \subseteq 1..m + 1
  OBVIOUS
<1>2. QED  BY <1>1 DEF Stems

\* A test is new to the list.
LEMMA FirstOfItsKind ==
  ASSUME NEW R, NEW m \in Nat
  PROVE  LET t == readYAMLNode(R[m + 1], m + 1)
         IN  /\ Identified(R[m + 1]) => Stands(R, m + 1, m + 1, t)
             /\ Stems(R, m + 1, t)
<1> DEFINE t == readYAMLNode(R[m + 1], m + 1)
<1>1. CASE Readable(R[m + 1])
  <2>1. /\ t.name = R[m + 1].name /\ t.results = R[m + 1].results
        /\ (t.had <=> R[m + 1].uuid # 0) /\ (t.had => t.uuid = R[m + 1].uuid)
        /\ t.verified \subseteq R[m + 1].verified
        /\ R[m + 1].format = 1 => t.verified = R[m + 1].verified
    BY <1>1, ReadNode
  <2> HIDE DEF t
  <2>2. OneTest(R[m + 1], t) \/ (t.name = "" /\ ~ t.had)
    BY <2>1 DEF OneTest
  <2>3. Identified(R[m + 1]) => OneTest(R[m + 1], t)
    BY <2>1 DEF OneTest, Identified
  <2>4. m + 1 \in 1..m + 1
    OBVIOUS
  <2>5. Identified(R[m + 1]) => Stands(R, m + 1, m + 1, t)
    BY <2>1, <2>3 DEF Stands
  <2>6. Stems(R, m + 1, t)
    BY <1>1, <2>1, <2>2, <2>4 DEF Stems
  <2>7. QED  BY <2>5, <2>6 DEF t
<1>2. CASE ~ Readable(R[m + 1])
  <2>1. t.results = {} /\ t.verified = {}
    BY <1>2, UnreadNode
  <2> HIDE DEF t
  <2>2. Stems(R, m + 1, t) /\ ~ Identified(R[m + 1])
    BY <1>2, <2>1 DEF Stems, Identified
  <2>3. QED  BY <2>2 DEF t
<1>3. QED  BY <1>1, <1>2

\* A test is merged with one in the list.
LEMMA MergedWith ==
  ASSUME NEW R, NEW m \in Nat, NEW a, IsTest(a), Stems(R, m, a),
         IsTest(readYAMLNode(R[m + 1], m + 1)), Same(readYAMLNode(R[m + 1], m + 1), a)
  PROVE  LET u == append(a, readYAMLNode(R[m + 1], m + 1))
         IN  /\ Stands(R, m + 1, m + 1, u) /\ Stems(R, m + 1, u)
             /\ \A n \in 1..m : Stands(R, m, n, a) => Stands(R, m + 1, n, u)
<1> DEFINE t == readYAMLNode(R[m + 1], m + 1)
           u == append(a, t)
<1>0. Readable(R[m + 1])
  BY UnreadNode DEF Same
<1>1. /\ t.name = R[m + 1].name /\ t.results = R[m + 1].results
      /\ (t.had <=> R[m + 1].uuid # 0) /\ (t.had => t.uuid = R[m + 1].uuid)
      /\ t.verified \subseteq R[m + 1].verified
      /\ R[m + 1].format = 1 => t.verified = R[m + 1].verified
  BY <1>0, ReadNode
<1>2. IsTest(t) /\ Same(t, a)
  OBVIOUS
<1> HIDE DEF t
<1>3. /\ u.name = a.name /\ u.uuid = a.uuid /\ u.had = a.had
      /\ u.results = a.results \cup {r \in t.results : \A s \in a.results : s.time # r.time}
      /\ u.verified = a.verified \cup {v \in t.verified : \A w \in a.verified : w.motive # v.motive}
  BY <1>2, MergedTest
<1> HIDE DEF u
<1>4. \A b : OneTest(b, u) <=> OneTest(b, a)
  BY <1>3 DEF OneTest
<1>5. OneTest(R[m + 1], a) /\ ~ (a.name = "" /\ ~ a.had)
  BY <1>1, <1>2 DEF Same, OneTest
<1>6. \A k \in 1..m : k \in 1..m + 1 /\ k # m + 1
  OBVIOUS
<1>7. /\ \A s \in a.results : \E k \in 1..m : Readable(R[k]) /\ OneTest(R[k], a) /\ s \in R[k].results
      /\ \A w \in a.verified : \E k \in 1..m : Readable(R[k]) /\ OneTest(R[k], a) /\ w \in R[k].verified
  BY <1>5 DEF Stems
<1>8. Stands(R, m + 1, m + 1, u)
  <2>1. \A r \in R[m + 1].results : r \in u.results \/ \E s \in a.results : s.time = r.time
    BY <1>1, <1>3
  <2>2. R[m + 1].format = 1 =>
          \A v \in R[m + 1].verified : v \in u.verified \/ \E w \in a.verified : w.motive = v.motive
    BY <1>1, <1>3
  <2>3. QED  BY <1>4, <1>5, <1>6, <1>7, <2>1, <2>2 DEF Stands
<1>9. Stems(R, m + 1, u)
  <2>1. m + 1 \in 1..m + 1
    OBVIOUS
  <2>2. OneTest(R[m + 1], u)
    BY <1>4, <1>5, Zenon
  <2>3. \A s \in u.results : s \in a.results \/ s \in R[m + 1].results
    BY <1>1, <1>3
  <2>4. \A w \in u.verified : w \in a.verified \/ w \in R[m + 1].verified
    BY <1>1, <1>3
  <2>5. QED  BY <1>0, <1>4, <1>6, <1>7, <2>1, <2>2, <2>3, <2>4 DEF Stems
<1>10. ASSUME NEW n \in 1..m, Stands(R, m, n, a)  PROVE  Stands(R, m + 1, n, u)
  BY <1>3, <1>4, <1>6, <1>10 DEF Stands
<1>11. QED  BY <1>8, <1>9, <1>10 DEF u, t

\* One more test is merged.
LEMMA GathersOneMore ==
  ASSUME NEW R, NEW m \in Nat, NEW ts, IsTests(ts), Gathers(R, m, ts),
         IsTest(readYAMLNode(R[m + 1], m + 1))
  PROVE  Gathers(R, m + 1, Merged(ts, readYAMLNode(R[m + 1], m + 1)))
<1> DEFINE t == readYAMLNode(R[m + 1], m + 1)
           same == {n \in DOMAIN ts : Same(t, ts[n])}
           us == Merged(ts, t)
<1>1. \A n \in 1..m + 1 : n = m + 1 \/ n \in 1..m
  OBVIOUS
<1>2. ts \in Seq(Range(ts)) /\ Len(ts) \in Nat /\ DOMAIN ts = 1..Len(ts)
      /\ \A n \in DOMAIN ts : IsTest(ts[n])
  BY IsList
<1>3. CASE same = {}
  <2>1. us = Append(ts, t)
    BY <1>3 DEF Merged
  <2> DEFINE l == Len(ts) + 1
  <2>2. /\ DOMAIN us = 1..l /\ us[l] = t /\ l \in 1..l
        /\ \A j \in DOMAIN ts : j \in DOMAIN us /\ us[j] = ts[j]
        /\ \A j \in 1..l : j = l \/ j \in DOMAIN ts
    BY <1>2, <2>1
  <2>3. /\ Identified(R[m + 1]) => Stands(R, m + 1, m + 1, t)
        /\ Stems(R, m + 1, t)
    BY FirstOfItsKind
  <2> HIDE DEF l, us, t
  <2>4. ASSUME NEW n \in 1..m, Identified(R[n])  PROVE  \E j \in DOMAIN us : Stands(R, m + 1, n, us[j])
    <3>1. PICK j \in DOMAIN ts : Stands(R, m, n, ts[j])
      BY <2>4 DEF Gathers
    <3>2. QED  BY <2>2, <3>1, StandsMore
  <2>5. \A j \in DOMAIN us : Stems(R, m + 1, us[j])
    <3>1. \A j \in DOMAIN ts : Stems(R, m + 1, ts[j])
      BY StemsMore DEF Gathers
    <3>2. QED  BY <2>2, <2>3, <3>1
  <2>6. Identified(R[m + 1]) => \E j \in DOMAIN us : Stands(R, m + 1, m + 1, us[j])
    BY <2>2, <2>3
  <2>7. QED  BY <1>1, <2>4, <2>5, <2>6 DEF Gathers, us, t
<1>4. CASE same # {}
  <2> DEFINE i == Min(same)
             u == append(ts[i], t)
  <2>1. i \in same
    <3>1. same \subseteq Nat
      BY <1>2
    <3> HIDE DEF same
    <3>2. QED  BY <1>4, <3>1, MinIsIn
  <2>2. us = [ts EXCEPT ![i] = u]
    BY <1>4 DEF Merged
  <2>3. i \in DOMAIN ts /\ IsTest(ts[i]) /\ Same(t, ts[i])
    BY <1>2, <2>1
  <2> HIDE DEF same, i
  <2>4. /\ Stands(R, m + 1, m + 1, u) /\ Stems(R, m + 1, u)
        /\ \A n \in 1..m : Stands(R, m, n, ts[i]) => Stands(R, m + 1, n, u)
    BY <2>3, MergedWith DEF Gathers
  <2> HIDE DEF u, us, t
  <2>5. DOMAIN us = DOMAIN ts /\ us[i] = u /\ \A j \in DOMAIN ts \ {i} : us[j] = ts[j]
    BY <1>2, <2>2, <2>3
  <2>6. ASSUME NEW n \in 1..m, Identified(R[n])  PROVE  \E j \in DOMAIN us : Stands(R, m + 1, n, us[j])
    <3>1. PICK j \in DOMAIN ts : Stands(R, m, n, ts[j])
      BY <2>6 DEF Gathers
    <3>2. CASE j = i
      BY <2>3, <2>4, <2>5, <3>1, <3>2
    <3>3. CASE j # i
      BY <2>5, <3>1, <3>3, StandsMore
    <3>4. QED  BY <3>2, <3>3
  <2>7. \A j \in DOMAIN us : Stems(R, m + 1, us[j])
    <3>1. \A j \in DOMAIN ts : Stems(R, m + 1, ts[j])
      BY StemsMore DEF Gathers
    <3>2. QED  BY <2>4, <2>5, <3>1
  <2>8. QED  BY <1>1, <2>3, <2>4, <2>5, <2>6, <2>7 DEF Gathers, us, t
<1>5. QED  BY <1>3, <1>4

\* What a suite is read into.
LEMMA ReadGathers ==
  ASSUME NEW s, IsTests(s.tests)
  PROVE  Gathers(s.tests, Len(s.tests), mergeTestLists(<<>>, loadTests(s)))
<1> DEFINE R == s.tests
           tba == loadTests(s)
           l == Len(R)
<1>1. DOMAIN R = 1..l /\ l \in Nat /\ \A n \in 1..l : IsTest(R[n])
  BY IsList
<1>2. /\ Len(tba) = l
      /\ \A n \in 1..l : tba[n] = readYAMLNode(R[n], n) /\ IsTest(tba[n])
  <2>1. tba = [n \in 1..l |-> readYAMLNode(R[n], n)]
    BY <1>1 DEF loadTests
  <2>2. IsTests(tba)
    BY LoadedList
  <2>3. DOMAIN tba = 1..l /\ \A n \in 1..l : tba[n] = readYAMLNode(R[n], n)
    BY <2>1
  <2> HIDE DEF tba, R, l
  <2>4. Len(tba) = l
    BY <1>1, <2>2, <2>3, IsList
  <2>5. QED  BY <2>2, <2>3, <2>4, IsList
<1> HIDE DEF tba, R, l
<1>3. PICK g : Merges(g, <<>>, tba, l) /\ mergeTestLists(<<>>, tba) = g[l]
  BY <1>1, <1>2, MergeSteps
<1>4. \A n \in 0..l : g[n] = IF n = 0 THEN <<>> ELSE Merged(g[n - 1], tba[n])
  BY <1>3, Zenon DEF Merges
<1> DEFINE Bad == {n \in 0..l : ~ (IsTests(g[n]) /\ Gathers(R, n, g[n]))}
<1>5. Bad = {}
  <2> SUFFICES ASSUME Bad # {}  PROVE FALSE
    OBVIOUS
  <2>1. PICK n \in Bad : \A m \in Bad : n <= m
    <3>1. Bad \subseteq Nat
      OBVIOUS
    <3> HIDE DEF Bad
    <3>2. QED  BY <3>1, Least
  <2>2. CASE n = 0
    <3>1. g[0] = <<>>
      BY <1>1, <1>4
    <3>2. DOMAIN <<>> = {} /\ 1..0 = {}
      OBVIOUS
    <3>3. Gathers(R, 0, g[0])
      BY <3>1, <3>2 DEF Gathers
    <3>4. QED  BY <2>1, <2>2, <3>1, <3>3, EmptyList
  <2>3. CASE n # 0
    <3>1. n \in 1..l /\ n - 1 \in 0..l /\ n - 1 \in Nat /\ (n - 1) + 1 = n
          /\ ~ (n <= n - 1)
      BY <1>1, <2>1, <2>3
    <3>2. IsTests(g[n - 1]) /\ Gathers(R, n - 1, g[n - 1])
      BY <2>1, <3>1
    <3>3. g[n] = Merged(g[n - 1], tba[n])
      BY <1>4, <2>1, <2>3
    <3>4. IsTest(tba[n]) /\ tba[n] = readYAMLNode(R[n], n)
      BY <1>2, <3>1
    <3>5. IsTests(g[n])
      BY <3>2, <3>3, <3>4, MergeOne
    <3>6. Gathers(R, n, g[n])
      <4> DEFINE m == n - 1
      <4>1. m \in Nat /\ m + 1 = n
        BY <3>1
      <4>2. IsTests(g[m]) /\ Gathers(R, m, g[m])
        BY <3>2
      <4> HIDE DEF m
      <4>3. IsTest(readYAMLNode(R[m + 1], m + 1))
        BY <3>4, <4>1
      <4>4. Gathers(R, m + 1, Merged(g[m], readYAMLNode(R[m + 1], m + 1)))
        BY <4>1, <4>2, <4>3, GathersOneMore
      <4>5. QED  BY <3>3, <3>4, <4>1, <4>4 DEF m
    <3>7. QED  BY <2>1, <3>5, <3>6
  <2>4. QED  BY <2>2, <2>3
<1>6. Gathers(R, l, g[l])
  BY <1>1, <1>5
<1>7. QED  BY <1>3, <1>6 DEF R, l, tba

-----------------------------------------------------------------------------
(* Nor does what a process does with the tests it read *)

\* Of the tests R that a process read, test t stands for the n-th, but for what
\* the fresh results F took the place of.
Holds(R, n, F, t) ==
  LET twins == {R[m] : m \in {k \in DOMAIN R \ {n} : Readable(R[k]) /\ OneTest(R[k], t)}} IN
  /\ OneTest(R[n], t)
  /\ \A r \in R[n].results :
        \/ r \in t.results
        \/ \E s \in F \cap t.results : s.time = r.time /\ s.iteration = r.iteration
        \/ \E twin \in twins : \E s \in twin.results : s.time = r.time
  /\ R[n].format = 1 => \A v \in R[n].verified :
        v \in t.verified \/ \E twin \in twins : \E w \in twin.verified : w.motive = v.motive

\* FoundIn says that of what the process read.
LEMMA FoundIs ==
  ASSUME NEW p, NEW n, NEW t
  PROVE  FoundIn(p, n, t) <=> Holds(read[p], n, Fresh(p), t)
BY DEF FoundIn, Holds, ResultKept, ValueKept, Twins

\* In the list ts a test stands for each that was read and can be found again.
Covered(R, F, ts) ==
  \A n \in DOMAIN R : Identified(R[n]) => \E j \in DOMAIN ts : Holds(R, n, F, ts[j])

\* Test u is what became of test t.
Follows(t, u, F) ==
  /\ u.name = t.name /\ u.uuid = t.uuid /\ t.verified \subseteq u.verified
  /\ \A s \in t.results :
        s \in u.results \/ \E r \in F \cap u.results : r.time = s.time /\ r.iteration = s.iteration

\* What became of a test stands for the same tests as that.
LEMMA StillHolds ==
  ASSUME NEW R, NEW n, NEW F, NEW G, F \subseteq G, NEW t, NEW u, Follows(t, u, G), Holds(R, n, F, t)
  PROVE  Holds(R, n, G, u)
<1>1. \A b : OneTest(b, u) <=> OneTest(b, t)
  BY DEF OneTest, Follows
<1>2. {k \in DOMAIN R \ {n} : Readable(R[k]) /\ OneTest(R[k], u)}
        = {k \in DOMAIN R \ {n} : Readable(R[k]) /\ OneTest(R[k], t)}
  BY <1>1
<1> DEFINE twins == {R[m] : m \in {k \in DOMAIN R \ {n} : Readable(R[k]) /\ OneTest(R[k], t)}}
<1>3. ASSUME NEW r \in R[n].results
      PROVE  \/ r \in u.results
             \/ \E s \in G \cap u.results : s.time = r.time /\ s.iteration = r.iteration
             \/ \E twin \in twins : \E s \in twin.results : s.time = r.time
  <2>1. \/ \E s \in t.results : s.time = r.time /\ s.iteration = r.iteration /\ (s = r \/ s \in F)
        \/ \E twin \in twins : \E s \in twin.results : s.time = r.time
    BY <1>3 DEF Holds
  <2> HIDE DEF twins
  <2>2. QED  BY <2>1 DEF Follows
<1>4. ASSUME R[n].format = 1, NEW v \in R[n].verified
      PROVE  v \in u.verified \/ \E twin \in twins : \E w \in twin.verified : w.motive = v.motive
  BY <1>4 DEF Holds, Follows
<1>5. OneTest(R[n], u)
  BY <1>1 DEF Holds
<1>6. QED  BY <1>2, <1>3, <1>4, <1>5 DEF Holds

\* And what became of a list covers the same.
LEMMA StillCovered ==
  ASSUME NEW R, NEW F, NEW G, F \subseteq G, NEW ts, NEW us,
         \A j \in DOMAIN ts : j \in DOMAIN us /\ Follows(ts[j], us[j], G),
         Covered(R, F, ts)
  PROVE  Covered(R, G, us)
<1> SUFFICES ASSUME NEW n \in DOMAIN R, Identified(R[n])
             PROVE  \E j \in DOMAIN us : Holds(R, n, G, us[j])
  BY DEF Covered
<1>1. PICK j \in DOMAIN ts : Holds(R, n, F, ts[j])
  BY DEF Covered
<1>2. QED  BY <1>1, StillHolds

\* A suite that has just been read.
LEMMA CoveredAtFirst ==
  ASSUME NEW f, IsTests(disk[f].tests), NEW F
  PROVE  Covered(Found(f), F, readTestFile(f))
<1>1. CASE disk[f].form = "ok"
  <2> DEFINE R == disk[f].tests
             ts == readTestFile(f)
  <2>1. Found(f) = R /\ ts = mergeTestLists(<<>>, loadTests(disk[f]))
    BY <1>1 DEF Found, readTestFile
  <2>2. Gathers(R, Len(R), ts) /\ DOMAIN R = 1..Len(R)
    BY <2>1, ReadGathers, IsList
  <2> HIDE DEF R, ts
  <2>3. ASSUME NEW n \in DOMAIN R, NEW t, Stands(R, Len(R), n, t)  PROVE  Holds(R, n, F, t)
    BY <2>2, <2>3 DEF Stands, Holds
  <2>4. Covered(R, F, ts)
    BY <2>2, <2>3 DEF Covered, Gathers
  <2>5. QED  BY <2>1, <2>4 DEF ts
<1>2. CASE disk[f].form # "ok"
  <2>1. Found(f) = <<>> /\ DOMAIN <<>> = {}
    BY <1>2 DEF Found
  <2>2. QED  BY <2>1 DEF Covered
<1>3. QED  BY <1>1, <1>2

\* A result at hand that is fresh is told when it is saved, and then let go.
Shared(p) ==
  /\ proc[p].pc \in {"load", "create", "add", "run"} => proc[p].result = {}
  /\ proc[p].pc \in {"save", "saving"} /\ ~ proc[p].cached =>
        \A r \in proc[p].result : \E e \in told[p] : e.result = r

\* A running process has what it read, but for what it replaced itself.
Whole(p) == Shared(p) /\ (proc[p].pc # "idle" => Covered(read[p], Fresh(p), proc[p].tests))

WholeInv == Inv /\ DOMAIN read = Procs /\ \A p \in Procs : Whole(p)

\* A test left as it is follows itself.
LEMMA SameTests ==
  ASSUME NEW t, NEW F
  PROVE  Follows(t, t, F)
BY DEF Follows

\* A step that keeps the tests, or adds fresh results, keeps what was read.
LEMMA CarriesOn ==
  ASSUME NEW p, Whole(p), proc[p].pc # "idle", read'[p] = read[p], Fresh(p) \subseteq Fresh(p)',
         \A j \in DOMAIN proc[p].tests :
           j \in DOMAIN proc'[p].tests /\ Follows(proc[p].tests[j], proc'[p].tests[j], Fresh(p)'),
         Shared(p)'
  PROVE  Whole(p)'
<1>1. Covered(read[p], Fresh(p)', proc'[p].tests)
  BY StillCovered DEF Whole
<1>2. QED  BY <1>1 DEF Whole

\* Load, createTestFile: a list just read covers the file.
LEMMA ReadWhole ==
  ASSUME WholeInv, NEW p \in Procs, Load(p) \/ \E f \in SuiteFiles : createTestFile(p, f)
  PROVE  Whole(p)'
<1> DEFINE me == proc[p]
<1>1. /\ me.pc \in {"load", "create"} /\ me.result = {} /\ told' = told
      /\ DOMAIN read = Procs /\ Covered(read[p], Fresh(p), me.tests) /\ Whole(p)
  BY DEF Load, createTestFile, Quiet, WholeInv, Whole, Shared
<1>2. ASSUME NEW f \in SuiteFiles, NEW fields,
             Becomes(p, fields), DOMAIN fields \subseteq {"origin", "tests", "tried", "pc"},
             {"tests", "pc"} \subseteq DOMAIN fields,
             fields.tests = readTestFile(f), fields.pc \in {"add", "load"},
             read' = [read EXCEPT ![p] = Found(f)]
      PROVE  Whole(p)'
  <2>1. /\ proc'[p].pc \in {"add", "load"} /\ proc'[p].tests = readTestFile(f)
        /\ proc'[p].result = {} /\ read'[p] = Found(f)
    BY <1>1, <1>2, BecomesIs DEF Inv, WholeInv, Slots
  <2>2. Covered(Found(f), Fresh(p)', readTestFile(f))
    BY CoveredAtFirst DEF WholeInv, Inv, Shape
  <2>3. Shared(p)'
    BY <2>1 DEF Shared
  <2>4. QED  BY <2>1, <2>2, <2>3 DEF Whole
<1>3. ASSUME NEW fields, Becomes(p, fields), DOMAIN fields \subseteq {"tried", "pc"},
             "pc" \in DOMAIN fields => fields.pc \in {"add", "create"},
             read' = read
      PROVE  Whole(p)'
  <2>1. /\ proc'[p].pc \in {"load", "create", "add"} /\ proc'[p].tests = me.tests
        /\ proc'[p].result = {} /\ proc'[p].cached = me.cached
    BY <1>1, <1>3, BecomesIs DEF Inv, WholeInv, Slots
  <2>2. Fresh(p)' = Fresh(p)
    BY <1>1, <2>1 DEF Fresh
  <2>3. Shared(p)'
    BY <2>1 DEF Shared
  <2>4. QED  BY <1>1, <1>3, <2>1, <2>2, <2>3 DEF Whole
<1>4. ASSUME NEW f \in SuiteFiles, createTestFile(p, f)  PROVE  Whole(p)'
  <2> DEFINE fields == [origin |-> f, tests |-> readTestFile(f), pc |-> "add"]
  <2>1. Becomes(p, fields) /\ read' = [read EXCEPT ![p] = Found(f)]
    BY <1>4 DEF createTestFile
  <2>2. QED  BY <1>2, <2>1
<1>5. CASE Load(p)
  <2> DEFINE f == me.cmd.tryOut[me.tried]
  <2>1. CASE me.tried > Len(me.cmd.tryOut)
    <3> DEFINE fields == [pc |-> IF me.cmd.limitTests = {} THEN "add" ELSE "create"]
    <3>1. Becomes(p, fields) /\ read' = read
      BY <1>5, <2>1 DEF Load
    <3>2. DOMAIN fields = {"pc"} /\ fields.pc \in {"add", "create"}
      OBVIOUS
    <3> HIDE DEF fields
    <3>3. QED  BY <1>3, <3>1, <3>2
  <2>2. CASE ~ (me.tried > Len(me.cmd.tryOut))
    <3>1. f \in SuiteFiles
      <4>1. me.cmd \in Commands /\ me.tried \in Nat \ {0}
        BY <1>5 DEF Load, WholeInv, Inv, Fine, ProcessFits
      <4>2. QED  BY <2>2, <4>1, TestSuiteAssumption, ElementOfSeq, LenProperties
    <3>2. CASE disk[f].form = "missing"
      <4> DEFINE fields == [tried |-> me.tried + 1]
      <4>1. Becomes(p, fields) /\ read' = read
        BY <1>5, <2>2, <3>2 DEF Load
      <4>2. DOMAIN fields = {"tried"}
        OBVIOUS
      <4> HIDE DEF fields
      <4>3. QED  BY <1>3, <4>1, <4>2
    <3>3. CASE disk[f].form # "missing"
      <4> DEFINE fields == [origin |-> f, tests |-> readTestFile(f), tried |-> me.tried + 1,
                            pc |-> IF disk[f].form = "ok" THEN "add" ELSE "load"]
      <4>1. Becomes(p, fields) /\ read' = [read EXCEPT ![p] = Found(f)]
        BY <1>5, <2>2, <3>3 DEF Load
      <4>2. /\ DOMAIN fields = {"origin", "tests", "tried", "pc"}
            /\ fields.tests = readTestFile(f) /\ fields.pc \in {"add", "load"}
        OBVIOUS
      <4> HIDE DEF fields, f
      <4>3. QED  BY <1>2, <3>1, <4>1, <4>2
    <3>4. QED  BY <3>2, <3>3
  <2>3. QED  BY <2>1, <2>2
<1>6. QED  BY <1>4, <1>5

\* AddAndLimit: tests are added behind those there are.
LEMMA AddWhole ==
  ASSUME WholeInv, NEW p \in Procs, AddAndLimit(p)
  PROVE  Whole(p)'
<1> DEFINE me == proc[p]
           new == {a.file : a \in me.cmd.limitTests} \cap (DftFiles \ {t.file : t \in Range(me.tests)})
           names == SetToSeq(new)
           added == [n \in DOMAIN names |-> NewTest(names[n], n)]
           tests == me.tests \o added
           typed == {a.file : a \in {b \in me.cmd.limitTests : b.bare}}
           limit == {n \in DOMAIN tests : tests[n].file \in typed}
<1>1. /\ me.pc = "add" /\ me.result = {} /\ told' = told /\ read' = read /\ Whole(p)
      /\ me.cmd \in Commands /\ IsTests(me.tests)
  BY DEF AddAndLimit, Quiet, WholeInv, Inv, Fine, ProcessFits, Whole, Shared
<1>2. IsFiniteSet(new)
  BY <1>1, NamedFiles
<1>3. Becomes(p, [tests |-> tests, limit |-> limit, at |-> 1, pc |-> "run"])
  BY DEF AddAndLimit
<1> HIDE DEF new
<1>4. \A j \in DOMAIN me.tests : j \in DOMAIN tests /\ tests[j] = me.tests[j]
  BY <1>1, <1>2, AddedTests
<1> HIDE DEF tests, limit
<1>5. /\ proc'[p].pc = "run" /\ proc'[p].tests = tests
      /\ proc'[p].result = {} /\ proc'[p].cached = me.cached
  BY <1>1, <1>3, BecomesIs DEF WholeInv, Inv, Slots
<1>6. Fresh(p)' = Fresh(p) /\ Shared(p)'
  BY <1>1, <1>5 DEF Fresh, Shared
<1>7. QED  BY <1>1, <1>4, <1>5, <1>6, SameTests, CarriesOn

\* NextTest: the tests stay.
LEMMA NextWhole ==
  ASSUME WholeInv, NEW p \in Procs, NextTest(p)
  PROVE  Whole(p)'
<1> DEFINE me == proc[p]
<1>1. /\ me.pc = "run" /\ me.result = {} /\ told' = told /\ read' = read /\ Whole(p)
      /\ Becomes(p, [at |-> me.at + 1])
  BY DEF NextTest, Quiet, WholeInv, Whole, Shared
<1>2. /\ proc'[p].pc = "run" /\ proc'[p].tests = me.tests
      /\ proc'[p].result = {} /\ proc'[p].cached = me.cached
  BY <1>1, BecomesIs DEF WholeInv, Inv, Slots
<1>3. Fresh(p)' = Fresh(p) /\ Shared(p)'
  BY <1>1, <1>2 DEF Fresh, Shared
<1>4. QED  BY <1>1, <1>2, <1>3, SameTests, CarriesOn

\* RunTest: a fresh result takes the place of one of the same second at most.
LEMMA RunWhole ==
  ASSUME WholeInv, NEW p \in Procs, RunTest(p)
  PROVE  Whole(p)'
<1> DEFINE me == proc[p]
           t == me.tests[me.at]
<1>1. /\ me.pc = "run" /\ me.result = {} /\ told' = told /\ read' = read /\ Whole(p)
      /\ IsTests(me.tests) /\ me.at \in DOMAIN me.tests
  <2>1. /\ me.pc = "run" /\ me.result = {} /\ told' = told /\ read' = read /\ Whole(p)
        /\ IsTests(me.tests) /\ me.at \in Nat \ {0} /\ me.at <= Len(me.tests)
    BY DEF RunTest, Quiet, WholeInv, Inv, Fine, ProcessFits, Running, Whole, Shared
  <2>2. QED  BY <2>1, IsList
<1>2. Fresh(p) = {e.result : e \in told[p]}
  BY <1>1 DEF Fresh
<1>3. ASSUME NEW rs, Becomes(p, [pc |-> "report", result |-> rs, cached |-> TRUE])
      PROVE  Whole(p)'
  <2>1. /\ proc'[p].pc = "report" /\ proc'[p].tests = me.tests
        /\ proc'[p].cached
    BY <1>1, <1>3, BecomesIs DEF WholeInv, Inv, Slots
  <2>2. Fresh(p)' = Fresh(p) /\ Shared(p)'
    BY <1>1, <1>2, <2>1 DEF Fresh, Shared
  <2>3. QED  BY <1>1, <2>1, <2>2, SameTests, CarriesOn
<1>4. ASSUME NEW now \in Times, NEW stop \in BOOLEAN,
             LET r == Result(now, "dftcalc", runDftcalc)
             IN  Becomes(p, [pc |-> "store", result |-> {r}, cached |-> FALSE, stop |-> stop,
                             tests |-> [me.tests EXCEPT ![me.at] = addResult(@, r)]])
      PROVE  Whole(p)'
  <2> DEFINE r == Result(now, "dftcalc", runDftcalc)
             u == addResult(t, r)
             tests == [me.tests EXCEPT ![me.at] = u]
  <2>1. r.time \in Nat /\ r.failprob \in Int
    BY TestSuiteAssumption DEF Result, runDftcalc, Invalid
  <2>2. Becomes(p, [pc |-> "store", result |-> {r}, cached |-> FALSE, stop |-> stop, tests |-> tests])
    BY <1>4
  <2> HIDE DEF r
  <2>3. IsTest(t)
    BY <1>1, IsList
  <2>4. /\ IsTest(u) /\ r \in u.results
        /\ u.uuid = t.uuid /\ u.name = t.name /\ u.verified = t.verified
        /\ \A s \in t.results : s \in u.results \/ (s.time = r.time /\ s.iteration = r.iteration)
    BY <2>1, <2>3, AddOne
  <2> HIDE DEF u, t
  <2>5. /\ DOMAIN tests = DOMAIN me.tests
        /\ \A n \in DOMAIN me.tests : tests[n] = IF n = me.at THEN u ELSE me.tests[n]
    BY <1>1, <2>4, ReplaceOne
  <2> HIDE DEF tests
  <2>6. /\ proc'[p].pc = "store" /\ proc'[p].tests = tests
        /\ proc'[p].result = {r} /\ ~ proc'[p].cached
    BY <1>1, <2>2, BecomesIs DEF WholeInv, Inv, Slots
  <2>7. Fresh(p)' = Fresh(p) \cup {r} /\ Shared(p)'
    BY <1>1, <1>2, <2>6 DEF Fresh, Shared
  <2>8. ASSUME NEW F, r \in F  PROVE  Follows(t, u, F)
    BY <2>4, <2>8 DEF Follows
  <2>9. ASSUME NEW j \in DOMAIN me.tests
        PROVE  j \in DOMAIN tests /\ Follows(me.tests[j], tests[j], Fresh(p)')
    <3>1. CASE j = me.at
      <4>1. tests[j] = u /\ me.tests[j] = t /\ j \in DOMAIN tests
        BY <2>5, <3>1 DEF t
      <4>2. QED  BY <2>7, <2>8, <4>1
    <3>2. CASE j # me.at
      BY <2>5, <3>2, SameTests
    <3>3. QED  BY <3>1, <3>2
  <2>10. QED  BY <1>1, <2>6, <2>7, <2>9, CarriesOn
<1>5. QED
  <2> DEFINE valid == getLastValidResult(Current(p), "dftcalc")
  <2>1. CASE valid # {} /\ me.cmd.mode # "f"
    BY <1>3, <2>1 DEF RunTest
  <2>2. CASE ~ (valid # {} /\ me.cmd.mode # "f") /\ me.cmd.mode = "c"
    BY <1>3, <2>2 DEF RunTest
  <2>3. CASE ~ (valid # {} /\ me.cmd.mode # "f") /\ me.cmd.mode # "c"
    BY <1>4, <2>3 DEF RunTest
  <2>4. QED  BY <2>1, <2>2, <2>3

\* Report: the fresh result is told.
LEMMA ReportWhole ==
  ASSUME WholeInv, NEW p \in Procs, Report(p)
  PROVE  Whole(p)'
<1> DEFINE me == proc[p]
           new == IF me.cached THEN {} ELSE {[uuid |-> Current(p).uuid, result |-> r] : r \in me.result}
           v == IF me.result = {} THEN "UNKNOWN"
                ELSE verify(Current(p), CHOOSE r \in me.result : TRUE)
<1>1. /\ me.pc = "report" /\ read' = read /\ Whole(p)
      /\ told' = [told EXCEPT ![p] = told[p] \cup new] /\ DOMAIN told = Procs
      /\ Becomes(p, [pc |-> "save", verdict |-> v])
  BY DEF Report, WholeInv, Inv, Shape
<1> HIDE DEF v
<1>2. /\ proc'[p].pc = "save" /\ proc'[p].tests = me.tests
      /\ proc'[p].result = me.result /\ proc'[p].cached = me.cached
  BY <1>1, BecomesIs DEF WholeInv, Inv, Slots
<1>3. told'[p] = told[p] \cup new
  BY <1>1
<1>4. {e.result : e \in new} = IF me.cached THEN {} ELSE me.result
  <2>1. CASE me.cached
    <3>1. new = {}
      BY <2>1
    <3>2. QED  BY <2>1, <3>1
  <2>2. CASE ~ me.cached
    <3> DEFINE Entry(r) == [uuid |-> Current(p).uuid, result |-> r]
    <3>1. new = {Entry(r) : r \in me.result} /\ \A r \in me.result : Entry(r).result = r
      BY <2>2
    <3> HIDE DEF new, Entry
    <3>2. /\ \A e \in new : e.result \in me.result
          /\ \A r \in me.result : \E e \in new : e.result = r
      BY <3>1
    <3>3. {e.result : e \in new} = me.result
      BY <3>2
    <3>4. QED  BY <2>2, <3>3
  <2>3. QED  BY <2>1, <2>2
<1> HIDE DEF new
<1>5. Fresh(p)' = Fresh(p)
  <2>1. {e.result : e \in told'[p]} = {e.result : e \in told[p]} \cup {e.result : e \in new}
    BY <1>3
  <2>2. QED  BY <1>2, <1>4, <2>1 DEF Fresh
<1>6. Shared(p)'
  <2>1. ~ me.cached => \A r \in me.result : \E e \in new : e.result = r
    BY <1>4
  <2>2. QED  BY <1>2, <1>3, <2>1 DEF Shared
<1>7. QED  BY <1>1, <1>2, <1>5, <1>6, SameTests, CarriesOn

\* CannotSave, Write: the fresh result is let go, which has been told.
LEMMA SaveWhole ==
  ASSUME WholeInv, NEW p \in Procs, CannotSave(p) \/ Write(p)
  PROVE  Whole(p)'
<1> DEFINE me == proc[p]
<1>1. /\ me.pc \in {"store", "storing", "save", "saving"} /\ read' = read /\ told' = told
      /\ Becomes(p, Saved(p)) /\ Whole(p)
  BY DEF CannotSave, Saving, Write, Writing, Quiet, WholeInv
<1>2. CASE me.pc \in {"store", "storing"}
  <2>1. Becomes(p, [pc |-> "report"])
    BY <1>1, <1>2 DEF Saved
  <2>2. /\ proc'[p].pc = "report" /\ proc'[p].tests = me.tests
        /\ proc'[p].result = me.result /\ proc'[p].cached = me.cached
    BY <2>1, BecomesIs DEF WholeInv, Inv, Slots
  <2>3. Fresh(p)' = Fresh(p) /\ Shared(p)'
    BY <1>1, <2>2 DEF Fresh, Shared
  <2>4. QED  BY <1>1, <2>2, <2>3, SameTests, CarriesOn
<1>3. CASE me.pc \in {"save", "saving"}
  <2> DEFINE next == IF me.stop THEN "end" ELSE "run"
  <2>1. Becomes(p, [pc |-> next, at |-> me.at + 1, result |-> {}])
    BY <1>1, <1>3 DEF Saved
  <2>2. next \in {"run", "end"}
    OBVIOUS
  <2> HIDE DEF next
  <2>3. /\ proc'[p].pc = next /\ proc'[p].tests = me.tests
        /\ proc'[p].result = {} /\ proc'[p].cached = me.cached
    BY <2>1, BecomesIs DEF WholeInv, Inv, Slots
  <2>4. Shared(p)'
    BY <2>2, <2>3 DEF Shared
  <2>5. Fresh(p) \subseteq Fresh(p)'
    <3>1. ~ me.cached => me.result \subseteq {e.result : e \in told[p]}
      BY <1>1, <1>3 DEF Whole, Shared
    <3>2. QED  BY <1>1, <2>3, <3>1 DEF Fresh
  <2>6. QED  BY <1>1, <2>3, <2>4, <2>5, SameTests, CarriesOn
<1>4. QED  BY <1>1, <1>2, <1>3

\* Open: truncating the file leaves the tests of the process alone.
LEMMA OpenWhole ==
  ASSUME WholeInv, NEW p \in Procs, Open(p)
  PROVE  Whole(p)'
<1> DEFINE me == proc[p]
<1>1. /\ me.pc \in {"store", "save"} /\ read' = read /\ told' = told
      /\ Becomes(p, [pc |-> Opened[me.pc]]) /\ Whole(p)
  BY DEF Open, Saving, WholeInv
<1>2. \/ me.pc = "store" /\ Opened[me.pc] = "storing"
      \/ me.pc = "save" /\ Opened[me.pc] = "saving"
  <2>1. Opened["store"] = "storing" /\ Opened["save"] = "saving"
    BY DEF Opened
  <2>2. QED  BY <1>1, <2>1
<1>3. /\ proc'[p].pc = Opened[me.pc] /\ proc'[p].tests = me.tests
      /\ proc'[p].result = me.result /\ proc'[p].cached = me.cached
  BY <1>1, BecomesIs DEF WholeInv, Inv, Slots
<1>4. Fresh(p)' = Fresh(p) /\ Shared(p)'
  BY <1>1, <1>2, <1>3 DEF Fresh, Shared, Whole
<1>5. QED  BY <1>1, <1>3, <1>4, SameTests, CarriesOn

\* Start, Exit, Killed: nothing is read yet, or any more.
LEMMA RestWhole ==
  ASSUME WholeInv, NEW p \in Procs, Leave(p) \/ \E c \in Commands : Start(p, c)
  PROVE  Whole(p)'
<1>1. DOMAIN proc = Procs /\ DOMAIN read = Procs
  BY DEF WholeInv, Inv, Shape
<1>2. CASE Leave(p)
  <2>1. proc'[p].pc = "idle"
    BY <1>1, <1>2 DEF Leave, Resting, Process
  <2>2. QED  BY <2>1 DEF Whole, Shared
<1>3. ASSUME NEW c \in Commands, Start(p, c)  PROVE  Whole(p)'
  <2>1. /\ proc'[p].pc = "load" /\ proc'[p].result = {} /\ read'[p] = <<>>
    BY <1>1, <1>3 DEF Start, Process
  <2>2. DOMAIN <<>> = {}
    OBVIOUS
  <2>3. QED  BY <2>1, <2>2 DEF Whole, Shared, Covered
<1>4. QED  BY <1>2, <1>3

\* At first nothing is read.
LEMMA InitWhole ==
  ASSUME Init
  PROVE  WholeInv
<1>1. DOMAIN read = Procs /\ \A p \in Procs : proc[p].pc = "idle"
  BY DEF Init, Resting, Process
<1>2. \A p \in Procs : Whole(p)
  BY <1>1 DEF Whole, Shared
<1>3. QED  BY <1>1, <1>2, InitFine DEF WholeInv

\* One step of one process.
LEMMA StepWhole ==
  ASSUME WholeInv, [Next]_vars
  PROVE  WholeInv'
<1>1. Inv /\ Inv' /\ DOMAIN read = Procs /\ DOMAIN told = Procs
  BY StepKeeps DEF WholeInv, Inv, Shape
<1>2. ASSUME NEW p \in Procs, Only(p), Whole(p)', DOMAIN read' = Procs,
             \A q \in Procs \ {p} : read'[q] = read[q] /\ told'[q] = told[q]
      PROVE  WholeInv'
  <2>1. ASSUME NEW q \in Procs \ {p}  PROVE  Whole(q)'
    <3>1. Whole(q) /\ proc'[q] = proc[q] /\ read'[q] = read[q] /\ told'[q] = told[q]
      BY <1>2 DEF WholeInv, Only
    <3>2. Fresh(q)' = Fresh(q)
      BY <3>1 DEF Fresh
    <3>3. QED  BY <3>1, <3>2 DEF Whole, Shared
  <2>2. QED  BY <1>1, <1>2, <2>1 DEF WholeInv
<1>3. ASSUME NEW p \in Procs, NEW c \in Commands, Start(p, c)  PROVE  WholeInv'
  <2>1. Only(p) /\ Whole(p)'
    BY <1>1, <1>3, StartKeeps, RestWhole
  <2>2. DOMAIN read' = Procs /\ \A q \in Procs \ {p} : read'[q] = read[q] /\ told'[q] = told[q]
    BY <1>1, <1>3 DEF Start
  <2>3. QED  BY <1>2, <2>1, <2>2
<1>4. ASSUME NEW p \in Procs, NEW f \in SuiteFiles, createTestFile(p, f)  PROVE  WholeInv'
  <2>1. Only(p) /\ Whole(p)'
    BY <1>1, <1>4, CreateKeeps, ReadWhole
  <2>2. DOMAIN read' = Procs /\ \A q \in Procs \ {p} : read'[q] = read[q] /\ told'[q] = told[q]
    BY <1>1, <1>4 DEF createTestFile, Quiet
  <2>3. QED  BY <1>2, <2>1, <2>2
<1>5. ASSUME NEW p \in Procs, Load(p)  PROVE  WholeInv'
  <2>1. Only(p) /\ Whole(p)'
    BY <1>1, <1>5, LoadKeeps, ReadWhole
  <2>2. told' = told /\ (read' = read \/ \E f \in {proc[p].cmd.tryOut[proc[p].tried]} : read' = [read EXCEPT ![p] = Found(f)])
    BY <1>5 DEF Load, Quiet
  <2>3. DOMAIN read' = Procs /\ \A q \in Procs \ {p} : read'[q] = read[q] /\ told'[q] = told[q]
    BY <1>1, <2>2
  <2>4. QED  BY <1>2, <2>1, <2>3
<1>6. ASSUME NEW p \in Procs, Report(p)  PROVE  WholeInv'
  <2>1. Only(p) /\ Whole(p)'
    BY <1>1, <1>6, ReportKeeps, ReportWhole
  <2>2. DOMAIN read' = Procs /\ \A q \in Procs \ {p} : read'[q] = read[q] /\ told'[q] = told[q]
    BY <1>1, <1>6 DEF Report
  <2>3. QED  BY <1>2, <2>1, <2>2
<1>7. ASSUME NEW p \in Procs, AddAndLimit(p) \/ NextTest(p) \/ RunTest(p) \/ CannotSave(p)
                              \/ Open(p) \/ Write(p)
      PROVE  WholeInv'
  <2>1. Only(p)
    BY <1>1, <1>7, AddKeeps, NextTestKeeps, RunKeeps, CannotSaveKeeps, OpenKeeps, WriteKeeps
  <2>2. Whole(p)'
    BY <1>7, AddWhole, NextWhole, RunWhole, SaveWhole, OpenWhole
  <2>3. read' = read /\ told' = told
    BY <1>7 DEF AddAndLimit, NextTest, RunTest, CannotSave, Open, Write, Quiet
  <2>4. QED  BY <1>1, <1>2, <2>1, <2>2, <2>3
<1>8. ASSUME NEW p \in Procs, Exit(p) \/ Killed(p)  PROVE  WholeInv'
  <2>1. Leave(p) /\ read' = read /\ told' = told
    BY <1>8 DEF Exit, Killed, Quiet
  <2>2. Only(p) /\ Whole(p)'
    BY <1>1, <2>1, LeaveKeeps, RestWhole
  <2>3. QED  BY <1>1, <1>2, <2>1, <2>2
<1>9. CASE UNCHANGED vars
  <2>1. UNCHANGED <<proc, read, told>>
    BY <1>9 DEF vars
  <2>2. \A p : Fresh(p)' = Fresh(p)
    BY <2>1 DEF Fresh
  <2>3. QED  BY <1>1, <2>1, <2>2 DEF WholeInv, Whole, Shared
<1>10. QED  BY <1>3, <1>4, <1>5, <1>6, <1>7, <1>8, <1>9 DEF Next

\* A file being written is left alone only by writing it, or by dying.
LEMMA OnlyWriting ==
  ASSUME WholeInv, [Next]_vars, NEW p \in Procs, Writing(p), proc'[p].pc \notin {proc[p].pc, "idle"}
  PROVE  Write(p)
<1>1. Inv /\ DOMAIN proc = Procs
  BY DEF WholeInv, Inv, Shape
<1>2. PICK q \in Procs :
        \/ \E c \in Commands : Start(q, c)
        \/ \E f \in SuiteFiles : createTestFile(q, f)
        \/ Load(q) \/ AddAndLimit(q) \/ NextTest(q) \/ RunTest(q) \/ Report(q)
        \/ CannotSave(q) \/ Open(q) \/ Write(q) \/ Exit(q) \/ Killed(q)
  BY DEF Next, vars
<1>3. Only(q)
  <2>1. Exit(q) \/ Killed(q) => Leave(q)
    BY DEF Exit, Killed
  <2>2. QED
    BY <1>1, <1>2, <2>1, StartKeeps, CreateKeeps, LoadKeeps, AddKeeps, NextTestKeeps, RunKeeps,
       ReportKeeps, CannotSaveKeeps, OpenKeeps, WriteKeeps, LeaveKeeps
<1>4. q = p
  BY <1>3 DEF Only
<1>5. proc[p].pc \in {"storing", "saving"}
  BY DEF Writing
<1>6. ~ Leave(p)
  BY <1>1 DEF Leave, Resting, Process
<1>7. /\ ~ \E c \in Commands : Start(p, c)
      /\ ~ \E f \in SuiteFiles : createTestFile(p, f)
      /\ ~ Load(p) /\ ~ AddAndLimit(p) /\ ~ NextTest(p) /\ ~ RunTest(p) /\ ~ Report(p)
      /\ ~ CannotSave(p) /\ ~ Open(p)
  BY <1>5 DEF Start, createTestFile, Load, AddAndLimit, NextTest, RunTest, Report, CannotSave, Open,
              Saving
<1>8. ~ Exit(p) /\ ~ Killed(p)
  BY <1>6 DEF Exit, Killed
<1>9. QED  BY <1>2, <1>4, <1>7, <1>8

\* A process that rewrites a suite loses nothing of what it found in it: every
\* result and every value verified by hand is written back, under the same test,
\* unless it has a result of its own for the same second and iteration, or the
\* file had one test twice with results of one time.
THEOREM WritingLosesNothing == Spec => NothingLost
<1> DEFINE A == \A p \in Procs : Writing(p) /\ proc'[p].pc \notin {proc[p].pc, "idle"} =>
                 \A n \in DOMAIN read[p] : Identified(read[p][n]) =>
                   \E t \in Range(disk'[proc[p].origin].tests) : FoundIn(p, n, t)
<1>1. WholeInv /\ [Next]_vars => A
  <2> SUFFICES ASSUME WholeInv, [Next]_vars, NEW p \in Procs, Writing(p),
                      proc'[p].pc \notin {proc[p].pc, "idle"},
                      NEW n \in DOMAIN read[p], Identified(read[p][n])
               PROVE  \E t \in Range(disk'[proc[p].origin].tests) : FoundIn(p, n, t)
    OBVIOUS
  <2> DEFINE me == proc[p]
  <2>1. Write(p)
    BY OnlyWriting
  <2>2. me.origin \in SuiteFiles /\ DOMAIN disk = SuiteFiles /\ me.pc # "idle"
    BY <2>1 DEF Write, Writing, WholeInv, Inv, Shape, Fine, ProcessFits
  <2>3. disk'[me.origin].tests = me.tests
    BY <2>1, <2>2 DEF Write, Suite
  <2>4. PICK j \in DOMAIN me.tests : Holds(read[p], n, Fresh(p), me.tests[j])
    BY <2>2 DEF WholeInv, Whole, Covered
  <2>5. FoundIn(p, n, me.tests[j]) /\ me.tests[j] \in Range(me.tests)
    BY <2>4, FoundIs DEF Range
  <2>6. QED  BY <2>3, <2>5
<1>2. Spec => []WholeInv
  BY InitWhole, StepWhole, PTL DEF Spec
<1>3. [][Next]_vars /\ []WholeInv => [][A]_vars
  BY <1>1, PTL
<1>4. QED  BY <1>2, <1>3, PTL DEF Spec, NothingLost

=============================================================================
