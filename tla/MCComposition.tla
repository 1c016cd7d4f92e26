---------------------------- MODULE MCComposition ----------------------------
(***************************************************************************)
(* Small fault trees for TLC.                                              *)
(***************************************************************************)
EXTENDS Composition

BE == [type |-> "be", children |-> <<>>, phases |-> 1, interval |-> 0,
       warm |-> FALSE, uncertain |-> FALSE, restores |-> FALSE,
       repair |-> FALSE, failed |-> FALSE]
Warm == [BE EXCEPT !.warm = TRUE]
Repaired == [Warm EXCEPT !.repair = TRUE]

Voting(k, cs) == [type |-> "voting", children |-> cs, threshold |-> k]
Or(cs)  == Voting(1, cs)
And(cs) == Voting(Len(cs), cs)
PAnd(cs) == [type |-> "pand", children |-> cs]
Wsp(cs)  == [type |-> "wsp", children |-> cs]
Fdep(t, ds) == [type |-> "fdep", children |-> <<t>>, dependers |-> ds]

\* 2-of-3 over an AND and an OR that share a repairable event, and over
\* an AND of an event failed by evidence and an event with phases, which may be
\* restored; a dependency drags two events, and the gate of one triggers a second one.
Static ==
  << Voting(2, <<2, 3, 4>>), And(<<5, 6>>), Or(<<6, 9>>), And(<<7, 8>>),
     Warm, Repaired,
     [Warm EXCEPT !.failed = TRUE],
     [Warm EXCEPT !.phases = 2, !.restores = TRUE],
     Or(<<10>>),
     Warm,
     [Warm EXCEPT !.uncertain = TRUE],
     Fdep(11, <<10, 5>>), Fdep(9, <<8>>) >>

\* Two spare gates share a cold spare and race for it when the event that their
\* primaries have in common fails; one of them also has a module as a spare,
\* whose event a dependency may fail for good.  The rest is repairable, below a
\* priority-AND.
Spares ==
  << PAnd(<<2, 3>>), Wsp(<<4, 6>>), Wsp(<<5, 6, 7>>),
     Or(<<8>>), Or(<<8, 9>>), [BE EXCEPT !.repair = TRUE], Or(<<10>>),
     Repaired, Repaired, BE, Warm, Fdep(11, <<10>>) >>

\* A dependency gate listed right after the cold spare of a spare gate.
FdepAfterSpare == << Wsp(<<2, 3>>), Warm, BE, Fdep(5, <<2>>), Warm >>

\* A dependency triggered by a gate that can recover.
RepairedTrigger ==
  << Or(<<2, 3>>), And(<<4, 5>>), Warm, Repaired, Repaired, Fdep(2, <<3>>) >>

TopIsFirst == 1

\* The theorems of CompositionProofs are about all of these trees but the last.
ASSUME TreesQualify ==
  /\ SparesApart /\ VotesAreHeard /\ PrimariesApart /\ CommandsFit /\ Acyclic
  /\ SparesAreHeard /\ PrimariesArePlain
  /\ CallersApart <=> tree # FdepAfterSpare
  /\ IsStatic <=> tree = Static \/ tree = RepairedTrigger
  /\ RecoveriesReach <=> tree # RepairedTrigger
==============================================================================
