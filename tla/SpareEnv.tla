------------------------------- MODULE SpareEnv -------------------------------
(***************************************************************************)
(* A spare gate among parents, children and other spare gates that send it *)
(* any signal at any time and accept everything it sends.                  *)
(***************************************************************************)
EXTENDS Spare

VARIABLE held     \* the children it activated and has not deactivated since

vars == <<gate, held>>

EnvInit == Init /\ held = {}

Take(T) == \E t \in T : gate' = t[2]
Hear(T) == Live /\ Take(T) /\ UNCHANGED held

RecvFail       == Hear(ChildFails)
RecvOnline     == Hear(ChildOnline)
RecvActivate   == Hear(Activated)
RecvDeactivate == Hear(Deactivated)
RecvClaimed    == Hear(ChildClaimed)
RecvReleased   == Hear(ChildReleased)
RecvRepaired   == Hear(ReportRepaired)
SendStatus     == Hear(AnnounceFail \cup AnnounceOnline)
Silent         == Hear({t \in ForgetRelease \cup ClaimBetter : t[1] = TAU})
Claim   == /\ Live
           /\ \E t \in ClaimFirst \cup ClaimBetter :
                t[1] # TAU /\ gate' = t[2] /\ held' = held \cup {t[1][2]}
Release == /\ Live
           /\ \E t \in ReleaseFailed \cup ReleaseWorse :
                gate' = t[2] /\ held' = held \ {t[1][2]}
ReportError == /\ gate.mode = "impossible"
               /\ gate' = Terminated /\ UNCHANGED held

EnvNext == \/ RecvFail \/ RecvOnline \/ RecvActivate \/ RecvDeactivate
           \/ RecvClaimed \/ RecvReleased \/ RecvRepaired
           \/ SendStatus \/ Claim \/ Release \/ Silent \/ ReportError

EnvSpec == EnvInit /\ [][EnvNext]_vars

Outputs == ReleaseFailed \cup ReleaseWorse \cup AnnounceFail
             \cup AnnounceOnline \cup ClaimFirst \cup ClaimBetter

-----------------------------------------------------------------------------
(* The types of the state's fields (spare.h). *)
Gates ==
  [unfailed : SUBSET Children, unclaimed : SUBSET Children,
   repairing_deactivate : 0..total, cur_using : 0..total,
   prev_using : 0..total, done : BOOLEAN, activated : BOOLEAN,
   mode : {"live", "impossible", "terminated"}]
TypeOK == gate \in Gates /\ held \subseteq Children

\* The gate never goes on using a child that another gate claimed: this is
\* its half of the exclusive use of a shared spare.
UseIsClaimed == gate.cur_using # 0 => gate.cur_using \in gate.unclaimed

\* No child is leaked: one that the gate activated is in use or will be
\* released, however its failure, its repair, a better child's return and the
\* parent's commands interleave.
NothingLeaked ==
  Live => held \subseteq {gate.cur_using, gate.prev_using,
                          gate.repairing_deactivate}

\* When the gate has nothing more to send, it has failed exactly if every
\* child is failed or claimed elsewhere, and otherwise it uses the first
\* child that is not, or none if it is dormant.
QuietMeansRight ==
  Live /\ Outputs = {} =>
    /\ gate.done <=> avail = {}
    /\ gate.activated /\ avail # {} => gate.cur_using = First(avail)
    /\ ~gate.activated => gate.cur_using = 0

\* What these rest on: only an always-active gate releases a child other than
\* the one it uses; a dormant gate is about to release what it uses, and an
\* always-active one is never dormant.
ReleasesItsOwn == ~always_active => gate.prev_using \in {0, gate.cur_using}
DormantGivesUp ==
  Live /\ ~gate.activated => ~always_active /\ gate.prev_using = gate.cur_using

\* The inductive invariant.
IInv == /\ TypeOK /\ UseIsClaimed /\ ReleasesItsOwn /\ DormantGivesUp
        /\ ~always_active => NothingLeaked
==============================================================================
