----------------------------- MODULE SpareProofs -----------------------------
(***************************************************************************)
(* The spare gate, for any number of children, always active or not: it    *)
(* respects the claims of other gates, leaks no child, and is right about  *)
(* its own state whenever it has nothing to send.  The inductive invariant *)
(* is IInv of SpareEnv; what becomes of a handler's target in              *)
(* add_transition is SettleEffect.                                         *)
(***************************************************************************)
EXTENDS SpareEnv, WellFoundedInduction, TLAPS

\* The first element of a set<size_t> of children is its least.
LEMMA FirstIsLeast ==
  ASSUME NEW S \in SUBSET Children, S # {}
  PROVE  First(S) \in S /\ \A j \in S : First(S) <= j
<1>1. IsWellFoundedOn(OpToRel(<, Nat), Nat)
  BY NatLessThanWellFounded
<1>2. S \subseteq Nat
  BY SpareAssumption DEF Children
<1>3. PICK i \in S : \A j \in S : <<j, i>> \notin OpToRel(<, Nat)
  BY <1>1, <1>2, WFMin
<1>4. \A j \in S : ~(j < i)
  BY <1>2, <1>3 DEF OpToRel
<1>5. \A j \in S : i <= j
  BY <1>2, <1>4
<1>6. QED  BY <1>5 DEF First

\* What a handler must ensure of its target t, with h the children held then.
Ready(t, h) ==
  /\ t \in Gates /\ h \subseteq Children
  /\ t.cur_using # 0 => t.cur_using \in t.unclaimed
  /\ ~always_active => t.prev_using \in {0, t.cur_using}
  /\ t.mode = "live" /\ ~t.activated =>
       ~always_active /\ t.prev_using = t.cur_using
  /\ t.mode = "live" /\ ~always_active =>
       h \subseteq {t.cur_using, t.prev_using, t.repairing_deactivate}

\* Going back to the primary keeps the types and the claims.
LEMMA ReturnEffect ==
  ASSUME NEW g \in Gates
  PROVE  /\ ReturnToPrimary(g) \in Gates
         /\ ReturnToPrimary(g).unclaimed = g.unclaimed
         /\ ReturnToPrimary(g).activated = g.activated
         /\ ReturnToPrimary(g).mode = g.mode
         /\ ReturnToPrimary(g).cur_using \in {g.cur_using, 1}
         /\ ReturnToPrimary(g).cur_using # g.cur_using => 1 \in g.unclaimed
<1>1. CASE g.cur_using = 1 \/ 1 \notin Available(g)
  BY <1>1 DEF ReturnToPrimary
<1>2. CASE ~(g.cur_using = 1 \/ 1 \notin Available(g))
  <2> DEFINE r == IF g.repairing_deactivate = 1 THEN 0
                  ELSE g.repairing_deactivate
             u == [g EXCEPT !.prev_using = g.cur_using, !.cur_using = 1,
                            !.repairing_deactivate = r]
  <2>1. ReturnToPrimary(g) = u
    BY <1>2, Zenon DEF ReturnToPrimary
  <2>2. r \in 0..total /\ g.cur_using \in 0..total /\ 1 \in 0..total
    BY SpareAssumption DEF Gates
  <2>3. 1 \in g.unclaimed
    BY <1>2 DEF Available
  <2> HIDE DEF r
  <2>4. u \in Gates
    BY <2>2, Zenon DEF Gates
  <2>5. /\ u.unclaimed = g.unclaimed /\ u.activated = g.activated
        /\ u.mode = g.mode /\ u.cur_using = 1
    BY Zenon DEF Gates
  <2> HIDE DEF u
  <2>6. QED  BY <2>1, <2>3, <2>4, <2>5
<1>3. QED  BY <1>1, <1>2

\* So does keeping it.
LEMMA KeepEffect ==
  ASSUME NEW g \in Gates
  PROVE  /\ KeepPrimary(g) \in Gates
         /\ KeepPrimary(g).unclaimed = g.unclaimed
         /\ KeepPrimary(g).activated = g.activated
         /\ KeepPrimary(g).mode = g.mode
         /\ KeepPrimary(g).cur_using \in {g.cur_using, 0}
<1> DEFINE u == [g EXCEPT !.prev_using = 0, !.cur_using = 0]
<1>1. 0 \in 0..total
  BY SpareAssumption
<1>2. u \in Gates
  BY <1>1, Zenon DEF Gates
<1>3. /\ u.unclaimed = g.unclaimed /\ u.activated = g.activated
      /\ u.mode = g.mode /\ u.cur_using = 0
  BY Zenon DEF Gates
<1>4. KeepPrimary(g) = u \/ KeepPrimary(g) = g
  BY Zenon DEF KeepPrimary
<1> HIDE DEF u
<1>5. QED  BY <1>2, <1>3, <1>4

\* What add_transition makes of a target that is ready is ready.
LEMMA SettleReady ==
  ASSUME NEW t, NEW h, Ready(t, h)
  PROVE  Ready(Settle(t), h)
<1>1. CASE always_active
  <2>1. t \in Gates
    BY DEF Ready
  <2>2. Settle(t) = KeepPrimary(ReturnToPrimary(t))
    BY <1>1 DEF Settle
  <2> DEFINE r == ReturnToPrimary(t)
             k == KeepPrimary(r)
  <2>3. /\ r \in Gates /\ r.unclaimed = t.unclaimed
        /\ r.activated = t.activated /\ r.mode = t.mode
        /\ r.cur_using # 0 => r.cur_using \in t.unclaimed
    BY <2>1, ReturnEffect DEF Ready
  <2> HIDE DEF r
  <2>4. /\ k \in Gates /\ k.unclaimed = r.unclaimed
        /\ k.activated = r.activated /\ k.mode = r.mode
        /\ k.cur_using # 0 => k.cur_using \in r.unclaimed
    BY <2>3, KeepEffect
  <2> HIDE DEF k
  <2>5. Ready(k, h)
    BY <1>1, <2>3, <2>4 DEF Ready
  <2>6. QED  BY <2>2, <2>5 DEF k, r
<1>2. CASE ~always_active
  BY <1>2 DEF Settle
<1>3. QED  BY <1>1, <1>2

Lands(h) == \E t : Ready(t, h) /\ gate' = Settle(t)

LEMMA LandsIInv ==
  ASSUME Lands(held')  PROVE  IInv'
<1>1. Ready(gate', held')
  BY SettleReady, Zenon DEF Lands
<1>2. QED
  BY <1>1 DEF Ready, IInv, TypeOK, UseIsClaimed, ReleasesItsOwn,
              DormantGivesUp, NothingLeaked, Live

LEMMA StateIsReady ==
  ASSUME IInv  PROVE  Ready(gate, held)
  BY DEF Ready, IInv, TypeOK, UseIsClaimed, ReleasesItsOwn,
         DormantGivesUp, NothingLeaked, Live

\* An impossible state asks for nothing but its type and its claim.
LEMMA ImpossibleReady ==
  ASSUME IInv  PROVE  Ready(Impossible, held)
  BY StateIsReady DEF Ready, Impossible, Gates

\* Taking an offered transition needs its condition and settles its target.
LEMMA TakeWhen ==
  ASSUME NEW guard, NEW label, NEW target, NEW x \in When(guard, label, target)
  PROVE  guard /\ x = <<label, Settle(target)>>
  BY DEF When, Offer

-----------------------------------------------------------------------------
(* One lemma per handler: what it settles is ready. *)

\* FAIL from a child: the one in use will be released.
LEMMA ChildFailsLands ==
  ASSUME IInv, Live, Take(ChildFails)  PROVE  Lands(held)
<1>1. PICK i \in Children : gate' = Settle(AfterFail(i))
  BY DEF Take, ChildFails, Step
<1>2. Ready(gate, held) /\ gate \in Gates /\ i \in 0..total
  BY StateIsReady, SpareAssumption DEF Ready, Children
<1> DEFINE p == IF i = gate.cur_using THEN i ELSE gate.prev_using
           t == [gate EXCEPT !.unfailed = gate.unfailed \ {i},
                             !.prev_using = p]
<1>3. AfterFail(i) = t
  BY Zenon DEF AfterFail
<1>4. /\ p \in 0..total /\ gate.unfailed \ {i} \in SUBSET Children
      /\ p = gate.prev_using \/ p = gate.cur_using
  BY <1>2 DEF Gates
<1> HIDE DEF p
<1>5. t \in Gates
  BY <1>2, <1>4, Zenon DEF Gates
<1>6. /\ t.cur_using = gate.cur_using /\ t.unclaimed = gate.unclaimed
      /\ t.prev_using = p /\ t.mode = gate.mode
      /\ t.activated = gate.activated
      /\ t.repairing_deactivate = gate.repairing_deactivate
  BY <1>2, Zenon DEF Gates
<1> HIDE DEF t
<1>7. ~always_active =>
        held \subseteq {gate.cur_using, p, gate.repairing_deactivate}
  <2>1. ~always_active =>
          /\ held \subseteq {gate.cur_using, gate.prev_using,
                            gate.repairing_deactivate}
          /\ gate.prev_using \in {0, gate.cur_using} /\ 0 \notin held
    BY <1>2 DEF Ready, Live, Children
  <2>2. QED  BY <1>4, <2>1
<1>8. Ready(t, held)
  BY <1>2, <1>4, <1>5, <1>6, <1>7 DEF Ready
<1>9. QED  BY <1>1, <1>3, <1>8 DEF Lands

\* ONLINE from a child.
LEMMA ChildOnlineLands ==
  ASSUME IInv, Live, Take(ChildOnline)  PROVE  Lands(held)
<1> DEFINE t(i) == IF repairable THEN [gate EXCEPT !.unfailed = @ \cup {i}]
                   ELSE Impossible
<1>1. ChildOnline = {<<ONLINE(i), Settle(t(i))>> : i \in Children}
  BY Zenon DEF ChildOnline, Step
<1>2. \A i \in Children : Ready([gate EXCEPT !.unfailed = @ \cup {i}], held)
  BY StateIsReady DEF Ready, Gates
<1>3. \A i \in Children : Ready(t(i), held)
  BY <1>2, ImpossibleReady
<1> HIDE DEF t
<1>4. QED  BY <1>1, <1>3 DEF Take, Lands

\* The parents' commands: a gate that is deactivated gives up its child.
LEMMA ActivatedLands ==
  ASSUME IInv, Live, Take(Activated)  PROVE  Lands(held)
<1>1. gate' = Settle([gate EXCEPT !.activated = TRUE])
  BY DEF Take, Activated, Step
<1>2. Ready([gate EXCEPT !.activated = TRUE], held)
  BY StateIsReady DEF Ready, Gates
<1>3. QED  BY <1>1, <1>2 DEF Lands

LEMMA DeactivatedLands ==
  ASSUME IInv, Live, Take(Deactivated)  PROVE  Lands(held)
<1> DEFINE t == [gate EXCEPT !.activated = FALSE,
                             !.prev_using = gate.cur_using]
<1>1. gate' = Settle(IF always_active THEN Impossible ELSE t)
  <2> DEFINE u == IF always_active THEN Impossible ELSE t
  <2>1. Deactivated = {<<DEACTIVATE(0, FALSE), Settle(u)>>}
    BY Zenon DEF Deactivated, Step
  <2> HIDE DEF u
  <2>2. gate' = Settle(u)
    BY <2>1 DEF Take
  <2>3. QED  BY <2>2 DEF u
<1>2. Ready(gate, held) /\ gate \in Gates /\ gate.cur_using \in 0..total
  BY StateIsReady DEF Ready, Gates
<1>3. t \in Gates
  BY <1>2, Zenon DEF Gates
<1>4. /\ t.cur_using = gate.cur_using /\ t.unclaimed = gate.unclaimed
      /\ t.prev_using = gate.cur_using /\ t.mode = gate.mode
      /\ t.repairing_deactivate = gate.repairing_deactivate
  BY <1>2, Zenon DEF Gates
<1> HIDE DEF t
<1>5. CASE always_active
  BY <1>1, <1>5, ImpossibleReady DEF Lands
<1>6. CASE ~always_active
  <2>1. held \subseteq {gate.cur_using, gate.repairing_deactivate}
    BY <1>2, <1>6, 0 \notin Children DEF Ready, Live, Children
  <2>2. Ready(t, held)
    BY <1>2, <1>3, <1>4, <1>6, <2>1 DEF Ready
  <2>3. QED  BY <1>1, <1>6, <2>2 DEF Lands
<1>7. QED  BY <1>5, <1>6

\* Another gate claims a child that is not used here, or releases one.
LEMMA ChildClaimedLands ==
  ASSUME IInv, Live, Take(ChildClaimed)  PROVE  Lands(held)
<1> DEFINE Unused == Children \ {gate.cur_using}
           l(i) == ACTIVATE(i, FALSE)
           t(i) == IF i = 1 /\ always_active THEN Impossible
                   ELSE [gate EXCEPT !.unclaimed = @ \ {i}]
<1>1. ChildClaimed = {<<l(i), Settle(t(i))>> : i \in Unused}
  BY Zenon DEF ChildClaimed, Step
<1>2. \A i \in Unused : Ready([gate EXCEPT !.unclaimed = @ \ {i}], held)
  BY StateIsReady DEF Ready, Gates
<1>3. \A i \in Unused : Ready(t(i), held)
  BY <1>2, ImpossibleReady
<1> HIDE DEF l, t, Unused
<1>4. QED  BY <1>1, <1>3 DEF Take, Lands

LEMMA ChildReleasedLands ==
  ASSUME IInv, Live, Take(ChildReleased)  PROVE  Lands(held)
<1> DEFINE l(i) == DEACTIVATE(i, FALSE)
           t(i) == IF \/ i = 1 /\ always_active
                      \/ i \in {gate.prev_using, gate.repairing_deactivate}
                   THEN Impossible
                   ELSE [gate EXCEPT !.unclaimed = @ \cup {i}]
<1>1. ChildReleased = {<<l(i), Settle(t(i))>> : i \in Children}
  BY Zenon DEF ChildReleased, Step
<1>2. \A i \in Children : Ready([gate EXCEPT !.unclaimed = @ \cup {i}], held)
  BY StateIsReady DEF Ready, Gates
<1>3. \A i \in Children : Ready(t(i), held)
  BY <1>2, ImpossibleReady
<1> HIDE DEF l, t
<1>4. QED  BY <1>1, <1>3 DEF Take, Lands

\* Announcing the status changes nothing about the children.
LEMMA StatusLands ==
  ASSUME IInv, Live, Take(AnnounceFail \cup AnnounceOnline)
  PROVE  Lands(held)
<1>1. gate' = Settle([gate EXCEPT !.done = TRUE])
        \/ gate' = Settle([gate EXCEPT !.done = FALSE])
  BY DEF Take, AnnounceFail, AnnounceOnline, When, Offer
<1>2. Ready([gate EXCEPT !.done = TRUE], held)
        /\ Ready([gate EXCEPT !.done = FALSE], held)
  BY StateIsReady DEF Ready, Gates
<1>3. QED  BY <1>1, <1>2 DEF Lands

\* Claiming the first free child when none is in use: it is held from then on,
\* and no longer due for release.
LEMMA ClaimFirstReady ==
  ASSUME IInv, Live, NEW x \in ClaimFirst
  PROVE  x[1][2] \in Children /\ \E t : /\ x[2] = Settle(t)
                                     /\ Ready(t, held \cup {x[1][2]})
<1> DEFINE f == First(avail)
           r == IF gate.repairing_deactivate = f THEN 0
                ELSE gate.repairing_deactivate
           t == [gate EXCEPT !.cur_using = f, !.repairing_deactivate = r]
           h == held \cup {f}
<1>1. /\ gate.cur_using = 0 /\ avail # {} /\ gate.activated
      /\ x = <<ACTIVATE(f, TRUE), Settle(t)>>
  <2> DEFINE l == ACTIVATE(f, TRUE)
             g == gate.cur_using = 0 /\ avail # {} /\ gate.activated
  <2>1. ClaimFirst = When(g, l, t)
    BY Zenon DEF ClaimFirst
  <2> HIDE DEF l, t, g
  <2>2. g /\ x = <<l, Settle(t)>>
    BY <2>1, TakeWhen
  <2>3. QED  BY <2>2 DEF l, g
<1>2. Ready(gate, held) /\ gate \in Gates /\ 0 \notin Children
  BY StateIsReady DEF Ready, Children
<1>3. f \in gate.unclaimed /\ f \in Children
  BY <1>1, <1>2, FirstIsLeast DEF avail, Available, Gates
<1>4. f \in 0..total /\ f # 0 /\ r \in 0..total
      /\ r \in {0, gate.repairing_deactivate}
      /\ gate.repairing_deactivate \in {f, r}
  BY <1>2, <1>3, SpareAssumption DEF Gates, Children
<1>5. x[2] = Settle(t) /\ x[1][2] = f
  BY <1>1 DEF ACTIVATE
<1>6. ~always_active => held \subseteq {gate.repairing_deactivate}
  BY <1>1, <1>2 DEF Ready, Live
<1> HIDE DEF f, r
<1>7. t \in Gates
  BY <1>2, <1>4, Zenon DEF Gates
<1>8. /\ t.cur_using = f /\ t.unclaimed = gate.unclaimed
      /\ t.prev_using = gate.prev_using /\ t.mode = gate.mode
      /\ t.activated = gate.activated /\ t.repairing_deactivate = r
  BY <1>2, Zenon DEF Gates
<1> HIDE DEF t
<1>9. Ready(t, h)
  <2>1. ~always_active => h \subseteq {f, r} /\ t.prev_using = 0
    BY <1>1, <1>2, <1>4, <1>6, <1>8 DEF Ready
  <2>2. h \subseteq Children
    BY <1>2, <1>3 DEF Ready
  <2>3. QED  BY <1>1, <1>3, <1>7, <1>8, <2>1, <2>2 DEF Ready
<1>10. QED  BY <1>3, <1>5, <1>9

\* Claiming a better child: the one used before is due for release.
LEMMA ClaimBetterReady ==
  ASSUME IInv, Live, NEW x \in ClaimBetter
  PROVE  /\ x[1] \in {ACTIVATE(First(avail), TRUE), TAU}
         /\ First(avail) \in Children
         /\ \E t : /\ x[2] = Settle(t)
                  /\ Ready(t, held) /\ Ready(t, held \cup {First(avail)})
<1> DEFINE f == First(avail)
           t == [gate EXCEPT !.repairing_deactivate = gate.cur_using,
                             !.cur_using = f]
<1>1. /\ gate.activated /\ avail # {} /\ gate.prev_using = 0
      /\ gate.repairing_deactivate = 0
      /\ x = <<ClaimLabel, Settle(t)>>
  <2> DEFINE g == /\ gate.activated /\ avail # {}
                  /\ gate.prev_using = 0 /\ gate.repairing_deactivate = 0
                  /\ f # gate.cur_using
  <2>1. ClaimBetter = When(g, ClaimLabel, t)
    BY Zenon DEF ClaimBetter, TakeBetter
  <2> HIDE DEF t, g
  <2>2. g /\ x = <<ClaimLabel, Settle(t)>>
    BY <2>1, TakeWhen
  <2>3. QED  BY <2>2 DEF g
<1>2. Ready(gate, held) /\ gate \in Gates /\ 0 \notin Children
  BY StateIsReady DEF Ready, Children
<1>3. f \in gate.unclaimed /\ f \in Children
  BY <1>1, <1>2, FirstIsLeast DEF avail, Available, Gates
<1>4. f \in 0..total /\ f # 0 /\ gate.cur_using \in 0..total
  BY <1>2, <1>3, SpareAssumption DEF Gates, Children
<1>5. x[2] = Settle(t) /\ x[1] = ClaimLabel
  BY <1>1
<1>6. ClaimLabel \in {ACTIVATE(f, TRUE), TAU}
  BY Zenon DEF ClaimLabel
<1>7. ~always_active => held \subseteq {gate.cur_using}
  BY <1>1, <1>2 DEF Ready, Live
<1>8. t \in Gates
  BY <1>2, <1>4, Zenon DEF Gates
<1>9. /\ t.cur_using = f /\ t.unclaimed = gate.unclaimed
      /\ t.prev_using = gate.prev_using /\ t.mode = gate.mode
      /\ t.activated = gate.activated
      /\ t.repairing_deactivate = gate.cur_using
  BY <1>2, Zenon DEF Gates
<1> HIDE DEF t, f
<1>10. Ready(t, held) /\ Ready(t, held \cup {f})
  BY <1>1, <1>2, <1>3, <1>7, <1>8, <1>9 DEF Ready
<1>11. QED  BY <1>3, <1>5, <1>6, <1>10 DEF f

LEMMA ClaimLands ==
  ASSUME IInv, Claim  PROVE  Lands(held')
<1>1. PICK x \in ClaimFirst \cup ClaimBetter :
        x[1] # TAU /\ gate' = x[2] /\ held' = held \cup {x[1][2]}
  BY DEF Claim
<1>2. CASE x \in ClaimFirst
  BY <1>1, <1>2, ClaimFirstReady DEF Claim, Lands
<1>3. CASE x \in ClaimBetter
  <2>1. x[1] = ACTIVATE(First(avail), TRUE)
    BY <1>1, <1>3, ClaimBetterReady, Zenon DEF Claim
  <2>2. x[1][2] = First(avail)
    BY <2>1 DEF ACTIVATE
  <2>3. QED  BY <1>1, <1>3, <2>2, ClaimBetterReady DEF Claim, Lands
<1>4. QED  BY <1>1, <1>2, <1>3

\* Releasing the child that failed or is given up, or the worse one of two.
LEMMA ReleaseLands ==
  ASSUME IInv, Release  PROVE  Lands(held')
<1>1. PICK x \in ReleaseFailed \cup ReleaseWorse :
        gate' = x[2] /\ held' = held \ {x[1][2]}
  BY DEF Release
<1>2. Live /\ Ready(gate, held) /\ gate \in Gates /\ 0 \notin held
  BY StateIsReady DEF Release, Ready, Children
<1>3. CASE x \in ReleaseFailed
  <2> DEFINE l == DEACTIVATE(gate.prev_using, TRUE)
             t == [gate EXCEPT !.prev_using = 0, !.cur_using = 0]
  <2>1. ReleaseFailed = When(gate.prev_using # 0, l, t)
    BY Zenon DEF ReleaseFailed
  <2>2. l[2] = gate.prev_using
    BY DEF DEACTIVATE
  <2>3. 0 \in 0..total
    BY SpareAssumption
  <2>4. t \in Gates
    BY <1>2, <2>3, Zenon DEF Gates
  <2>5. /\ t.cur_using = 0 /\ t.prev_using = 0 /\ t.mode = gate.mode
        /\ t.activated = gate.activated
        /\ t.repairing_deactivate = gate.repairing_deactivate
    BY <1>2, Zenon DEF Gates
  <2> HIDE DEF l, t
  <2>6. gate.prev_using # 0 /\ x = <<l, Settle(t)>>
    BY <1>3, <2>1, TakeWhen
  <2>7. gate' = Settle(t) /\ held' = held \ {gate.prev_using}
    BY <1>1, <2>2, <2>6
  <2>8. Ready(t, held')
    <3>1. ~always_active => held' \subseteq {gate.repairing_deactivate}
      BY <1>2, <2>6, <2>7 DEF Ready, Live
    <3>2. held' \subseteq Children
      BY <1>2, <2>7 DEF Ready
    <3>3. QED  BY <1>2, <2>4, <2>5, <2>6, <3>1, <3>2 DEF Ready, Live
  <2>9. QED  BY <2>7, <2>8 DEF Lands
<1>4. CASE x \in ReleaseWorse
  <2> DEFINE l == DEACTIVATE(gate.repairing_deactivate, TRUE)
             g == gate.prev_using = 0 /\ gate.repairing_deactivate # 0
             t == [gate EXCEPT !.repairing_deactivate = 0]
  <2>1. ReleaseWorse = When(g, l, t)
    BY Zenon DEF ReleaseWorse
  <2>2. l[2] = gate.repairing_deactivate
    BY DEF DEACTIVATE
  <2>3. /\ t \in Gates /\ t.cur_using = gate.cur_using
        /\ t.prev_using = gate.prev_using /\ t.mode = gate.mode
        /\ t.activated = gate.activated /\ t.repairing_deactivate = 0
        /\ t.unclaimed = gate.unclaimed
    BY <1>2, SpareAssumption DEF Gates
  <2> HIDE DEF g, l, t
  <2>4. x = <<l, Settle(t)>>
    BY <1>4, <2>1, TakeWhen
  <2>5. gate' = Settle(t) /\ held' = held \ {gate.repairing_deactivate}
    BY <1>1, <2>2, <2>4
  <2>6. Ready(t, held')
    BY <1>2, <2>3, <2>5 DEF Ready
  <2>7. QED  BY <2>5, <2>6 DEF Lands
<1>5. QED  BY <1>1, <1>3, <1>4

\* Silent transitions and the repair unit's message claim and release nothing.
LEMMA SilentLands ==
  ASSUME IInv, Silent  PROVE  Lands(held)
<1>1. PICK x \in ForgetRelease \cup ClaimBetter : gate' = x[2]
  BY DEF Silent, Hear, Take
<1>2. CASE x \in ForgetRelease
  BY <1>1, <1>2, StateIsReady DEF ForgetRelease, When, Offer, Lands
<1>3. CASE x \in ClaimBetter
  BY <1>1, <1>3, ClaimBetterReady DEF Lands, Silent, Hear
<1>4. QED  BY <1>1, <1>2, <1>3

LEMMA RepairedLands ==
  ASSUME IInv, Take(ReportRepaired)  PROVE  Lands(held)
  BY StateIsReady DEF Take, ReportRepaired, Step, Lands

-----------------------------------------------------------------------------
\* The inductive invariant holds in every state, whatever the parameters.
THEOREM SpareInvariant == EnvSpec => []IInv
<1>1. EnvInit => IInv
  <2> SUFFICES ASSUME EnvInit  PROVE IInv
    OBVIOUS
  <2> DEFINE c == IF always_active THEN 1 ELSE 0
  <2>1. gate = [unfailed |-> Children, unclaimed |-> Children,
                repairing_deactivate |-> 0, cur_using |-> c,
                prev_using |-> 0, done |-> FALSE,
                activated |-> always_active, mode |-> "live"]
    BY Zenon DEF EnvInit, Init, Initial
  <2>2. /\ c \in 0..total /\ 0 \in 0..total /\ always_active \in BOOLEAN
        /\ c # 0 => c \in Children
        /\ ~always_active => c = 0
    BY SpareAssumption DEF Children
  <2>3. held = {}
    BY DEF EnvInit
  <2> HIDE DEF c
  <2>4. gate \in Gates
    BY <2>1, <2>2, Zenon DEF Gates
  <2>5. /\ gate.cur_using = c /\ gate.unclaimed = Children
        /\ gate.prev_using = 0 /\ (gate.activated <=> always_active)
    BY <2>1, <2>2
  <2>6. QED
    BY <2>2, <2>3, <2>4, <2>5
       DEF IInv, TypeOK, UseIsClaimed, ReleasesItsOwn, DormantGivesUp,
           NothingLeaked
<1>2. IInv /\ [EnvNext]_vars => IInv'
  <2> SUFFICES ASSUME IInv, [EnvNext]_vars  PROVE IInv'
    OBVIOUS
  <2>1. CASE RecvFail
    BY <2>1, ChildFailsLands, LandsIInv DEF RecvFail, Hear
  <2>2. CASE RecvOnline
    BY <2>2, ChildOnlineLands, LandsIInv DEF RecvOnline, Hear
  <2>3. CASE RecvActivate
    BY <2>3, ActivatedLands, LandsIInv DEF RecvActivate, Hear
  <2>4. CASE RecvDeactivate
    BY <2>4, DeactivatedLands, LandsIInv DEF RecvDeactivate, Hear
  <2>5. CASE RecvClaimed
    BY <2>5, ChildClaimedLands, LandsIInv DEF RecvClaimed, Hear
  <2>6. CASE RecvReleased
    BY <2>6, ChildReleasedLands, LandsIInv DEF RecvReleased, Hear
  <2>7. CASE RecvRepaired
    BY <2>7, RepairedLands, LandsIInv DEF RecvRepaired, Hear
  <2>8. CASE SendStatus
    BY <2>8, StatusLands, LandsIInv DEF SendStatus, Hear
  <2>9. CASE Claim
    BY <2>9, ClaimLands, LandsIInv
  <2>10. CASE Release
    BY <2>10, ReleaseLands, LandsIInv
  <2>11. CASE Silent
    BY <2>11, SilentLands, LandsIInv DEF Silent, Hear
  <2>12. CASE ReportError
    BY <2>12 DEF ReportError, Terminated, IInv, TypeOK, Gates, Live,
         UseIsClaimed, ReleasesItsOwn, DormantGivesUp, NothingLeaked
  <2>13. CASE UNCHANGED vars
    BY <2>13 DEF vars, IInv, TypeOK, Live, UseIsClaimed, ReleasesItsOwn,
         DormantGivesUp, NothingLeaked
  <2>14. QED
    BY <2>1, <2>2, <2>3, <2>4, <2>5, <2>6, <2>7, <2>8, <2>9, <2>10, <2>11,
       <2>12, <2>13 DEF EnvNext
<1>3. QED  BY <1>1, <1>2, PTL DEF EnvSpec

\* The state of a spare gate is always one that spare.h declares.
THEOREM SpareTypes == EnvSpec => []TypeOK
<1>1. IInv => TypeOK  BY DEF IInv
<1>2. QED  BY <1>1, SpareInvariant, PTL

\* A spare gate never uses a child that it knows another gate to have claimed.
THEOREM SpareRespectsClaims == EnvSpec => []UseIsClaimed
<1>1. IInv => UseIsClaimed  BY DEF IInv
<1>2. QED  BY <1>1, SpareInvariant, PTL

\* A gate that can be deactivated leaks no child it activated.
THEOREM SpareLeaksNothing ==
  ASSUME ~always_active  PROVE EnvSpec => []NothingLeaked
<1>1. IInv => NothingLeaked  BY DEF IInv
<1>2. QED  BY <1>1, SpareInvariant, PTL

\* No handler offers a transition under a false condition.
LEMMA WhenEmpty ==
  ASSUME NEW guard, NEW label, NEW target, When(guard, label, target) = {}
  PROVE  ~guard
  BY DEF When, Offer

\* With nothing to send, the gate has failed exactly if no child is free, and
\* otherwise uses the first that is, or none if it is dormant.
THEOREM SpareRightWhenQuiet == EnvSpec => []QuietMeansRight
<1>1. IInv => QuietMeansRight
  <2> SUFFICES ASSUME IInv, Live, Outputs = {}
               PROVE  /\ gate.done <=> avail = {}
                      /\ gate.activated /\ avail # {} =>
                           gate.cur_using = First(avail)
                      /\ ~gate.activated => gate.cur_using = 0
    BY DEF QuietMeansRight
  <2>1. /\ ReleaseFailed = {} /\ ReleaseWorse = {} /\ AnnounceFail = {}
        /\ AnnounceOnline = {} /\ ClaimBetter = {}
    BY DEF Outputs
  <2>2. gate.prev_using = 0
    BY <2>1, WhenEmpty, Zenon DEF ReleaseFailed
  <2>3. gate.repairing_deactivate = 0
    BY <2>1, <2>2, WhenEmpty, Zenon DEF ReleaseWorse
  <2>4. gate.done \/ avail # {}
    BY <2>1, <2>2, <2>3, WhenEmpty, Zenon DEF AnnounceFail
  <2>5. ~(/\ gate.done
          /\ gate.cur_using \in avail \/ (avail # {} /\ ~gate.activated))
    BY <2>1, WhenEmpty, Zenon DEF AnnounceOnline
  <2>6. ~(/\ gate.activated /\ avail # {}
          /\ gate.prev_using = 0 /\ gate.repairing_deactivate = 0
          /\ First(avail) # gate.cur_using)
    BY <2>1, WhenEmpty, Zenon DEF ClaimBetter
  <2>7. avail \in SUBSET Children
    BY DEF IInv, TypeOK, Gates, avail, Available
  <2>8. avail # {} => First(avail) \in avail
    BY <2>7, FirstIsLeast
  <2>9. ~gate.activated => gate.cur_using = 0
    BY <2>2 DEF IInv, DormantGivesUp
  <2>10. QED  BY <2>2, <2>3, <2>4, <2>5, <2>6, <2>8, <2>9
<1>2. QED  BY <1>1, SpareInvariant, PTL
==============================================================================
