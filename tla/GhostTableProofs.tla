-------------------------- MODULE GhostTableProofs --------------------------
(***************************************************************************)
(* Proofs about the ghost table, for any hash range and any sizes: every   *)
(* ghost is where a probe for it stops, one pass of an eviction suffices,  *)
(* the table is never more than half full, and it is a map.                *)
(***************************************************************************)
EXTENDS GhostTable, FiniteSetTheorems, TLAPS

-----------------------------------------------------------------------------
(* Probing.  Slots lie on a circle; a home is a slot.                      *)
LEMMA HomeIsSlot ==
    ASSUME NEW n \in Nat, n > 0, NEW id \in Id
    PROVE  Home(id, n) \in 0 .. (n - 1)
<1>1. id \in Nat /\ id < HashRange /\ HashRange \in Nat /\ HashRange > 0
  BY GhostAssumption
<1> DEFINE p == id * n
           q == p \div HashRange
<1>2. p \in Nat /\ p < HashRange * n
  BY <1>1
<1>3. q \in Int /\ HashRange * q <= p /\ p < HashRange * q + HashRange
  BY <1>1, <1>2
<1>4. 0 <= q
  BY <1>1, <1>2, <1>3
<1>5. q < n
  BY <1>1, <1>2, <1>3
<1>6. QED
  BY <1>3, <1>4, <1>5 DEF Home

LEMMA StepsRange ==
    ASSUME cap \in Nat, NEW i \in Slot, NEW j \in Slot
    PROVE  Steps(i, j) \in 0 .. (cap - 1)
  BY DEF Steps, Slot

LEMMA StepsInjective ==
    ASSUME cap \in Nat, NEW i \in Slot, NEW j \in Slot, NEW k \in Slot,
           Steps(i, j) = Steps(i, k)
    PROVE  j = k
  BY DEF Steps, Slot

(* What lies behind a on the way from h is as far from h as a and more.    *)
LEMMA Further ==
    ASSUME cap \in Nat, NEW h \in Slot, NEW a \in Slot, NEW i \in Slot,
           Steps(h, a) <= Steps(h, i)
    PROVE  Steps(h, i) = Steps(h, a) + Steps(a, i)
  BY DEF Steps, Slot

(* What is nearer to i than a lies between them.                           *)
LEMMA Nearer ==
    ASSUME cap \in Nat, NEW h \in Slot, NEW a \in Slot, NEW i \in Slot,
           Steps(a, i) <= Steps(h, i)
    PROVE  Steps(h, i) = Steps(h, a) + Steps(a, i)
  BY DEF Steps, Slot

LEMMA Detour ==
    ASSUME cap \in Nat, NEW h \in Slot, NEW a \in Slot, NEW i \in Slot
    PROVE  Steps(h, i) <= Steps(h, a) + Steps(a, i)
  BY DEF Steps, Slot

LEMMA AfterIsSlot ==
    ASSUME cap \in Nat, NEW i \in Slot
    PROVE  After(i) \in Slot
  BY DEF After, Slot

(* One slot on is one step more, but for the slot the steps begin from.    *)
LEMMA StepsAfter ==
    ASSUME cap \in Nat, NEW i \in Slot, NEW j \in Slot, After(j) # i
    PROVE  Steps(i, After(j)) = Steps(i, j) + 1
  BY DEF Steps, After, Slot

-----------------------------------------------------------------------------
(* Which variables say something in which loop.                            *)
LoopsAgree ==
    /\ pc # "rehash" => old = NoSlots
    /\ pc \in {"rehash", "place"} => cap > 0 /\ pending \in Ghost /\ ~pending.due
    /\ pc \in {"idle", "place"} => at = 0

(* No two ghosts are of one entity.                                        *)
Distinct ==
    \A i, j \in Slot : Taken(i) /\ Taken(j) /\ slots[i].id = slots[j].id => i = j

(* Nothing is vacant between the home of a ghost and its slot, but for the *)
(* hole of remove_at, if the entry has not been looked at.                 *)
PathsTaken ==
    \A i \in Slot : Taken(i) =>
        \A k \in Before(slots[i].id, i) :
            \/ Taken(k)
            \/ pc = "shift" /\ k = hole /\ Steps(hole, probe) <= Steps(hole, i)

(* Between the slot being emptied and the one looked at, only the hole is  *)
(* vacant.                                                                 *)
HoleBehind ==
    pc = "shift" =>
        /\ ~Taken(hole)
        /\ Steps(at, hole) < Steps(at, probe)
        /\ \A k \in Slot : Steps(at, k) < Steps(at, probe) /\ k # hole => Taken(k)

(* A ghost is in the old slots or in the new ones.                         *)
OldDistinct ==
    pc = "rehash" =>
        \A k \in DOMAIN old : at <= k /\ old[k] # Vacant =>
            /\ \A n \in DOMAIN old : old[n] # Vacant /\ old[n].id = old[k].id => n = k
            /\ \A i \in Slot : Taken(i) => slots[i].id # old[k].id

(* What is still to be moved by a rehash.                                  *)
TakenSlots == {i \in Slot : Taken(i)}
Rest == IF pc = "rehash" THEN {k \in DOMAIN old : at <= k /\ old[k] # Vacant} ELSE {}

(* len counts what there is, wherever it is, and there is room for one     *)
(* more while one is being put in or out.                                  *)
Counted ==
    /\ len = Cardinality(TakenSlots) + Cardinality(Rest)
    /\ 2 * len <= cap
    /\ pc \in {"rehash", "place", "shift"} => 2 * (len + 1) <= cap

IInv ==
    /\ TypeOK
    /\ LoopsAgree
    /\ Distinct
    /\ PathsTaken
    /\ HoleBehind
    /\ OldDistinct
    /\ Counted
    /\ PassedStay

LEMMA VacantIsNoGhost == Vacant \notin Ghost
<1>1. \A g \in Ghost : g.id # Vacant.id
  BY GhostAssumption DEF Ghost, Vacant
<1>2. QED
  BY <1>1

LEMMA GrownMore ==
    ASSUME TypeOK PROVE Grown \in Nat /\ Grown > 0 /\ Grown >= MinSlots /\ Grown >= 2 * cap
  BY GhostAssumption DEF TypeOK, Grown

LEMMA NoSlotsType ==
    \E n \in 0 .. MaxSlots : NoSlots \in [0 .. (n - 1) -> Ghost \cup {Vacant}]
<1>1. 0 \in 0 .. MaxSlots
  BY GhostAssumption
<1>2. NoSlots \in [0 .. (0 - 1) -> Ghost \cup {Vacant}]
  BY DEF NoSlots
<1>3. QED
  BY <1>1, <1>2

LEMMA TakenFinite ==
    ASSUME cap \in Nat
    PROVE  /\ IsFiniteSet(TakenSlots)
           /\ Cardinality(TakenSlots) \in Nat
           /\ Cardinality(TakenSlots) = 0 <=> TakenSlots = {}
<1>1. IsFiniteSet(Slot)
  BY FS_Interval DEF Slot
<1>2. IsFiniteSet(TakenSlots)
  BY <1>1, FS_Subset DEF TakenSlots
<1>3. QED
  BY <1>2, FS_CardinalityType, FS_EmptySet

-----------------------------------------------------------------------------
LEMMA InitIInv == Init => IInv
<1> SUFFICES ASSUME Init PROVE IInv
  OBVIOUS
<1> USE GhostAssumption DEF Init
<1>1. cap \in Nat /\ \A i \in Slot : slots[i] = Vacant
  BY DEF Slot
<1>2. TypeOK
  <2>1. slots \in [Slot -> Ghost \cup {Vacant}]
    OBVIOUS
  <2>2. QED
    BY <2>1, NoSlotsType DEF TypeOK
<1>3. LoopsAgree /\ Distinct /\ PathsTaken /\ HoleBehind /\ OldDistinct /\ PassedStay
  BY <1>1 DEF LoopsAgree, Distinct, PathsTaken, HoleBehind, OldDistinct, PassedStay, Taken
<1>4. TakenSlots = {} /\ Rest = {}
  BY <1>1 DEF TakenSlots, Taken, Rest
<1>5. Counted
  BY <1>1, <1>4, FS_EmptySet DEF Counted
<1>6. QED
  BY <1>2, <1>3, <1>5 DEF IInv

-----------------------------------------------------------------------------
(* Every step leaves the state well formed.                                *)
LEMMA TypeStep ==
    TypeOK /\ LoopsAgree /\ Counted /\ HoleBehind /\ [Next]_vars => TypeOK' /\ LoopsAgree'
<1> SUFFICES ASSUME TypeOK, LoopsAgree, Counted, HoleBehind, [Next]_vars
    PROVE  TypeOK' /\ LoopsAgree'
  OBVIOUS
<1> USE GhostAssumption, VacantIsNoGhost DEF TypeOK, LoopsAgree, tableVars, loopVars
<1>0. /\ cap \in Nat /\ MaxSlots \in Nat
      /\ \A i \in Slot : slots[i] # Vacant => slots[i] \in Ghost
      /\ \A i \in Slot : slots[i] \in Ghost =>
           slots[i].id \in Id /\ slots[i].mark \in Mark /\ slots[i].due \in BOOLEAN
      /\ Slot \subseteq 0 .. MaxSlots
  BY SMTT(30) DEF Slot, Ghost
<1>1. ASSUME NEW id \in Id, NEW m \in Mark, Sent(id, m) PROVE TypeOK' /\ LoopsAgree'
  <2>1. pending' \in Ghost /\ ~pending'.due
    BY <1>1 DEF Sent, Ghost
  <2>2. CASE ~Full
    BY <1>1, <2>1, <2>2 DEF Sent, Full, Slot
  <2>3. CASE Full
    <3>1. Grown \in MinSlots .. MaxSlots
      BY <1>1, <2>3, GrownMore DEF Sent
    <3>2. slots' \in [0 .. (cap' - 1) -> Ghost \cup {Vacant}] /\ cap' = Grown
      BY <1>1, <2>3 DEF Sent
    <3>3. old' \in [0 .. (cap - 1) -> Ghost \cup {Vacant}] /\ cap \in 0 .. MaxSlots
      BY <1>1, <2>3, <1>0 DEF Sent, Slot
    <3>4. QED
      BY SMTT(30), <1>1, <2>1, <2>3, <3>1, <3>2, <3>3 DEF Sent, Slot
  <2>4. QED
    BY <2>2, <2>3
<1>2. ASSUME NEW id \in Id, Seen(id) PROVE TypeOK' /\ LoopsAgree'
  <2>1. PICK i \in Slot : Taken(i) /\ slots' = [slots EXCEPT ![i].due = FALSE]
    BY <1>2 DEF Seen
  <2>2. [slots[i] EXCEPT !.due = FALSE] \in Ghost
    BY <1>0, <2>1 DEF Taken, Ghost
  <2>3. slots' \in [Slot -> Ghost \cup {Vacant}]
    BY <2>1, <2>2
  <2>4. QED
    BY <1>2, <2>3 DEF Seen, Slot
<1>3. ASSUME NEW i \in Slot, Pass(i) PROVE TypeOK' /\ LoopsAgree'
  <2>1. [slots[i] EXCEPT !.due = TRUE] \in Ghost
    BY <1>0, <1>3 DEF Pass, Taken, Ghost
  <2>2. slots' \in [Slot -> Ghost \cup {Vacant}]
    BY <1>3, <2>1 DEF Pass
  <2>3. QED
    BY <1>3, <2>2 DEF Pass, Slot
<1>4. CASE Evict
  BY <1>4 DEF Evict, Slot
<1>5. CASE Clear
  <2>1. slots' \in [Slot -> Ghost \cup {Vacant}]
    BY <1>5 DEF Clear
  <2>2. QED
    BY <1>5, <2>1 DEF Clear, Slot
<1>6. CASE Rehash
  <2>1. at \in DOMAIN old /\ at + 1 \in 0 .. MaxSlots /\ old[at] \in Ghost \cup {Vacant}
    BY <1>6 DEF Rehash
  <2>2. slots' \in [Slot -> Ghost \cup {Vacant}]
    BY <1>6, <2>1 DEF Rehash
  <2>3. QED
    BY <1>6, <2>1, <2>2 DEF Rehash, Slot
<1>7. CASE Rehashed
  BY <1>7, NoSlotsType DEF Rehashed, Slot
<1>8. CASE Place
  <2>1. PICK i \in Slot : slots' = [slots EXCEPT ![i] = pending]
                          /\ len' = IF Taken(i) THEN len ELSE len + 1
    BY <1>8 DEF Place
  <2>2. pending \in Ghost /\ 2 * (len + 1) <= cap
    BY <1>8 DEF Place, Counted
  <2>3. slots' \in [Slot -> Ghost \cup {Vacant}] /\ len' \in 0 .. MaxSlots
    BY <1>0, <2>1, <2>2
  <2>4. QED
    BY <1>8, <2>3 DEF Place, Slot
<1>9. CASE Keep
  BY <1>9, <1>0 DEF Keep, Slot
<1>10. CASE Remove
  <2>1. at \in Slot /\ slots[at] \in Ghost
    BY <1>10, <1>0 DEF Remove, Vacant
  <2>2. slots' \in [Slot -> Ghost \cup {Vacant}] /\ departed' \subseteq Id
    BY <1>10, <1>0, <2>1 DEF Remove
  <2>3. len' \in 0 .. MaxSlots
    <3>1. at \in TakenSlots
      BY <2>1 DEF TakenSlots, Taken
    <3>2. Cardinality(TakenSlots) \in Nat \ {0}
      BY <3>1, <1>0, TakenFinite
    <3>3. Rest = {}
      BY <1>10 DEF Remove, Rest
    <3>4. Cardinality(Rest) = 0
      BY <3>3, FS_EmptySet
    <3>5. QED
      BY <1>10, <3>2, <3>4 DEF Remove, Counted
  <2>4. After(at) \in Slot
    BY <2>1, <1>0, AfterIsSlot
  <2>5. QED
    BY <1>10, <1>0, <2>1, <2>2, <2>3, <2>4 DEF Remove, Slot
<1>11. CASE Fill
  <2>1. After(probe) \in Slot
    BY <1>11, <1>0, AfterIsSlot DEF Fill
  <2>2. slots' \in [Slot -> Ghost \cup {Vacant}]
    BY <1>11, <1>0 DEF Fill
  <2>3. QED
    BY <1>11, <1>0, <2>1, <2>2 DEF Fill, Slot
<1>12. CASE Skip
  <2>1. After(probe) \in Slot
    BY <1>12, <1>0, AfterIsSlot DEF Skip
  <2>2. QED
    BY <1>12, <1>0, <2>1 DEF Skip, Slot
<1>13. CASE Shifted
  BY <1>13 DEF Shifted, Slot
<1>14. CASE Evicted
  BY <1>14 DEF Evicted, Slot
<1>15. CASE UNCHANGED vars
  BY <1>15 DEF vars, Slot
<1>16. QED
  BY <1>1, <1>2, <1>3, <1>4, <1>5, <1>6, <1>7, <1>8, <1>9, <1>10, <1>11, <1>12,
     <1>13, <1>14, <1>15 DEF Next, Loop

-----------------------------------------------------------------------------
(* A probe for an entity that is held stops nowhere but at it.             *)
LEMMA FindsOnly ==
    ASSUME TypeOK, Distinct, PathsTaken, pc # "shift",
           NEW id \in Id, NEW i \in Slot, Finds(id, i),
           NEW j \in Slot, Taken(j), slots[j].id = id
    PROVE  i = j
<1> DEFINE h == Home(id, cap)
<1>1. cap \in Nat /\ cap > 0
  BY DEF TypeOK, Slot
<1>2. h \in Slot
  BY <1>1, HomeIsSlot DEF Slot
<1> HIDE DEF h
<1>3. Steps(h, i) \in Int /\ Steps(h, j) \in Int
  BY <1>1, <1>2, StepsRange
<1>4. ~(Steps(h, j) < Steps(h, i))
  BY DEF Finds, Before, h
<1>5. CASE Taken(i)
  BY <1>5 DEF Finds, Distinct
<1>6. CASE ~Taken(i)
  <2>1. i \notin Before(id, j)
    BY <1>6 DEF PathsTaken
  <2>2. ~(Steps(h, i) < Steps(h, j))
    BY <2>1 DEF Before, h
  <2>3. Steps(h, i) = Steps(h, j)
    BY <1>3, <1>4, <2>2
  <2>4. QED
    BY <1>1, <1>2, <2>3, StepsInjective
<1>7. QED
  BY <1>5, <1>6

(* No two ghosts are of one entity, and what a rehash has still to move is *)
(* not in the table yet.                                                   *)
LEMMA DistinctStep ==
    IInv /\ [Next]_vars => Distinct' /\ OldDistinct'
<1> SUFFICES ASSUME IInv, [Next]_vars PROVE Distinct' /\ OldDistinct'
  OBVIOUS
<1> USE GhostAssumption, VacantIsNoGhost
        DEF TypeOK, LoopsAgree, Distinct, OldDistinct, tableVars, loopVars, Taken
<1>0. /\ cap \in Nat
      /\ TypeOK /\ LoopsAgree /\ Distinct /\ OldDistinct /\ PathsTaken
      /\ \A i \in Slot : slots[i] # Vacant => slots[i] \in Ghost /\ slots[i].id \in Id
  BY DEF IInv, Slot, Ghost
<1>1. ASSUME NEW id \in Id, NEW m \in Mark, Sent(id, m) PROVE Distinct' /\ OldDistinct'
  <2>1. CASE ~Full
    BY <1>0, <1>1, <2>1 DEF Sent, Slot
  <2>2. CASE Full
    <3>1. \A i \in Slot' : slots'[i] = Vacant
      BY <1>1, <2>2 DEF Sent, Slot
    <3>2. DOMAIN old' = Slot /\ old' = slots
      BY <1>0, <1>1, <2>2 DEF Sent
    <3>3. QED
      BY <1>0, <3>1, <3>2
  <2>3. QED
    BY <2>1, <2>2
<1>2. ASSUME NEW id \in Id, Seen(id) PROVE Distinct' /\ OldDistinct'
  <2>1. PICK i \in Slot : slots[i] # Vacant /\ slots' = [slots EXCEPT ![i].due = FALSE]
    BY <1>2 DEF Seen
  <2>2. [slots[i] EXCEPT !.due = FALSE].id = slots[i].id
    BY <1>0, <2>1 DEF Ghost
  <2>3. \A j \in Slot : slots'[j].id = slots[j].id /\ (slots'[j] # Vacant => slots[j] # Vacant)
    BY <1>0, <2>1, <2>2
  <2>4. QED
    BY SMTT(30), <1>0, <1>2, <2>3 DEF Seen, Slot
<1>3. ASSUME NEW i \in Slot, Pass(i) PROVE Distinct' /\ OldDistinct'
  <2>1. [slots[i] EXCEPT !.due = TRUE].id = slots[i].id
    BY <1>0, <1>3 DEF Pass, Ghost
  <2>2. \A j \in Slot : slots'[j].id = slots[j].id /\ (slots'[j] # Vacant => slots[j] # Vacant)
    BY <1>0, <1>3, <2>1 DEF Pass
  <2>3. QED
    BY <1>0, <1>3, <2>2 DEF Pass, Slot
<1>4. CASE Evict
  BY <1>0, <1>4 DEF Evict, Slot
<1>5. CASE Clear
  BY <1>0, <1>5 DEF Clear, Slot
<1>6. CASE Rehash
  <2>1. /\ pc = "rehash" /\ pc' = "rehash" /\ Slot' = Slot
        /\ at \in DOMAIN old /\ at' = at + 1 /\ old' = old /\ at \in Int /\ DOMAIN old \subseteq Int
    BY <1>0, <1>6 DEF Rehash, Slot
  <2>2. CASE slots' = slots
    BY SMTT(30), <1>0, <2>1, <2>2
  <2>3. ASSUME NEW i \in Slot, old[at] # Vacant, slots[i] = Vacant,
               slots' = [slots EXCEPT ![i] = old[at]]
        PROVE  Distinct' /\ OldDistinct'
    <3>1. \A j \in Slot : slots[j] # Vacant => slots[j].id # old[at].id
      BY SMTT(30), <1>0, <2>1, <2>3
    <3>2. \A j \in Slot : slots'[j] = IF j = i THEN old[at] ELSE slots[j]
      BY <1>0, <2>3
    <3>3. Distinct'
      <4> SUFFICES ASSUME NEW j \in Slot, NEW k \in Slot, slots'[j] # Vacant, slots'[k] # Vacant,
                          slots'[j].id = slots'[k].id
                   PROVE  j = k
        BY <2>1
      <4>1. CASE j = i \/ k = i
        BY <2>3, <3>1, <3>2, <4>1
      <4>2. CASE j # i /\ k # i
        BY <1>0, <3>2, <4>2
      <4>3. QED
        BY <4>1, <4>2
    <3>4. \A k \in DOMAIN old : at + 1 <= k /\ old[k] # Vacant =>
            old[k].id # old[at].id /\ at <= k
      BY <1>0, <2>1, <2>3
    <3>5. OldDistinct'
      <4> SUFFICES ASSUME NEW k \in DOMAIN old, at + 1 <= k, old[k] # Vacant
                   PROVE  /\ \A n \in DOMAIN old : old[n] # Vacant /\ old[n].id = old[k].id => n = k
                          /\ \A j \in Slot : slots'[j] # Vacant => slots'[j].id # old[k].id
        BY <2>1
      <4>1. at <= k /\ old[k].id # old[at].id
        BY <3>4
      <4>2. QED
        BY <1>0, <2>1, <3>2, <4>1
    <3>6. QED
      BY <3>3, <3>5
  <2>4. QED
    BY <1>6, <2>2, <2>3 DEF Rehash
<1>7. CASE Rehashed
  BY <1>0, <1>7 DEF Rehashed, Slot
<1>8. CASE Place
  <2>1. pending \in Ghost /\ pending.id \in Id /\ pc = "place"
    BY <1>0, <1>8 DEF Place, Ghost
  <2>2. PICK i \in Slot : Finds(pending.id, i) /\ slots' = [slots EXCEPT ![i] = pending]
    BY <1>8 DEF Place
  <2>3. \A j \in Slot : slots[j] # Vacant /\ slots[j].id = pending.id => i = j
    BY <1>0, <2>1, <2>2, FindsOnly
  <2>4. QED
    BY SMTT(30), <1>0, <1>8, <2>2, <2>3 DEF Place, Slot
<1>9. CASE Keep
  BY <1>0, <1>9 DEF Keep, Slot
<1>10. CASE Remove
  BY <1>0, <1>10 DEF Remove, Slot
<1>11. CASE Fill
  <2>1. {hole, probe} \subseteq Slot /\ cap' = cap /\ pc' = "shift" /\ hole # probe
    BY <1>0, <1>11 DEF Fill, IInv, HoleBehind
  <2>2. \A j \in Slot : slots'[j] = IF j = probe THEN Vacant
                                   ELSE IF j = hole THEN slots[probe] ELSE slots[j]
    BY <1>0, <1>11, <2>1 DEF Fill
  <2>3. OldDistinct' /\ Slot' = Slot
    BY <2>1 DEF Slot
  <2>4. SUFFICES ASSUME NEW j \in Slot, NEW k \in Slot, slots'[j] # Vacant, slots'[k] # Vacant,
                        slots'[j].id = slots'[k].id
                 PROVE  j = k
    BY <2>3
  <2>5. j # probe /\ k # probe
    BY <2>2, <2>4
  <2>6. CASE j = hole
    BY <1>0, <1>11, <2>1, <2>2, <2>4, <2>5, <2>6 DEF Fill
  <2>7. CASE k = hole
    BY <1>0, <1>11, <2>1, <2>2, <2>4, <2>5, <2>7 DEF Fill
  <2>8. CASE j # hole /\ k # hole
    BY <1>0, <2>2, <2>4, <2>5, <2>8
  <2>9. QED
    BY <2>6, <2>7, <2>8
<1>12. CASE Skip
  BY <1>0, <1>12 DEF Skip, Slot
<1>13. CASE Shifted
  BY <1>0, <1>13 DEF Shifted, Slot
<1>14. CASE Evicted
  BY <1>0, <1>14 DEF Evicted, Slot
<1>15. CASE UNCHANGED vars
  BY <1>0, <1>15 DEF vars, Slot
<1>16. QED
  BY <1>1, <1>2, <1>3, <1>4, <1>5, <1>6, <1>7, <1>8, <1>9, <1>10, <1>11, <1>12,
     <1>13, <1>14, <1>15 DEF Next, Loop

-----------------------------------------------------------------------------
(* remove_at meets a vacant slot before it is round: with all slots taken  *)
(* but the hole, the table would be more than half full.                   *)
LEMMA NotRound ==
    ASSUME IInv, pc = "shift", Taken(probe)
    PROVE  After(probe) # at
<1> SUFFICES ASSUME After(probe) = at PROVE FALSE
  OBVIOUS
<1>1. cap \in Nat /\ cap > 0 /\ {at, hole, probe} \subseteq Slot /\ IsFiniteSet(Slot)
      /\ Cardinality(Slot) = cap
  BY FS_Interval DEF IInv, TypeOK, Slot
<1>2. Steps(at, probe) = cap - 1
  BY <1>1 DEF Steps, After, Slot
<1>3. ASSUME NEW k \in Slot, k # hole PROVE Taken(k)
  <2>1. CASE k = probe
    BY <2>1
  <2>2. CASE k # probe
    <3>1. Steps(at, k) \in 0 .. (cap - 1) /\ Steps(at, k) # Steps(at, probe)
      BY <1>1, <2>2, StepsRange, StepsInjective
    <3>2. Steps(at, k) < Steps(at, probe)
      BY <1>1, <1>2, <3>1
    <3>3. QED
      BY <1>3, <3>2 DEF IInv, HoleBehind
  <2>3. QED
    BY <2>1, <2>2
<1>4. Slot \ {hole} \subseteq TakenSlots
  BY <1>3 DEF TakenSlots
<1>5. IsFiniteSet(Slot \ {hole}) /\ Cardinality(Slot \ {hole}) = cap - 1
  BY <1>1, FS_RemoveElement
<1>6. Cardinality(TakenSlots) \in Nat /\ cap - 1 <= Cardinality(TakenSlots)
  BY <1>1, <1>4, <1>5, FS_Subset, TakenFinite
<1>7. Cardinality(Rest) = 0
  BY FS_EmptySet DEF Rest
<1>8. 2 * (Cardinality(TakenSlots) + 1) <= cap
  BY <1>6, <1>7 DEF IInv, Counted
<1>9. QED
  BY <1>1, <1>6, <1>8

(* While an entry is being removed, the hole is the only vacant slot       *)
(* between the slot emptied first and the one looked at.                   *)
LEMMA HoleStep == IInv /\ [Next]_vars => HoleBehind'
<1> SUFFICES ASSUME IInv, [Next]_vars, pc' = "shift" PROVE HoleBehind'
  BY DEF HoleBehind
<1> USE GhostAssumption DEF TypeOK, HoleBehind, tableVars, loopVars
<1>0. /\ cap \in Nat
      /\ TypeOK
      /\ \A i, j \in Slot : Steps(i, j) \in Int
  BY StepsRange DEF IInv
<1>1. ASSUME cap' = cap, at' = at, slots'[hole'] = Vacant,
             Steps(at, hole') < Steps(at, probe'),
             \A k \in Slot : Steps(at, k) < Steps(at, probe') /\ k # hole' => slots'[k] # Vacant
      PROVE  HoleBehind'
  <2>1. ~Taken(hole)'
    BY <1>1 DEF Taken
  <2>2. (Steps(at, hole) < Steps(at, probe))'
    BY <1>1 DEF Steps
  <2>3. ASSUME NEW k \in Slot', (Steps(at, k) < Steps(at, probe))', k # hole'
        PROVE  Taken(k)'
    <3>1. k \in Slot /\ Steps(at, k) < Steps(at, probe')
      BY <1>1, <2>3 DEF Steps, Slot
    <3>2. slots'[k] # Vacant
      BY <1>1, <2>3, <3>1
    <3>3. QED
      BY <3>2 DEF Taken
  <2>4. QED
    BY <2>1, <2>2, <2>3
<1>2. CASE Remove
  <2>1. at \in Slot /\ cap >= 2 /\ Slot' = Slot
    BY <1>0, <1>2 DEF Remove, Slot
  <2>2. After(at) # at /\ Steps(at, at) = 0 /\ Steps(at, After(at)) = 1
    BY <1>0, <2>1 DEF After, Steps, Slot
  <2>3. \A k \in Slot : Steps(at, k) < 1 => k = at
    BY SMTT(30), <1>0, <2>1 DEF Steps, Slot
  <2>4. hole' = at /\ probe' = After(at) /\ at' = at /\ slots'[at] = Vacant /\ cap' = cap
    BY <1>0, <1>2, <2>1 DEF Remove
  <2>5. Steps(at, hole') < Steps(at, probe')
    BY <2>2, <2>4
  <2>6. \A k \in Slot : ~(Steps(at, k) < Steps(at, probe') /\ k # hole')
    BY <2>2, <2>3, <2>4
  <2>7. QED
    BY <1>1, <2>4, <2>5, <2>6
<1>3. CASE Fill \/ Skip
  <2>1. /\ pc = "shift" /\ Taken(probe) /\ cap' = cap /\ at' = at /\ probe' = After(probe)
        /\ {at, hole, probe} \subseteq Slot
        /\ After(probe) \in Slot
    BY <1>0, <1>3, AfterIsSlot DEF Fill, Skip, Slot
  <2>2. Steps(at, probe') = Steps(at, probe) + 1
    BY <1>0, <2>1, NotRound, StepsAfter
  <2>3. ~Taken(hole) /\ Steps(at, hole) < Steps(at, probe)
    BY <2>1 DEF IInv
  <2>4. \A k \in Slot : Steps(at, k) < Steps(at, probe') =>
          k = probe \/ Steps(at, k) < Steps(at, probe)
    <3> SUFFICES ASSUME NEW k \in Slot, Steps(at, k) < Steps(at, probe'), k # probe
                 PROVE  Steps(at, k) < Steps(at, probe)
      OBVIOUS
    <3>1. Steps(at, k) # Steps(at, probe)
      BY <1>0, <2>1, StepsInjective
    <3>2. Steps(at, k) \in Int /\ Steps(at, probe) \in Int
      BY <1>0, <2>1
    <3>3. QED
      BY <2>2, <3>1, <3>2
  <2>5. \A k \in Slot : Steps(at, k) < Steps(at, probe) /\ k # hole => Taken(k)
    BY <2>1 DEF IInv
  <2>6. Steps(at, probe) \in Int /\ Steps(at, hole) \in Int
    BY <1>0, <2>1
  <2>7. CASE Fill
    <3>1. hole' = probe /\ \A j \in Slot : slots'[j] = IF j = probe THEN Vacant
                                   ELSE IF j = hole THEN slots[probe] ELSE slots[j]
      BY <1>0, <2>1, <2>7 DEF Fill
    <3>2. Steps(at, hole') < Steps(at, probe') /\ slots'[hole'] = Vacant
      BY <2>1, <2>2, <2>6, <3>1
    <3>3. \A k \in Slot : Steps(at, k) < Steps(at, probe') /\ k # hole' => slots'[k] # Vacant
      BY <2>1, <2>4, <2>5, <3>1 DEF Taken
    <3>4. QED
      BY <1>1, <2>1, <3>2, <3>3
  <2>8. CASE Skip
    <3>1. hole' = hole /\ slots' = slots
      BY <2>8 DEF Skip
    <3>2. Steps(at, hole') < Steps(at, probe')
      BY <2>2, <2>3, <2>6, <3>1
    <3>3. slots'[hole'] = Vacant
      BY <2>3, <3>1 DEF Taken
    <3>4. \A k \in Slot : Steps(at, k) < Steps(at, probe') /\ k # hole' => slots'[k] # Vacant
      BY <2>1, <2>4, <2>5, <3>1 DEF Taken
    <3>5. QED
      BY <1>1, <2>1, <3>2, <3>3, <3>4
  <2>9. QED
    BY <1>3, <2>7, <2>8
<1>4. CASE UNCHANGED vars
  BY <1>4 DEF vars, Slot, Steps, Taken, IInv
<1>5. QED
  BY <1>2, <1>3, <1>4
  DEF Next, Loop, Sent, Seen, Pass, Evict, Clear, Rehash, Rehashed, Place, Keep, Shifted, Evicted

-----------------------------------------------------------------------------
(* Nothing becomes vacant on the way to a ghost but the hole, and that one *)
(* only for entries remove_at has still to look at.                        *)
LEMMA PathsStep == IInv /\ [Next]_vars => PathsTaken'
<1> SUFFICES ASSUME IInv, [Next]_vars PROVE PathsTaken'
  OBVIOUS
<1> USE GhostAssumption, VacantIsNoGhost DEF tableVars, loopVars, Taken
<1> DEFINE Home2(i) == Home(slots[i].id, cap)
<1>0. /\ cap \in Nat
      /\ TypeOK /\ LoopsAgree /\ PathsTaken
      /\ \A i, j \in Slot : Steps(i, j) \in Nat
      /\ \A i \in Slot : slots[i] # Vacant =>
           slots[i] \in Ghost /\ slots[i].id \in Id /\ Home2(i) \in Slot
  <2>1. cap \in Nat /\ \A i \in Slot : slots[i] # Vacant => slots[i] \in Ghost /\ slots[i].id \in Id
    BY DEF IInv, TypeOK, Slot, Ghost
  <2>2. \A i \in Slot : cap > 0
    BY <2>1 DEF Slot
  <2>3. \A i \in Slot : slots[i] # Vacant => Home2(i) \in Slot
    BY <2>1, <2>2, HomeIsSlot DEF Slot
  <2>4. \A i, j \in Slot : Steps(i, j) \in Nat
    BY <2>1, StepsRange
  <2>5. QED
    BY <2>1, <2>3, <2>4 DEF IInv
<1>00. pc # "shift" =>
         \A i \in Slot : slots[i] # Vacant => \A k \in Before(slots[i].id, i) : slots[k] # Vacant
  BY <1>0 DEF PathsTaken
(* What the lemma asks of a step that leaves the allocation as it is.      *)
<1>a. ASSUME cap' = cap,
             ASSUME NEW i \in Slot, slots'[i] # Vacant, NEW k \in Before(slots'[i].id, i),
                    slots'[k] = Vacant
             PROVE  pc' = "shift" /\ k = hole' /\ Steps(hole', probe') <= Steps(hole', i)
      PROVE  PathsTaken'
  <2> SUFFICES ASSUME NEW i \in Slot', Taken(i)', NEW k \in Before(slots[i].id, i)', ~Taken(k)'
               PROVE  (pc = "shift" /\ k = hole /\ Steps(hole, probe) <= Steps(hole, i))'
    BY DEF PathsTaken
  <2>1. i \in Slot /\ slots'[i] # Vacant /\ k \in Before(slots'[i].id, i) /\ slots'[k] = Vacant
    BY <1>a DEF Slot, Before, Steps, Home
  <2>2. pc' = "shift" /\ k = hole' /\ Steps(hole', probe') <= Steps(hole', i)
    BY <1>a, <2>1
  <2>3. QED
    BY <1>a, <2>2 DEF Steps
<1>b. ASSUME cap' = cap, pc # "shift",
             \A i \in Slot : slots'[i] # Vacant => slots[i] # Vacant /\ slots'[i].id = slots[i].id,
             \A i \in Slot : slots[i] # Vacant => slots'[i] # Vacant
      PROVE  PathsTaken'
  <2>1. ASSUME NEW i \in Slot, slots'[i] # Vacant, NEW k \in Before(slots'[i].id, i)
        PROVE  slots'[k] # Vacant
    <3>1. k \in Before(slots[i].id, i) /\ k \in Slot
      BY <1>b, <2>1 DEF Before
    <3>2. QED
      BY <1>00, <1>b, <2>1, <3>1
  <2>2. QED
    BY <1>a, <1>b, <2>1
<1>c. ASSUME cap' = cap, pc # "shift", NEW g \in Ghost, NEW n \in Slot,
             \A k \in Before(g.id, n) : slots[k] # Vacant,
             slots' = [slots EXCEPT ![n] = g]
      PROVE  PathsTaken'
  <2>1. \A i \in Slot : slots'[i] = IF i = n THEN g ELSE slots[i]
    BY <1>0, <1>c DEF TypeOK
  <2>2. ASSUME NEW i \in Slot, slots'[i] # Vacant, NEW k \in Before(slots'[i].id, i)
        PROVE  slots'[k] # Vacant
    <3>1. k \in Slot /\ (slots[k] # Vacant => slots'[k] # Vacant)
      BY <2>1 DEF Before
    <3>2. CASE i = n
      BY <1>c, <2>1, <2>2, <3>1, <3>2
    <3>3. CASE i # n
      BY <1>00, <1>c, <2>1, <2>2, <3>1, <3>3
    <3>4. QED
      BY <3>2, <3>3
  <2>3. QED
    BY <1>a, <1>c, <2>2
<1>1. ASSUME NEW id \in Id, NEW m \in Mark, Sent(id, m) PROVE PathsTaken'
  <2>1. CASE ~Full
    BY <1>b, <1>1, <2>1 DEF Sent
  <2>2. CASE Full
    <3>1. \A i \in Slot' : slots'[i] = Vacant
      BY <1>1, <2>2 DEF Sent, Slot
    <3>2. QED
      BY <3>1 DEF PathsTaken
  <2>3. QED
    BY <2>1, <2>2
<1>2. ASSUME NEW id \in Id, Seen(id) PROVE PathsTaken'
  <2>1. PICK i \in Slot : slots[i] # Vacant /\ slots' = [slots EXCEPT ![i].due = FALSE]
    BY <1>2 DEF Seen
  <2>2. [slots[i] EXCEPT !.due = FALSE].id = slots[i].id /\ [slots[i] EXCEPT !.due = FALSE] \in Ghost
    BY <1>0, <2>1 DEF Ghost
  <2>3. \A j \in Slot : slots'[j].id = slots[j].id /\ (slots'[j] # Vacant <=> slots[j] # Vacant)
    BY <1>0, <2>1, <2>2 DEF TypeOK
  <2>4. QED
    BY <1>b, <1>2, <2>3 DEF Seen
<1>3. ASSUME NEW i \in Slot, Pass(i) PROVE PathsTaken'
  <2>1. [slots[i] EXCEPT !.due = TRUE].id = slots[i].id /\ [slots[i] EXCEPT !.due = TRUE] \in Ghost
    BY <1>0, <1>3 DEF Pass, Ghost
  <2>2. \A j \in Slot : slots'[j].id = slots[j].id /\ (slots'[j] # Vacant <=> slots[j] # Vacant)
    BY <1>0, <1>3, <2>1 DEF Pass, TypeOK
  <2>3. QED
    BY <1>b, <1>3, <2>2 DEF Pass
<1>4. CASE Evict \/ Keep \/ Evicted \/ Rehashed
  BY <1>b, <1>4 DEF Evict, Keep, Evicted, Rehashed
<1>5. CASE Clear
  <2>1. \A i \in Slot' : slots'[i] = Vacant
    BY <1>5 DEF Clear, Slot
  <2>2. QED
    BY <2>1 DEF PathsTaken
<1>6. CASE Rehash
  <2>1. CASE slots' = slots
    BY <1>b, <1>6, <2>1 DEF Rehash
  <2>2. CASE slots' # slots
    <3>1. PICK i \in Slot : /\ old[at] # Vacant
                            /\ \A k \in Before(old[at].id, i) : slots[k] # Vacant
                            /\ slots' = [slots EXCEPT ![i] = old[at]]
      BY <1>6, <2>2 DEF Rehash
    <3>2. old[at] \in Ghost /\ cap' = cap /\ pc # "shift"
      BY <1>0, <1>6, <3>1 DEF Rehash, TypeOK
    <3>3. QED
      BY <1>c, <3>1, <3>2
  <2>3. QED
    BY <2>1, <2>2
<1>7. CASE Place
  <2>1. PICK i \in Slot : Finds(pending.id, i) /\ slots' = [slots EXCEPT ![i] = pending]
    BY <1>7 DEF Place
  <2>2. pending \in Ghost /\ cap' = cap /\ pc # "shift"
    BY <1>0, <1>7 DEF Place, LoopsAgree
  <2>3. \A k \in Before(pending.id, i) : slots[k] # Vacant
    BY <2>1 DEF Finds
  <2>4. QED
    BY <1>c, <2>1, <2>2, <2>3
<1>8. CASE Remove
  <2>1. at \in Slot /\ cap >= 2 /\ cap' = cap /\ pc # "shift" /\ pc' = "shift"
        /\ hole' = at /\ probe' = After(at)
    BY <1>0, <1>8 DEF Remove, Slot, TypeOK
  <2>2. \A i \in Slot : slots'[i] = IF i = at THEN Vacant ELSE slots[i]
    BY <1>0, <1>8 DEF Remove, TypeOK
  <2>3. \A i \in Slot : i # at => Steps(at, After(at)) <= Steps(at, i)
    BY <2>1, <1>0 DEF After, Steps, Slot
  <2>4. ASSUME NEW i \in Slot, slots'[i] # Vacant, NEW k \in Before(slots'[i].id, i), slots'[k] = Vacant
        PROVE  k = at /\ i # at
    <3>1. i # at /\ slots[i] # Vacant /\ k \in Before(slots[i].id, i) /\ k \in Slot
      BY <2>2, <2>4 DEF Before
    <3>2. QED
      BY <1>00, <2>1, <2>2, <2>4, <3>1
  <2>5. QED
    BY <1>a, <2>1, <2>3, <2>4
<1>9. CASE Fill
  <2>1. /\ pc = "shift" /\ pc' = "shift" /\ slots[probe] # Vacant /\ cap' = cap
        /\ hole' = probe /\ probe' = After(probe)
        /\ {hole, probe} \subseteq Slot /\ cap >= 2
        /\ slots[hole] = Vacant
    <3>1. /\ pc = "shift" /\ pc' = "shift" /\ slots[probe] # Vacant /\ cap' = cap
          /\ hole' = probe /\ probe' = After(probe)
      BY <1>9 DEF Fill
    <3>2. {hole, probe} \subseteq Slot
      BY <1>0, <3>1 DEF TypeOK
    <3>3. cap >= 2
      BY <1>0, <3>2 DEF TypeOK, Slot
    <3>4. slots[hole] = Vacant
      BY <3>1 DEF IInv, HoleBehind
    <3>5. QED
      BY <3>1, <3>2, <3>3, <3>4
  <2>2. \A j \in Slot : slots'[j] = IF j = probe THEN Vacant
                                   ELSE IF j = hole THEN slots[probe] ELSE slots[j]
    BY <1>0, <1>9, <2>1 DEF Fill, TypeOK
  <2>3. Steps(Home2(probe), probe) = Steps(Home2(probe), hole) + Steps(hole, probe)
    BY <1>0, <1>9, <2>1, Nearer DEF Fill, OnPath
  <2>4. \A i \in Slot : i # probe => Steps(probe, After(probe)) <= Steps(probe, i)
    BY <2>1, <1>0 DEF After, Steps, Slot
  <2>5. ASSUME NEW i \in Slot, slots'[i] # Vacant, NEW k \in Before(slots'[i].id, i), slots'[k] = Vacant
        PROVE  k = probe /\ i # probe
    <3>1. i # probe /\ k \in Slot
      BY <2>2, <2>5 DEF Before
    <3>2. CASE i # hole
      <4>1. slots'[i] = slots[i] /\ slots[i] # Vacant /\ k \in Before(slots[i].id, i)
        BY <2>2, <2>5, <3>1, <3>2
      <4>2. slots[k] # Vacant \/ k = hole
        BY <1>0, <4>1 DEF PathsTaken
      <4>3. QED
        BY <2>1, <2>2, <2>5, <3>1, <4>2
    <3>3. CASE i = hole
      <4>1. slots'[i] = slots[probe] /\ k \in Before(slots[probe].id, hole)
        BY <2>2, <2>5, <3>1, <3>3
      <4>2. Steps(Home2(probe), k) < Steps(Home2(probe), hole)
        BY <4>1 DEF Before
      <4>3. Steps(Home2(probe), k) < Steps(Home2(probe), probe) /\ k # hole
        <5>1. /\ Steps(Home2(probe), k) \in Nat /\ Steps(Home2(probe), hole) \in Nat
              /\ Steps(hole, probe) \in Nat
          BY <1>0, <2>1, <3>1
        <5>2. QED
          BY <2>3, <4>2, <5>1
      <4>4. k \in Before(slots[probe].id, probe) /\ k # probe
        <5>1. Steps(Home2(probe), k) \in Nat
          BY <1>0, <2>1, <3>1
        <5>2. QED
          BY <3>1, <4>3, <5>1 DEF Before
      <4>5. slots[k] # Vacant
        BY <1>0, <2>1, <4>3, <4>4 DEF PathsTaken
      <4>6. QED
        BY <2>2, <2>5, <3>1, <4>3, <4>4, <4>5
    <3>4. QED
      BY <3>2, <3>3
  <2>6. QED
    BY <1>a, <2>1, <2>4, <2>5
<1>10. CASE Skip
  <2>1. /\ pc = "shift" /\ pc' = "shift" /\ slots[probe] # Vacant /\ cap' = cap
        /\ hole' = hole /\ probe' = After(probe) /\ slots' = slots
        /\ {hole, probe} \subseteq Slot
    BY <1>0, <1>10 DEF Skip, TypeOK
  <2>2. ASSUME NEW i \in Slot, slots'[i] # Vacant, NEW k \in Before(slots'[i].id, i), slots'[k] = Vacant
        PROVE  k = hole /\ Steps(hole, After(probe)) <= Steps(hole, i)
    <3>1. k \in Slot /\ slots[i] # Vacant /\ k \in Before(slots[i].id, i) /\ slots[k] = Vacant
      BY <2>1, <2>2 DEF Before
    <3>2. k = hole /\ Steps(hole, probe) <= Steps(hole, i)
      BY <1>0, <3>1 DEF PathsTaken
    <3>3. i # probe
      <4> SUFFICES ASSUME i = probe PROVE FALSE
        OBVIOUS
      <4>1. Steps(Home2(probe), hole) < Steps(Home2(probe), probe)
        BY <3>1, <3>2 DEF Before
      <4>2. Home2(probe) \in Slot
        BY <1>0, <2>1
      <4>3. Steps(Home2(probe), hole) \in Nat /\ Steps(Home2(probe), probe) \in Nat
            /\ Steps(hole, probe) \in Nat
        BY <1>0, <2>1, <4>2
      <4>4. Steps(Home2(probe), probe) = Steps(Home2(probe), hole) + Steps(hole, probe)
        BY <1>0, <2>1, <4>1, <4>2, <4>3, Further
      <4>5. OnPath
        BY <4>3, <4>4 DEF OnPath
      <4>6. QED
        BY <1>10, <4>5 DEF Skip
    <3>4. Steps(hole, probe) < Steps(hole, i)
      <4>1. Steps(hole, probe) # Steps(hole, i)
        BY <1>0, <2>1, <3>3, StepsInjective
      <4>2. Steps(hole, probe) \in Nat /\ Steps(hole, i) \in Nat
        BY <1>0, <2>1
      <4>3. QED
        BY <3>2, <4>1, <4>2
    <3>5. CASE After(probe) = hole
      <4>1. Steps(hole, hole) = 0 /\ Steps(hole, i) \in Nat
        BY <1>0, <2>1 DEF Steps, Slot
      <4>2. QED
        BY <3>2, <3>5, <4>1
    <3>6. CASE After(probe) # hole
      <4>1. Steps(hole, After(probe)) = Steps(hole, probe) + 1
        BY <1>0, <2>1, <3>6, StepsAfter
      <4>2. Steps(hole, probe) \in Nat /\ Steps(hole, i) \in Nat
        BY <1>0, <2>1
      <4>3. QED
        BY <3>2, <3>4, <4>1, <4>2
    <3>7. QED
      BY <3>5, <3>6
  <2>3. QED
    BY <1>a, <2>1, <2>2
<1>11. CASE Shifted
  <2>1. /\ pc = "shift" /\ slots[probe] = Vacant /\ cap' = cap /\ slots' = slots
        /\ {at, hole, probe} \subseteq Slot
    BY <1>0, <1>11 DEF Shifted, TypeOK
  <2>2. hole # probe
    <3>1. Steps(at, hole) < Steps(at, probe) /\ Steps(at, probe) \in Nat
      BY <1>0, <2>1 DEF IInv, HoleBehind
    <3>2. QED
      BY <3>1
  <2>3. ASSUME NEW i \in Slot, slots[i] # Vacant, NEW k \in Before(slots[i].id, i)
        PROVE  slots[k] # Vacant
    <3> SUFFICES ASSUME slots[k] = Vacant PROVE FALSE
      OBVIOUS
    <3>1. k = hole /\ Steps(hole, probe) <= Steps(hole, i)
      BY <1>0, <2>3 DEF PathsTaken
    <3>2. Steps(Home2(i), hole) < Steps(Home2(i), i) /\ Home2(i) \in Slot
      BY <1>0, <2>3, <3>1 DEF Before
    <3>3. /\ Steps(Home2(i), hole) \in Nat /\ Steps(Home2(i), i) \in Nat
          /\ Steps(Home2(i), probe) \in Nat /\ Steps(hole, probe) \in Nat
          /\ Steps(hole, i) \in Nat
      BY <1>0, <2>1, <3>2
    <3>4. Steps(Home2(i), i) = Steps(Home2(i), hole) + Steps(hole, i)
      BY <1>0, <2>1, <3>2, <3>3, Further
    <3>5. Steps(Home2(i), probe) <= Steps(Home2(i), hole) + Steps(hole, probe)
      BY <1>0, <2>1, <3>2, Detour
    <3>6. Steps(Home2(i), probe) <= Steps(Home2(i), i)
      BY <3>1, <3>3, <3>4, <3>5
    <3>7. Steps(Home2(i), probe) # Steps(Home2(i), i)
      BY <1>0, <2>1, <2>3, <3>2, StepsInjective
    <3>8. probe \in Before(slots[i].id, i)
      BY <2>1, <3>3, <3>6, <3>7 DEF Before
    <3>9. QED
      BY <1>0, <2>1, <2>2, <2>3, <3>8 DEF PathsTaken
  <2>4. QED
    BY <1>a, <2>1, <2>3
<1>12. CASE UNCHANGED vars
  <2>1. /\ cap' = cap /\ slots' = slots /\ pc' = pc /\ hole' = hole /\ probe' = probe
    BY <1>12 DEF vars
  <2>2. QED
    BY <1>0, <1>a, <2>1 DEF PathsTaken
<1>13. QED
  BY <1>1, <1>2, <1>3, <1>4, <1>5, <1>6, <1>7, <1>8, <1>9, <1>10, <1>11, <1>12 DEF Next, Loop

-----------------------------------------------------------------------------
LEMMA RestFinite ==
    ASSUME TypeOK
    PROVE  /\ IsFiniteSet(Rest)
           /\ Cardinality(Rest) \in Nat
           /\ Rest = {} => Cardinality(Rest) = 0
<1>1. PICK n \in 0 .. MaxSlots : old \in [0 .. (n - 1) -> Ghost \cup {Vacant}]
  BY DEF TypeOK
<1>2. Rest \subseteq 0 .. (n - 1)
  BY <1>1 DEF Rest
<1>3. IsFiniteSet(Rest)
  <2>1. n - 1 \in Int
    BY GhostAssumption
  <2>2. IsFiniteSet(0 .. (n - 1))
    BY <2>1, FS_Interval
  <2>3. QED
    BY <1>2, <2>2, FS_Subset
<1>4. QED
  BY <1>3, FS_CardinalityType, FS_EmptySet

(* The count follows what is put in, taken out and moved.                  *)
LEMMA CountStep == IInv /\ [Next]_vars => Counted'
<1> SUFFICES ASSUME IInv, [Next]_vars PROVE Counted'
  OBVIOUS
<1> USE GhostAssumption, VacantIsNoGhost DEF tableVars, loopVars, Taken
<1>0. /\ cap \in Nat /\ len \in Nat /\ TypeOK /\ LoopsAgree /\ Counted
      /\ \A i \in Slot : slots[i] # Vacant => slots[i] \in Ghost
      /\ IsFiniteSet(TakenSlots) /\ Cardinality(TakenSlots) \in Nat
      /\ IsFiniteSet(Rest) /\ Cardinality(Rest) \in Nat
      /\ Rest = {} => Cardinality(Rest) = 0
      /\ Cardinality({}) = 0
  <2>1. cap \in Nat /\ len \in Nat /\ TypeOK /\ LoopsAgree /\ Counted
        /\ \A i \in Slot : slots[i] # Vacant => slots[i] \in Ghost
    BY SMTT(30) DEF IInv, TypeOK, Slot, Ghost
  <2>2. QED
    BY <2>1, TakenFinite, RestFinite, FS_EmptySet
<1>1. ASSUME NEW id \in Id, NEW m \in Mark, Sent(id, m) PROVE Counted'
  <2>1. pc = "idle" /\ len' = len /\ Rest = {}
    BY <1>1 DEF Sent, Rest
  <2>2. CASE ~Full
    <3>1. cap' = cap /\ slots' = slots /\ pc' = "place"
      BY <1>1, <2>2 DEF Sent
    <3>2. TakenSlots' = TakenSlots /\ Rest' = {}
      BY <3>1 DEF TakenSlots, Rest, Slot
    <3>3. 2 * (len + 1) <= cap
      BY <1>0, <2>2 DEF Full
    <3>4. QED
      BY <1>0, <2>1, <3>1, <3>2, <3>3 DEF Counted
  <2>3. CASE Full
    <3>1. cap' = Grown /\ pc' = "rehash" /\ old' = slots /\ at' = 0
          /\ \A i \in Slot' : slots'[i] = Vacant
      BY <1>1, <2>3 DEF Sent, Slot
    <3>2. TakenSlots' = {}
      BY <3>1 DEF TakenSlots
    <3>3. Rest' = TakenSlots
      BY <1>0, <3>1 DEF TakenSlots, Rest, Slot, TypeOK
    <3>4. 2 * (len + 1) <= cap'
      <4>1. 2 * len <= cap
        BY <1>0 DEF Counted
      <4>2. cap = 0 \/ cap >= 2
        BY <1>0 DEF TypeOK
      <4>3. QED
        BY <1>0, <3>1, <4>1, <4>2 DEF Grown
    <3>5. len = Cardinality(TakenSlots)
      BY <1>0, <2>1 DEF Counted
    <3>6. len' = Cardinality(TakenSlots)' + Cardinality(Rest)'
      BY <1>0, <2>1, <3>2, <3>3, <3>5
    <3>7. cap' \in Nat
      BY <1>0, <3>1 DEF Grown
    <3>8. QED
      BY <1>0, <2>1, <3>4, <3>6, <3>7 DEF Counted
  <2>4. QED
    BY <2>2, <2>3
<1>2. ASSUME cap' = cap, len' = len, Rest' = Rest,
             \A j \in Slot : slots'[j] # Vacant <=> slots[j] # Vacant,
             pc' \in {"rehash", "place", "shift"} => pc \in {"rehash", "place", "shift"}
      PROVE  Counted'
  <2>1. TakenSlots' = TakenSlots
    BY <1>2 DEF TakenSlots, Slot
  <2>2. QED
    BY <1>0, <1>2, <2>1 DEF Counted
<1>3. ASSUME NEW id \in Id, Seen(id) PROVE Counted'
  <2>1. PICK i \in Slot : slots[i] # Vacant /\ slots' = [slots EXCEPT ![i].due = FALSE]
    BY <1>3 DEF Seen
  <2>2. [slots[i] EXCEPT !.due = FALSE] \in Ghost
    BY <1>0, <2>1 DEF Ghost
  <2>3. \A j \in Slot : slots'[j] # Vacant <=> slots[j] # Vacant
    BY <1>0, <2>1, <2>2 DEF TypeOK
  <2>4. QED
    BY <1>2, <1>3, <2>3 DEF Seen, Rest
<1>4. ASSUME NEW i \in Slot, Pass(i) PROVE Counted'
  <2>1. [slots[i] EXCEPT !.due = TRUE] \in Ghost
    BY <1>0, <1>4 DEF Pass, Ghost
  <2>2. \A j \in Slot : slots'[j] # Vacant <=> slots[j] # Vacant
    BY <1>0, <1>4, <2>1 DEF Pass, TypeOK
  <2>3. QED
    BY <1>2, <1>4, <2>2 DEF Pass, Rest
<1>5. CASE Evict \/ Keep \/ Skip \/ Shifted \/ Evicted \/ UNCHANGED vars
  BY <1>2, <1>5 DEF Evict, Keep, Skip, Shifted, Evicted, vars, Rest
<1>6. CASE Clear
  <2>1. TakenSlots' = {} /\ Rest' = {} /\ len' = 0 /\ cap' = cap /\ pc' = "idle"
    BY <1>6 DEF Clear, TakenSlots, Rest, Slot
  <2>2. QED
    BY <1>0, <2>1 DEF Counted
<1>7. CASE Rehash
  <2>1. /\ pc = "rehash" /\ pc' = "rehash" /\ cap' = cap /\ len' = len /\ at' = at + 1
        /\ old' = old /\ at \in DOMAIN old /\ at \in Int /\ DOMAIN old \subseteq Int
    BY <1>0, <1>7 DEF Rehash, TypeOK
  <2>2. \A k \in DOMAIN old : at + 1 <= k <=> at <= k /\ k # at
    BY <2>1
  <2>3. Rest' = Rest \ {at}
    BY <2>1, <2>2 DEF Rest
  <2>4. CASE slots' = slots /\ old[at] = Vacant
    <3>1. at \notin Rest
      BY <2>4 DEF Rest
    <3>2. QED
      BY <1>2, <2>1, <2>3, <2>4, <3>1
  <2>5. ASSUME NEW i \in Slot, old[at] # Vacant, slots[i] = Vacant,
               slots' = [slots EXCEPT ![i] = old[at]]
        PROVE  Counted'
    <3>1. at \in Rest
      BY <2>1, <2>5 DEF Rest
    <3>2. Cardinality(Rest') = Cardinality(Rest) - 1
      BY <1>0, <2>3, <3>1, FS_RemoveElement
    <3>3. \A j \in Slot : slots'[j] = IF j = i THEN old[at] ELSE slots[j]
      BY <1>0, <2>5 DEF TypeOK
    <3>4. TakenSlots' = TakenSlots \cup {i} /\ i \notin TakenSlots
      BY <2>1, <2>5, <3>3 DEF TakenSlots, Slot
    <3>5. Cardinality(TakenSlots') = Cardinality(TakenSlots) + 1
      BY <1>0, <3>4, FS_AddElement
    <3>6. QED
      BY <1>0, <2>1, <3>2, <3>5 DEF Counted
  <2>6. QED
    BY <1>7, <2>4, <2>5 DEF Rehash
<1>8. CASE Rehashed
  <2>1. Rest = {}
    <3>1. PICK n \in 0 .. MaxSlots : old \in [0 .. (n - 1) -> Ghost \cup {Vacant}]
      BY <1>0 DEF TypeOK
    <3>2. at \in Nat /\ at \notin 0 .. (n - 1) /\ n \in Nat
      BY <1>0, <1>8, <3>1 DEF TypeOK, Rehashed
    <3>3. \A k \in 0 .. (n - 1) : ~(at <= k)
      BY <3>2
    <3>4. QED
      BY <3>1, <3>3 DEF Rest
  <2>2. Rest' = {}
    BY <1>8 DEF Rehashed, Rest
  <2>3. QED
    BY <1>2, <1>8, <2>1, <2>2 DEF Rehashed
<1>9. CASE Place
  <2>1. PICK i \in Slot : slots' = [slots EXCEPT ![i] = pending]
                          /\ len' = IF slots[i] # Vacant THEN len ELSE len + 1
    BY <1>9 DEF Place
  <2>2. pending # Vacant /\ 2 * (len + 1) <= cap /\ cap' = cap /\ pc' = "idle"
        /\ Rest = {} /\ Rest' = {}
    BY <1>0, <1>9 DEF Place, LoopsAgree, Counted, Rest
  <2>3. \A j \in Slot : slots'[j] = IF j = i THEN pending ELSE slots[j]
    BY <1>0, <2>1 DEF TypeOK
  <2>4. TakenSlots' = TakenSlots \cup {i} /\ (i \in TakenSlots <=> slots[i] # Vacant)
    BY <2>2, <2>3 DEF TakenSlots, Slot
  <2>5. Cardinality(TakenSlots') = IF slots[i] # Vacant THEN Cardinality(TakenSlots)
                                   ELSE Cardinality(TakenSlots) + 1
    BY <1>0, <2>4, FS_AddElement
  <2>6. QED
    BY <1>0, <2>1, <2>2, <2>5 DEF Counted
<1>10. CASE Remove
  <2>1. at \in Slot /\ slots[at] # Vacant /\ cap' = cap /\ pc = "evict" /\ pc' = "shift"
        /\ len' = len - 1 /\ Rest = {} /\ Rest' = {}
    BY <1>10 DEF Remove, Vacant, Rest
  <2>2. \A j \in Slot : slots'[j] = IF j = at THEN Vacant ELSE slots[j]
    BY <1>0, <1>10 DEF Remove, TypeOK
  <2>3. TakenSlots' = TakenSlots \ {at} /\ at \in TakenSlots
    BY <2>1, <2>2 DEF TakenSlots, Slot
  <2>4. Cardinality(TakenSlots') = Cardinality(TakenSlots) - 1
    BY <1>0, <2>3, FS_RemoveElement
  <2>5. QED
    BY <1>0, <2>1, <2>4 DEF Counted
<1>11. CASE Fill
  <2>1. /\ pc = "shift" /\ pc' = "shift" /\ cap' = cap /\ len' = len
        /\ slots[probe] # Vacant
    BY <1>11 DEF Fill
  <2>2. {hole, probe} \subseteq Slot /\ slots[hole] = Vacant
    BY <1>0, <2>1 DEF TypeOK, IInv, HoleBehind
  <2>3. \A j \in Slot : slots'[j] = IF j = probe THEN Vacant
                                   ELSE IF j = hole THEN slots[probe] ELSE slots[j]
    BY <1>0, <1>11, <2>2 DEF Fill, TypeOK
  <2> DEFINE T == TakenSlots \ {probe}
  <2>4. TakenSlots' = T \cup {hole} /\ probe \in TakenSlots /\ hole \notin TakenSlots
    BY <2>1, <2>2, <2>3 DEF TakenSlots, Slot
  <2>5. IsFiniteSet(T) /\ Cardinality(T) = Cardinality(TakenSlots) - 1
    BY <1>0, <2>4, FS_RemoveElement
  <2>6. Cardinality(T \cup {hole}) = Cardinality(T) + 1
    BY <2>4, <2>5, FS_AddElement
  <2>7. Rest' = {} /\ Rest = {}
    BY <2>1 DEF Rest
  <2>8. QED
    BY <1>0, <2>1, <2>4, <2>5, <2>6, <2>7 DEF Counted
<1>12. QED
  BY <1>1, <1>3, <1>4, <1>5, <1>6, <1>7, <1>8, <1>9, <1>10, <1>11 DEF Next, Loop

-----------------------------------------------------------------------------
(* remove_at never brings an entry from ahead of the scan behind it: the   *)
(* hole is behind the scan only once the slots looked at are.              *)
LEMMA PassedStep == IInv /\ [Next]_vars => PassedStay'
<1> SUFFICES ASSUME IInv, [Next]_vars, pc' \in {"evict", "shift"},
                    NEW i \in Slot', i < at'
             PROVE  ~slots'[i].due
  BY DEF PassedStay
<1>0. /\ cap \in Nat /\ at \in Nat /\ TypeOK /\ LoopsAgree
      /\ pc \in {"evict", "shift"} => \A j \in Slot : j < at => ~slots[j].due
  <2>1. TypeOK /\ LoopsAgree /\ PassedStay
    BY DEF IInv
  <2>2. cap \in Nat /\ at \in Nat
    BY <2>1, GhostAssumption DEF TypeOK
  <2>3. QED
    BY <2>1, <2>2 DEF PassedStay
<1> USE DEF tableVars, loopVars, Taken
<1>1. CASE Evict
  <2>1. at' = 0
    BY <1>0, <1>1 DEF Evict, LoopsAgree
  <2>2. QED
    BY <1>0, <1>1, <2>1 DEF Evict, Slot
<1>2. CASE Keep
  BY <1>0, <1>2 DEF Keep, Slot
<1>3. CASE Remove
  <2>1. i \in Slot /\ i < at /\ pc = "evict"
    BY <1>3 DEF Remove, Slot
  <2>2. i # at
    BY <1>0, <2>1 DEF Slot
  <2>3. slots'[i] = slots[i]
    BY <1>0, <1>3, <2>1, <2>2 DEF Remove, TypeOK
  <2>4. QED
    BY <1>0, <2>1, <2>3
<1>4. CASE Fill
  <2>1. /\ pc = "shift" /\ cap' = cap /\ at' = at /\ {at, hole, probe} \subseteq Slot
    BY <1>0, <1>4 DEF Fill, TypeOK
  <2>2. i \in Slot /\ i < at
    BY <2>1 DEF Slot
  <2>3. slots'[i] = IF i = probe THEN Vacant
                    ELSE IF i = hole THEN slots[probe] ELSE slots[i]
    BY <1>0, <1>4, <2>1, <2>2 DEF Fill, TypeOK
  <2>4. CASE i = probe
    BY <2>3, <2>4 DEF Vacant
  <2>5. CASE i # probe /\ i = hole
    <3>1. Steps(at, hole) < Steps(at, probe)
      BY <2>1 DEF IInv, HoleBehind
    <3>2. probe < at
      BY <1>0, <2>1, <2>2, <2>5, <3>1 DEF Steps, Slot
    <3>3. QED
      BY <1>0, <2>1, <2>3, <2>5, <3>2
  <2>6. CASE i # probe /\ i # hole
    BY <1>0, <2>1, <2>2, <2>3, <2>6
  <2>7. QED
    BY <2>4, <2>5, <2>6
<1>5. CASE Skip \/ Shifted \/ UNCHANGED vars
  BY <1>0, <1>5 DEF Skip, Shifted, vars, Slot
<1>6. QED
  BY <1>1, <1>2, <1>3, <1>4, <1>5
  DEF Next, Loop, Sent, Seen, Pass, Clear, Rehash, Rehashed, Place, Evicted

-----------------------------------------------------------------------------
(* The inductive invariant.                                                *)
LEMMA IInvStep == IInv /\ [Next]_vars => IInv'
<1> SUFFICES ASSUME IInv, [Next]_vars PROVE IInv'
  OBVIOUS
<1>1. TypeOK' /\ LoopsAgree'
  BY TypeStep DEF IInv
<1>2. Distinct' /\ OldDistinct'
  BY DistinctStep
<1>3. HoleBehind' /\ PathsTaken' /\ Counted' /\ PassedStay'
  BY HoleStep, PathsStep, CountStep, PassedStep
<1>4. QED
  BY <1>1, <1>2, <1>3 DEF IInv

LEMMA IInvInvariant == Spec => []IInv
  BY InitIInv, IInvStep, PTL DEF Spec

(* The state of a table is always well formed.                             *)
THEOREM TypeCorrect == Spec => []TypeOK
<1>1. IInv => TypeOK
  BY DEF IInv
<1>2. QED
  BY IInvInvariant, <1>1, PTL

(* GhostTable::find reaches every ghost there is, before any operation and *)
(* between the removals of one eviction.                                   *)
THEOREM AlwaysFindable == Spec => []Findable
<1>1. IInv => Findable
  <2> SUFFICES ASSUME IInv, pc # "shift", NEW i \in Slot, Taken(i)
               PROVE  Finds(slots[i].id, i)
    BY DEF Findable
  <2>1. ASSUME NEW k \in Before(slots[i].id, i)
        PROVE  Taken(k) /\ slots[k].id # slots[i].id
    <3>1. k \in Slot /\ k # i
      <4>1. cap \in Nat /\ cap > 0 /\ slots[i].id \in Id
        BY VacantIsNoGhost, GhostAssumption DEF IInv, TypeOK, Taken, Slot, Ghost
      <4>2. Home(slots[i].id, cap) \in Slot
        BY <4>1, HomeIsSlot DEF Slot
      <4>3. Steps(Home(slots[i].id, cap), i) \in Int
        BY <4>1, <4>2, StepsRange
      <4>4. QED
        BY <4>3 DEF Before
    <3>2. Taken(k)
      BY DEF IInv, PathsTaken
    <3>3. QED
      BY <3>1, <3>2 DEF IInv, Distinct
  <2>2. QED
    BY <2>1 DEF Finds
<1>2. QED
  BY IInvInvariant, <1>1, PTL

(* "Terminates because the table is never more than half full": it is not, *)
(* and len counts the ghosts.                                              *)
THEOREM AlwaysHalfFull == Spec => []HalfFull
<1>1. IInv => HalfFull
  <2> SUFFICES ASSUME IInv PROVE HalfFull
    OBVIOUS
  <2>1. cap \in Nat
    BY GhostAssumption DEF IInv, TypeOK
  <2>2. Cardinality(TakenSlots) \in Nat
    BY <2>1, TakenFinite
  <2>3. pc # "rehash" => Cardinality(Rest) = 0
    BY FS_EmptySet DEF Rest
  <2>4. pc # "rehash" => len = Cardinality(TakenSlots)
    BY <2>2, <2>3 DEF IInv, Counted
  <2>5. QED
    BY <2>4 DEF IInv, Counted, HalfFull, TakenSlots
<1>2. QED
  BY IInvInvariant, <1>1, PTL

(* "One forward pass suffices": what the scan of evict has passed is kept, *)
(* whatever remove_at has moved.                                           *)
THEOREM PassedAlwaysStay == Spec => []PassedStay
<1>1. IInv => PassedStay
  BY DEF IInv
<1>2. QED
  BY IInvInvariant, <1>1, PTL

(* The table is sound in every reachable state, for every hash range and   *)
(* every bound on its slots.                                               *)
THEOREM TableAlwaysSound == Spec => []TableSound
  BY TypeCorrect, AlwaysFindable, AlwaysHalfFull, PassedAlwaysStay, PTL
  DEF TableSound

-----------------------------------------------------------------------------
(* The table seen as a map.  Each ghost is one entry of it.                *)
InTable(c) ==
    /\ c # Vacant
    /\ \/ \E i \in Slot : c = slots[i]
       \/ pc = "rehash" /\ \E k \in DOMAIN old : at <= k /\ c = old[k]

MapOK ==
    /\ \A c : c \in Copies <=> InTable(c)
    /\ \A c \in Copies : c \in Ghost
    /\ \A c, d \in Copies : c.id = d.id => c = d
    /\ Held = [id \in Id |-> Held[id]]
    /\ \A c \in Copies : Held[c.id] = c.mark
    /\ \A id \in Id : (\A c \in Copies : c.id # id) => Held[id] = None

LEMMA MapInv == IInv => MapOK
<1> SUFFICES ASSUME IInv PROVE MapOK
  OBVIOUS
<1>1. \A c : c \in Copies <=> InTable(c)
  <2>1. pc # "rehash" => DOMAIN old = {}
    BY DEF IInv, LoopsAgree, NoSlots
  <2>2. QED
    BY <2>1 DEF Copies, InTable
<1>2. \A c \in Copies : c \in Ghost
  BY <1>1 DEF InTable, IInv, TypeOK
<1>3. \A c, d \in Copies : c.id = d.id => c = d
  <2> SUFFICES ASSUME NEW c \in Copies, NEW d \in Copies, c.id = d.id PROVE c = d
    OBVIOUS
  <2>1. CASE \E i \in Slot, j \in Slot : c = slots[i] /\ d = slots[j]
    BY <1>1, <2>1 DEF InTable, IInv, Distinct, Taken
  <2>2. CASE \E k \in DOMAIN old : pc = "rehash" /\ at <= k /\ c = old[k]
    BY <1>1, <2>2 DEF InTable, IInv, OldDistinct, Taken
  <2>3. CASE \E k \in DOMAIN old : pc = "rehash" /\ at <= k /\ d = old[k]
    BY <1>1, <2>3 DEF InTable, IInv, OldDistinct, Taken
  <2>4. QED
    BY <1>1, <2>1, <2>2, <2>3 DEF InTable
<1>4. Held = [id \in Id |-> Held[id]]
  BY DEF Held
<1>5. \A c \in Copies : Held[c.id] = c.mark
  <2> SUFFICES ASSUME NEW c \in Copies PROVE Held[c.id] = c.mark
    OBVIOUS
  <2>1. c.id \in Id
    BY <1>2 DEF Ghost
  <2>2. (CHOOSE g \in Copies : g.id = c.id) = c
    BY <1>3
  <2>3. QED
    BY <2>1, <2>2 DEF Held
<1>6. \A id \in Id : (\A c \in Copies : c.id # id) => Held[id] = None
  BY DEF Held
<1>7. QED
  BY <1>1, <1>2, <1>3, <1>4, <1>5, <1>6 DEF MapOK

LEMMA MapInvNext == IInv' => MapOK'
  BY MapInv, PTL

(* Each turn of each loop is a step of the map, or none.                   *)
LEMMA GhostsStep == IInv /\ [Next]_vars => [G!Next]_(G!ghostVars)
<1> SUFFICES ASSUME IInv, [Next]_vars PROVE G!Next \/ UNCHANGED G!ghostVars
  OBVIOUS
<1> USE GhostAssumption, VacantIsNoGhost DEF tableVars, loopVars, Taken
<1>0. MapOK /\ MapOK' /\ TypeOK /\ LoopsAgree
  BY MapInv, MapInvNext, IInvStep DEF IInv
<1>00. \A c \in Ghost : c.id \in Id /\ c.mark \in Mark /\ c.due \in BOOLEAN
  BY DEF Ghost
<1> DEFINE evicting == pc \in {"evict", "shift"}
(* The same ghosts are the same map. *)
<1>a. ASSUME \A c : InTable(c)' <=> InTable(c) PROVE Held' = Held /\ Away' = Away
  <2>1. Copies' = Copies
    BY <1>0, <1>a DEF MapOK
  <2>2. QED
    BY <2>1 DEF Held, Away
<1>b. ASSUME \A c : InTable(c)' <=> InTable(c), departed' = departed, evicting' = evicting
      PROVE  UNCHANGED G!ghostVars
  BY <1>a, <1>b DEF G!ghostVars
(* A ghost written is one entry of the map. *)
<1>c. ASSUME NEW g \in Ghost, InTable(g)',
             \A c : c.id # g.id => (InTable(c)' <=> InTable(c))
      PROVE  /\ Held' = [Held EXCEPT ![g.id] = g.mark]
             /\ Away' = IF g.due THEN Away \cup {g.id} ELSE Away \ {g.id}
  <2>1. g \in Copies' /\ g.id \in Id /\ \A c : c.id # g.id => (c \in Copies' <=> c \in Copies)
    BY <1>0, <1>00, <1>c DEF MapOK
  <2>2. \A id \in Id : Held'[id] = IF id = g.id THEN g.mark ELSE Held[id]
    <3> SUFFICES ASSUME NEW id \in Id PROVE Held'[id] = IF id = g.id THEN g.mark ELSE Held[id]
      OBVIOUS
    <3>1. CASE id = g.id
      BY <1>0, <2>1, <3>1 DEF MapOK
    <3>2. CASE id # g.id /\ \E c \in Copies : c.id = id
      <4>1. PICK c \in Copies : c.id = id
        BY <3>2
      <4>2. c \in Copies'
        BY <2>1, <3>2, <4>1
      <4>3. Held[id] = c.mark
        BY <1>0, <4>1 DEF MapOK
      <4>4. Held'[id] = c.mark
        BY <1>0, <4>1, <4>2 DEF MapOK
      <4>5. QED
        BY <3>2, <4>3, <4>4
    <3>3. CASE id # g.id /\ \A c \in Copies : c.id # id
      <4>1. \A c \in Copies' : c.id # id
        BY <2>1, <3>3
      <4>2. Held[id] = None
        BY <1>0, <3>3 DEF MapOK
      <4>3. Held'[id] = None
        BY <1>0, <4>1 DEF MapOK
      <4>4. QED
        BY <3>3, <4>2, <4>3
    <3>4. QED
      BY <3>1, <3>2, <3>3
  <2>3. Held' = [id \in Id |-> Held'[id]] /\ Held = [id \in Id |-> Held[id]]
    BY <1>0 DEF MapOK
  <2>4. Held' = [Held EXCEPT ![g.id] = g.mark]
    BY <2>1, <2>2, <2>3
  <2>5. \A id : id \in Away' <=> \E c \in Copies' : c.due /\ c.id = id
    BY DEF Away
  <2>6. \A id : id \in Away <=> \E c \in Copies : c.due /\ c.id = id
    BY DEF Away
  <2>7. \A c \in Copies' : c.id = g.id => c = g
    BY <1>0, <2>1 DEF MapOK
  <2>8. \A id : id # g.id => (id \in Away' <=> id \in Away)
    BY <2>1, <2>5, <2>6
  <2>9. g.id \in Away' <=> g.due
    BY <2>1, <2>5, <2>7
  <2>10. CASE g.due
    BY <2>4, <2>8, <2>9, <2>10
  <2>11. CASE ~g.due
    BY <2>4, <2>8, <2>9, <2>11
  <2>12. QED
    BY <2>10, <2>11
(* A ghost taken out is no entry of the map. *)
<1>d. ASSUME NEW id \in Id,
             \A c : InTable(c)' => c.id # id,
             \A c : c.id # id => (InTable(c)' <=> InTable(c))
      PROVE  Held' = [Held EXCEPT ![id] = None] /\ Away' = Away \ {id}
  <2>1. /\ \A c \in Copies' : c.id # id
        /\ \A c : c.id # id => (c \in Copies' <=> c \in Copies)
    BY <1>0, <1>d DEF MapOK
  <2>2. \A n \in Id : Held'[n] = IF n = id THEN None ELSE Held[n]
    <3> SUFFICES ASSUME NEW n \in Id PROVE Held'[n] = IF n = id THEN None ELSE Held[n]
      OBVIOUS
    <3>1. CASE n = id
      BY <1>0, <2>1, <3>1 DEF MapOK
    <3>2. CASE n # id /\ \E c \in Copies : c.id = n
      <4>1. PICK c \in Copies : c.id = n
        BY <3>2
      <4>2. c \in Copies'
        BY <2>1, <3>2, <4>1
      <4>3. Held[n] = c.mark
        BY <1>0, <4>1 DEF MapOK
      <4>4. Held'[n] = c.mark
        BY <1>0, <4>1, <4>2 DEF MapOK
      <4>5. QED
        BY <3>2, <4>3, <4>4
    <3>3. CASE n # id /\ \A c \in Copies : c.id # n
      <4>1. \A c \in Copies' : c.id # n
        BY <2>1, <3>3
      <4>2. Held[n] = None
        BY <1>0, <3>3 DEF MapOK
      <4>3. Held'[n] = None
        BY <1>0, <4>1 DEF MapOK
      <4>4. QED
        BY <3>3, <4>2, <4>3
    <3>4. QED
      BY <3>1, <3>2, <3>3
  <2>3. Held' = [n \in Id |-> Held'[n]] /\ Held = [n \in Id |-> Held[n]]
    BY <1>0 DEF MapOK
  <2>4. Held' = [Held EXCEPT ![id] = None]
    BY <2>2, <2>3
  <2>5. \A n : n \in Away' <=> \E c \in Copies' : c.due /\ c.id = n
    BY DEF Away
  <2>6. \A n : n \in Away <=> \E c \in Copies : c.due /\ c.id = n
    BY DEF Away
  <2>7. Away' = Away \ {id}
    BY <2>1, <2>5, <2>6
  <2>8. QED
    BY <2>4, <2>7
<1>1. ASSUME NEW id \in Id, NEW m \in Mark, Sent(id, m) PROVE UNCHANGED G!ghostVars
  <2>1. ~evicting /\ ~evicting' /\ departed' = departed
    BY <1>1 DEF Sent
  <2>2. CASE ~Full
    <3>1. \A c : InTable(c)' <=> InTable(c)
      BY <1>1, <2>2 DEF Sent, InTable, Slot
    <3>2. QED
      BY <1>b, <2>1, <3>1
  <2>3. CASE Full
    <3>1. /\ pc = "idle" /\ pc' = "rehash" /\ old' = slots /\ at' = 0
          /\ \A i \in Slot' : slots'[i] = Vacant
      BY <1>1, <2>3 DEF Sent, Slot
    <3>2. DOMAIN slots = Slot /\ \A k \in Slot : 0 <= k
      BY <1>0 DEF TypeOK, Slot
    <3>3. \A c : InTable(c)' <=> InTable(c)
      BY <3>1, <3>2 DEF InTable
    <3>4. QED
      BY <1>b, <2>1, <3>3
  <2>4. QED
    BY <2>2, <2>3
<1>2. ASSUME NEW id \in Id, Seen(id) PROVE G!Seen(id)
  <2>1. PICK i \in Slot : slots[i] # Vacant /\ slots[i].id = id
                          /\ slots' = [slots EXCEPT ![i].due = FALSE]
    BY <1>2 DEF Seen, Finds
  <2>2. slots[i] \in Ghost
    BY <1>0, <2>1 DEF TypeOK
  <2>g. PICK g \in Ghost : g = [slots[i] EXCEPT !.due = FALSE]
    BY <2>2 DEF Ghost
  <2>3. g.id = id /\ g.mark = slots[i].mark /\ ~g.due
    BY <2>1, <2>2, <2>g DEF Ghost
  <2>4. \A j \in Slot : slots'[j] = IF j = i THEN g ELSE slots[j]
    BY <1>0, <2>1, <2>g DEF TypeOK
  <2>5. pc = "idle" /\ pc' = "idle" /\ departed' = departed /\ Slot' = Slot
    BY <1>2 DEF Seen, Slot
  <2>6. InTable(g)' /\ InTable(slots[i])
    BY <2>1, <2>3, <2>4, <2>5 DEF InTable
  <2>7. \A c : c.id # id => (InTable(c)' <=> InTable(c))
    BY <2>1, <2>3, <2>4, <2>5 DEF InTable
  <2>8. Held' = [Held EXCEPT ![id] = g.mark] /\ Away' = Away \ {id}
    BY <1>c, <2>3, <2>6, <2>7
  <2>9. Held[id] = g.mark
    BY <1>0, <2>1, <2>3, <2>6 DEF MapOK
  <2>10. Held' = Held
    BY <1>0, <2>8, <2>9 DEF MapOK
  <2>11. ~evicting /\ evicting' = evicting
    BY <2>5
  <2>12. QED
    BY <2>5, <2>8, <2>10, <2>11 DEF G!Seen
<1>3. ASSUME NEW i \in Slot, Pass(i) PROVE G!GoAway(slots[i].id)
  <2>1. slots[i] # Vacant /\ slots' = [slots EXCEPT ![i].due = TRUE]
    BY <1>3 DEF Pass
  <2> DEFINE id == slots[i].id
  <2>2. slots[i] \in Ghost
    BY <1>0, <2>1 DEF TypeOK
  <2>g. PICK g \in Ghost : g = [slots[i] EXCEPT !.due = TRUE]
    BY <2>2 DEF Ghost
  <2>3. g.id = id /\ g.mark = slots[i].mark /\ g.due
    BY <2>1, <2>2, <2>g DEF Ghost
  <2>4. \A j \in Slot : slots'[j] = IF j = i THEN g ELSE slots[j]
    BY <1>0, <2>1, <2>g DEF TypeOK
  <2>5. pc = "idle" /\ pc' = "idle" /\ departed' = departed /\ Slot' = Slot
    BY <1>3 DEF Pass, Slot
  <2>6. InTable(g)' /\ InTable(slots[i])
    BY <2>1, <2>3, <2>4, <2>5 DEF InTable
  <2>7. \A c : c.id # id => (InTable(c)' <=> InTable(c))
    BY <2>1, <2>3, <2>4, <2>5 DEF InTable
  <2>8. Held' = [Held EXCEPT ![id] = g.mark] /\ Away' = Away \cup {id}
    BY <1>c, <2>3, <2>6, <2>7
  <2>9. Held[id] = g.mark
    BY <1>0, <2>1, <2>3, <2>6 DEF MapOK
  <2>10. Held' = Held
    BY <1>0, <2>8, <2>9 DEF MapOK
  <2>11. ~evicting /\ evicting' = evicting
    BY <2>5
  <2>12. Held[id] # None
    BY <1>00, <2>2, <2>3, <2>9
  <2>13. QED
    BY <2>5, <2>8, <2>10, <2>11, <2>12 DEF G!GoAway
<1>4. CASE Evict
  <2>1. \A c : InTable(c)' <=> InTable(c)
    BY <1>4 DEF Evict, InTable, Slot
  <2>2. ~evicting /\ evicting' = TRUE /\ departed' = departed
    BY <1>4 DEF Evict
  <2>3. G!Evict
    BY <1>a, <2>1, <2>2 DEF G!Evict
  <2>4. QED
    BY <2>3 DEF G!Next
<1>5. CASE Keep \/ Skip \/ Shifted \/ UNCHANGED vars
  <2>1. \A c : InTable(c)' <=> InTable(c)
    BY <1>5 DEF Keep, Skip, Shifted, vars, InTable, Slot
  <2>2. evicting' = evicting /\ departed' = departed
    BY <1>5 DEF Keep, Skip, Shifted, vars
  <2>3. QED
    BY <1>b, <2>1, <2>2
<1>6. CASE Evicted
  <2>1. \A c : InTable(c)' <=> InTable(c)
    BY <1>6 DEF Evicted, InTable, Slot
  <2>2. evicting /\ evicting' = FALSE /\ departed' = {} /\ pc = "evict"
    BY <1>6 DEF Evicted
  <2>3. \A i \in Slot : ~slots[i].due
    <3>1. cap \in Nat /\ at \in Nat
      BY <1>0 DEF TypeOK
    <3>2. \A i \in Slot : i < at
      BY <1>6, <3>1 DEF Evicted, Slot
    <3>3. QED
      BY <2>2, <3>2 DEF IInv, PassedStay
  <2>4. \A c \in Copies : ~c.due
    BY <1>0, <2>2, <2>3 DEF MapOK, InTable
  <2>5. Away = {}
    BY <2>4 DEF Away
  <2>6. G!Evicted
    BY <1>a, <2>1, <2>2, <2>5 DEF G!Evicted
  <2>7. QED
    BY <2>6 DEF G!Next
<1>7. CASE Clear
  <2>1. pc = "idle" /\ pc' = "idle" /\ departed' = departed
        /\ \A i \in Slot' : slots'[i] = Vacant
    BY <1>7 DEF Clear, Slot
  <2>2. Copies' = {}
    BY <1>0, <2>1 DEF MapOK, InTable
  <2>3. Away' = {}
    BY <2>2 DEF Away
  <2>4. \A id \in Id : Held'[id] = None
    BY <1>0, <2>2 DEF MapOK
  <2>5. Held' = [id \in Id |-> None]
    BY <1>0, <2>4 DEF MapOK
  <2>6. ~evicting /\ evicting' = evicting
    BY <2>1
  <2>7. G!Clear
    BY <2>1, <2>3, <2>5, <2>6 DEF G!Clear
  <2>8. QED
    BY <2>7 DEF G!Next
<1>8. CASE Rehash
  <2>1. /\ pc = "rehash" /\ pc' = "rehash" /\ at' = at + 1 /\ Slot' = Slot
        /\ old' = old /\ at \in DOMAIN old /\ at \in Int /\ DOMAIN old \subseteq Int
        /\ departed' = departed
    BY <1>0, <1>8 DEF Rehash, TypeOK, Slot
  <2>2. \A k \in DOMAIN old : at <= k <=> at + 1 <= k \/ k = at
    BY <2>1
  <2>3. CASE slots' = slots /\ old[at] = Vacant
    <3>1. \A c : InTable(c)' <=> InTable(c)
      BY <2>1, <2>2, <2>3 DEF InTable
    <3>2. QED
      BY <1>b, <2>1, <3>1
  <2>4. ASSUME NEW i \in Slot, old[at] # Vacant, slots[i] = Vacant,
               slots' = [slots EXCEPT ![i] = old[at]]
        PROVE  UNCHANGED G!ghostVars
    <3>1. \A j \in Slot : slots'[j] = IF j = i THEN old[at] ELSE slots[j]
      BY <1>0, <2>4 DEF TypeOK
    <3>2. ASSUME NEW c PROVE InTable(c)' <=> InTable(c)
      <4>1. (\E j \in Slot : c = slots'[j]) /\ c # Vacant
              <=> (c = old[at] \/ \E j \in Slot : c = slots[j]) /\ c # Vacant
        BY <2>4, <3>1
      <4>2. (\E k \in DOMAIN old : at <= k /\ c = old[k])
              <=> c = old[at] \/ \E k \in DOMAIN old : at + 1 <= k /\ c = old[k]
        BY <2>1, <2>2
      <4>3. QED
        BY <2>1, <4>1, <4>2 DEF InTable
    <3>3. QED
      BY <1>b, <2>1, <3>2
  <2>5. QED
    BY <1>8, <2>3, <2>4 DEF Rehash
<1>9. CASE Rehashed
  <2>1. \A k \in DOMAIN old : ~(at <= k)
    <3>1. PICK n \in 0 .. MaxSlots : old \in [0 .. (n - 1) -> Ghost \cup {Vacant}]
      BY <1>0 DEF TypeOK
    <3>2. at \in Nat /\ at \notin 0 .. (n - 1) /\ n \in Nat
      BY <1>0, <1>9, <3>1 DEF TypeOK, Rehashed
    <3>3. QED
      BY <3>1, <3>2
  <2>2. \A c : InTable(c)' <=> InTable(c)
    BY <1>9, <2>1 DEF Rehashed, InTable, Slot
  <2>3. evicting' = evicting /\ departed' = departed
    BY <1>9 DEF Rehashed
  <2>4. QED
    BY <1>b, <2>2, <2>3
<1>10. CASE Place
  <2>1. PICK i \in Slot : Finds(pending.id, i) /\ slots' = [slots EXCEPT ![i] = pending]
    BY <1>10 DEF Place
  <2>2. /\ pc = "place" /\ pc' = "idle" /\ departed' = departed /\ Slot' = Slot
        /\ pending \in Ghost /\ ~pending.due
    BY <1>0, <1>10 DEF Place, LoopsAgree, Slot
  <2>g. PICK g \in Ghost : g = pending
    BY <2>2
  <2>3. \A j \in Slot : slots'[j] = IF j = i THEN g ELSE slots[j]
    BY <1>0, <2>1, <2>g DEF TypeOK
  <2>4. slots[i].id = g.id \/ slots[i] = Vacant
    BY <2>1, <2>g DEF Finds
  <2>5. InTable(g)'
    BY <2>2, <2>g, <2>3 DEF InTable
  <2>6. \A c : c.id # g.id => (InTable(c)' <=> InTable(c))
    BY <2>2, <2>3, <2>4 DEF InTable
  <2>7. Held' = [Held EXCEPT ![g.id] = g.mark] /\ Away' = Away \ {g.id}
    BY <1>c, <2>2, <2>g, <2>5, <2>6
  <2>8. ~evicting /\ evicting' = evicting
    BY <2>2
  <2>9. G!Sent(g.id, g.mark)
    BY <2>2, <2>7, <2>8 DEF G!Sent
  <2>10. g.id \in Id /\ g.mark \in Mark
    BY <1>00
  <2>11. QED
    BY <2>9, <2>10 DEF G!Next
<1>11. CASE Remove
  <2>1. /\ pc = "evict" /\ pc' = "shift" /\ at \in Slot /\ slots[at].due /\ slots[at] # Vacant
        /\ departed' = departed \cup {slots[at].id} /\ Slot' = Slot
    BY <1>11 DEF Remove, Slot, Vacant
  <2> DEFINE id == slots[at].id
  <2>2. \A j \in Slot : slots'[j] = IF j = at THEN Vacant ELSE slots[j]
    BY <1>0, <1>11 DEF Remove, TypeOK
  <2>3. slots[at] \in Ghost /\ InTable(slots[at])
    BY <1>0, <2>1 DEF TypeOK, InTable
  <2>4. id \in Id /\ slots[at] \in Copies
    BY <1>0, <1>00, <2>3 DEF MapOK
  <2>5. \A c : InTable(c)' => c.id # id
    BY <2>1, <2>2 DEF InTable, IInv, Distinct
  <2>6. \A c : c.id # id => (InTable(c)' <=> InTable(c))
    BY <2>1, <2>2 DEF InTable
  <2>7. Held' = [Held EXCEPT ![id] = None] /\ Away' = Away \ {id}
    BY <1>d, <2>4, <2>5, <2>6
  <2>8. id \in Away
    BY <2>1, <2>4 DEF Away
  <2>9. evicting /\ evicting' = evicting
    BY <2>1
  <2>10. G!Depart(id)
    BY <2>1, <2>7, <2>8, <2>9 DEF G!Depart
  <2>11. QED
    BY <2>4, <2>10 DEF G!Next
<1>12. CASE Fill
  <2>1. /\ pc = "shift" /\ pc' = "shift" /\ departed' = departed /\ Slot' = Slot
        /\ slots[probe] # Vacant
    BY <1>12 DEF Fill, Slot
  <2>2. {hole, probe} \subseteq Slot /\ slots[hole] = Vacant
    BY <1>0, <2>1 DEF TypeOK, IInv, HoleBehind
  <2>3. \A j \in Slot : slots'[j] = IF j = probe THEN Vacant
                                   ELSE IF j = hole THEN slots[probe] ELSE slots[j]
    BY <1>0, <1>12, <2>2 DEF Fill, TypeOK
  <2>4. slots'[hole] = slots[probe]
    BY <2>1, <2>2, <2>3
  <2>5. \A c : InTable(c)' <=> InTable(c)
    BY <2>1, <2>2, <2>3, <2>4 DEF InTable
  <2>6. QED
    BY <1>b, <2>1, <2>5
<1>13. QED
  <2>1. \A i \in Slot : Pass(i) => slots[i].id \in Id
    BY <1>0, <1>00 DEF Pass, TypeOK
  <2>2. ASSUME NEW i \in Slot, Pass(i) PROVE G!Next
    BY <1>3, <2>1, <2>2 DEF G!Next
  <2>3. ASSUME NEW id \in Id, Seen(id) PROVE G!Next
    BY <1>2, <2>3 DEF G!Next
  <2>4. QED
    BY <1>1, <2>2, <2>3, <1>4, <1>5, <1>6, <1>7, <1>8, <1>9, <1>10, <1>11, <1>12 DEF Next, Loop

(* The table is a map: what is sent is held, what an eviction finds due    *)
(* departs and is reported, and nothing else happens to any entity.        *)
THEOREM GhostTableImplementsGhosts == Spec => ImplementsGhosts
<1>1. IInv /\ Init => G!Init
  <2> SUFFICES ASSUME IInv, Init PROVE G!Init
    OBVIOUS
  <2>1. MapOK
    BY MapInv
  <2>2. pc = "idle" /\ departed = {} /\ \A i \in Slot : slots[i] = Vacant
    BY DEF Init
  <2>3. Copies = {}
    BY <2>1, <2>2 DEF MapOK, InTable
  <2>4. Away = {}
    BY <2>3 DEF Away
  <2>5. Held = [id \in Id |-> None]
    BY <2>1, <2>3 DEF MapOK
  <2>6. (pc \in {"evict", "shift"}) = FALSE
    BY <2>2
  <2>7. QED
    BY <2>2, <2>4, <2>5, <2>6 DEF G!Init
<1>2. QED
  BY <1>1, InitIInv, IInvInvariant, GhostsStep, PTL DEF Spec, ImplementsGhosts, G!Spec
=============================================================================
