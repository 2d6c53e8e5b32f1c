--------------------------- MODULE SessionProofs ---------------------------
(***************************************************************************)
(* Proofs about the edge registry of a region (Edges) and about the        *)
(* session that uses it, for any number of edges, slots, entities and      *)
(* commands.                                                               *)
(*                                                                         *)
(* Of the registry, the named invariants but the counters are inductive    *)
(* together (RegistryAgrees): that the sweep only ever drops an attached   *)
(* edge (StaleAttached) is what makes a drop clear the owners of exactly   *)
(* the entities of one slot, and that the two indexes agree (OwnersAgree)  *)
(* is what makes those the entities the edge managed.  They are proved of  *)
(* any use of the registry (RegistrySpec), and so hold in the session, of  *)
(* which every step is one the registry allows.                            *)
(*                                                                         *)
(* The inductive invariant has a part for every thing the session keeps in *)
(* order across its steps.  Request tokens rise along the way of a command *)
(* (TokensRise), so that there is an id for every spawn that waits.  What  *)
(* an edge manages is alive, or reported dead and not settled yet          *)
(* (OwnedAccounted); the dead stay dead (DeadStayDead).  An entity whose   *)
(* edge is told that it is gone, or will be, is managed by nobody          *)
(* (ToldOnce), which is what keeps two threads from telling it twice.  And *)
(* a command that names an entity names one that was announced before it   *)
(* was sent (CommandsHonest): the slot of its sender cannot have changed   *)
(* hands while it kept that entity.                                        *)
(*                                                                         *)
(* What depends on the game not killing the entities apply has spawned in  *)
(* the same step is under GameIsPatient.                                   *)
(***************************************************************************)
EXTENDS RegionSession, EdgeSink, FiniteSetTheorems, SequenceTheorems, TLAPS

GameIsPatient == GameDespawns # "anything"

Elements(s) == {s[k] : k \in DOMAIN s}

(* The commands on their way to be handled.                                *)
Waiting == Elements(batch) \cup Elements(queue) \cup ({reading} \ {None})

IsSpawn(c) == c.kind \in Spawns

Rises(s) ==
    \A j, k \in DOMAIN s :
        j < k /\ IsSpawn(s[j]) /\ IsSpawn(s[k]) => s[j].id < s[k].id

Precede(S, T) == \A c \in S, d \in T : IsSpawn(c) /\ IsSpawn(d) => c.id < d.id

TokensRise ==
    /\ spawned <= asked
    /\ \A c \in Waiting : IsSpawn(c) => spawned <= c.id /\ c.id < asked
    /\ Rises(batch)
    /\ Rises(queue)
    /\ Precede(Elements(batch), Elements(queue))
    /\ Precede(Elements(batch) \cup Elements(queue), {reading} \ {None})

PhasesInOrder ==
    /\ retiring = None <=> pc \notin {"release", "retire"}
    /\ pc = "between" => despawned = {}
    /\ pc \in {"between", "orphans"} => gone = {} /\ fresh = <<>>
    /\ pc \in {"release", "retire"} => gone = {}
    /\ pc = "despawn" => batch # <<>> /\ Head(batch).kind = "Despawn"

OwnedAccounted ==
    \A e \in Entity :
        owners[e] # UNOWNED =>
            e \in alive \/ e \in despawned \/ (pc = "release" /\ e = retiring.id)

DeadStayDead ==
    /\ despawned \cap alive = {}
    /\ \A g \in gone : g.id < spawned /\ g.id \notin alive
    /\ retiring # None => retiring.id < spawned /\ retiring.id \notin alive

Told(e) == \E k \in DOMAIN published[e] : published[e][k].what = "Removed"

(* The edge is told that e is gone, or is about to be.                     *)
Marked(e) ==
    \/ Told(e)
    \/ \E g \in gone : g.id = e /\ g.edge # None
    \/ pc = "retire" /\ retiring.id = e

ToldOnce ==
    /\ \A e \in Entity : Marked(e) => owners[e] = UNOWNED
    /\ \A g \in gone : g.edge # None => ~Told(g.id)
    /\ \A g, h \in gone : g.id = h.id /\ g.edge # None /\ h.edge # None => g = h
    /\ retiring # None => ~Told(retiring.id)
    /\ pc = "despawn" => ~Marked(Head(batch).id)

OnlySpawnedAnnounced ==
    /\ \A e \in Announced : e < spawned
    /\ \A k \in DOMAIN fresh : fresh[k].id < spawned
    /\ \A j, k \in DOMAIN fresh : fresh[j].id = fresh[k].id => j = k

FreshWait ==
    \A k \in DOMAIN fresh : fresh[k].id \in alive /\ fresh[k].id \notin Announced

CommandsHonest ==
    \A c \in Waiting :
        c.kind \in {"Despawn", "Move"} =>
            /\ c.id \in Announced
            /\ owners[c.id] = c.edge => slots[c.edge].name = c.from

IInv ==
    /\ RegistryAgrees
    /\ TypeOK
    /\ TokensRise
    /\ PhasesInOrder
    /\ AliveAreManaged
    /\ OwnedAccounted
    /\ DeadStayDead
    /\ ToldOnce
    /\ OnlySpawnedAnnounced
    /\ CommandsHonest
    /\ GameIsPatient => FreshWait /\ RemovedIsLast

-----------------------------------------------------------------------------
LEMMA EntityIds == Entity = 0 .. (MaxEntities - 1)
  BY SessionAssumption

LEMMA ConstantFacts ==
    /\ MaxSlots \in Nat \ {0} /\ MaxAccepted \in Nat
    /\ UNOWNED \notin EdgeId
    /\ None \notin EdgeName /\ None \notin EdgeId /\ None \notin EdgeRecord
    /\ None \notin CommandType /\ None \notin RetiringType
    /\ NO_AVATAR \notin Entity
<1>2. /\ None \notin EdgeName /\ None \notin EdgeId /\ None \notin EdgeRecord
      /\ None \notin CommandType /\ None \notin RetiringType
  BY SessionAssumption, EdgesAssumption
<1>3. UNOWNED \notin EdgeId /\ NO_AVATAR \notin Entity
  BY SessionAssumption, EdgesAssumption DEF UNOWNED, EdgeId, NO_AVATAR
<1>4. QED
  BY <1>2, <1>3, EdgesAssumption

-----------------------------------------------------------------------------
(* The registry by itself: the top of the range is not the id of an edge.  *)
LEMMA UnownedIsNoEdge == UNOWNED \notin EdgeId
  BY EdgesAssumption DEF UNOWNED, EdgeId

LEMMA RegistryStarts == RegistryInit => RegistryAgrees
  BY EdgesAssumption, UnownedIsNoEdge
  DEF RegistryInit, RegistryAgrees, RegistryTypeOK, OwnersAgree, NamesDistinct,
      StaleAttached, Attached

-----------------------------------------------------------------------------
(* Every step leaves the state well formed.                                *)
LEMMA RegistryTypeStep == RegistryTypeOK /\ [RegistryNext]_registry => RegistryTypeOK'
<1> SUFFICES ASSUME RegistryTypeOK, [RegistryNext]_registry PROVE RegistryTypeOK'
  OBVIOUS
<1> USE EdgesAssumption DEF RegistryTypeOK, EdgeRecord
<1>1. ASSUME NEW n \in EdgeName, NEW i \in EdgeId, Refresh(n, i) PROVE RegistryTypeOK'
  BY <1>1 DEF Refresh, sweepVars, Attached
<1>2. ASSUME NEW n \in EdgeName, NEW i \in EdgeId, AdmitNew(n, i) PROVE RegistryTypeOK'
  BY <1>2 DEF AdmitNew, sweepVars
<1>3. ASSUME NEW i \in EdgeId, NEW e \in Entity, Claim(i, e) PROVE RegistryTypeOK'
  BY <1>3 DEF Claim, sweepVars
<1>4. ASSUME NEW e \in Entity, Release(e) PROVE RegistryTypeOK'
  BY <1>4 DEF Release, sweepVars
<1>5. CASE TakeDetached
  BY <1>5 DEF TakeDetached, sweepVars
<1>6. ASSUME NEW i \in EdgeId, GoSilent(i) PROVE RegistryTypeOK'
  BY <1>6 DEF GoSilent, sweepVars, Attached
<1>7. CASE ExpireScan
  BY <1>7 DEF ExpireScan, edgeVars, Attached
<1>8. ASSUME NEW i \in EdgeId, DetachOwners(i) PROVE RegistryTypeOK'
  BY <1>8 DEF DetachOwners
<1>9. CASE DetachPublish
  BY <1>9 DEF DetachPublish
<1>10. CASE UNCHANGED registry
  BY <1>10 DEF registry
<1>11. QED
  BY <1>1, <1>2, <1>3, <1>4, <1>5, <1>6, <1>7, <1>8, <1>9, <1>10
  DEF RegistryNext, Admit, Expire

(* Only admit names a slot, and only when no other has the name.           *)
LEMMA RegistryNamesStep ==
    RegistryTypeOK /\ NamesDistinct /\ [RegistryNext]_registry => NamesDistinct'
<1> SUFFICES ASSUME RegistryTypeOK, NamesDistinct, [RegistryNext]_registry PROVE NamesDistinct'
  OBVIOUS
<1> USE EdgesAssumption DEF RegistryTypeOK, EdgeRecord, NamesDistinct, Attached
<1>1. ASSUME NEW n \in EdgeName, NEW i \in EdgeId, Refresh(n, i)
      PROVE  NamesDistinct'
  BY <1>1 DEF Refresh
<1>2. ASSUME NEW n \in EdgeName, NEW i \in EdgeId, AdmitNew(n, i)
      PROVE  NamesDistinct'
  BY <1>2 DEF AdmitNew
<1>3. ASSUME NEW i \in EdgeId, NEW e \in Entity, Claim(i, e)
      PROVE  NamesDistinct'
  BY <1>3 DEF Claim
<1>4. ASSUME NEW e \in Entity, Release(e)
      PROVE  NamesDistinct'
  BY <1>4 DEF Release
<1>5. CASE TakeDetached
  BY <1>5 DEF TakeDetached
<1>6. ASSUME NEW i \in EdgeId, GoSilent(i)
      PROVE  NamesDistinct'
  BY <1>6 DEF GoSilent
<1>7. CASE ExpireScan
  BY <1>7 DEF ExpireScan, edgeVars
<1>8. ASSUME NEW i \in EdgeId, DetachOwners(i)
      PROVE  NamesDistinct'
  BY <1>8 DEF DetachOwners
<1>9. CASE DetachPublish
  BY <1>9 DEF DetachPublish
<1>10. CASE UNCHANGED registry
  BY <1>10 DEF registry
<1>11. QED
  BY <1>1, <1>2, <1>3, <1>4, <1>5, <1>6, <1>7, <1>8, <1>9, <1>10
  DEF RegistryNext, Admit, Expire

(* Only the sweep empties a slot, and it takes the slot off its list.      *)
LEMMA RegistryStaleStep ==
    RegistryTypeOK /\ StaleAttached /\ [RegistryNext]_registry => StaleAttached'
<1> SUFFICES ASSUME RegistryTypeOK, StaleAttached, [RegistryNext]_registry PROVE StaleAttached'
  OBVIOUS
<1> USE EdgesAssumption DEF RegistryTypeOK, EdgeRecord, StaleAttached, Attached
<1>1. ASSUME NEW n \in EdgeName, NEW i \in EdgeId, Refresh(n, i)
      PROVE  StaleAttached'
  BY <1>1 DEF Refresh, sweepVars
<1>2. ASSUME NEW n \in EdgeName, NEW i \in EdgeId, AdmitNew(n, i)
      PROVE  StaleAttached'
  BY <1>2 DEF AdmitNew, sweepVars
<1>3. ASSUME NEW i \in EdgeId, NEW e \in Entity, Claim(i, e)
      PROVE  StaleAttached'
  BY <1>3 DEF Claim, sweepVars
<1>4. ASSUME NEW e \in Entity, Release(e)
      PROVE  StaleAttached'
  BY <1>4 DEF Release, sweepVars
<1>5. CASE TakeDetached
  BY <1>5 DEF TakeDetached, sweepVars
<1>6. ASSUME NEW i \in EdgeId, GoSilent(i)
      PROVE  StaleAttached'
  BY <1>6 DEF GoSilent, sweepVars
<1>7. CASE ExpireScan
  BY <1>7 DEF ExpireScan, edgeVars
<1>8. ASSUME NEW i \in EdgeId, DetachOwners(i)
      PROVE  StaleAttached'
  BY <1>8 DEF DetachOwners
<1>9. CASE DetachPublish
  BY <1>9 DEF DetachPublish
<1>10. CASE UNCHANGED registry
  BY <1>10 DEF registry
<1>11. QED
  BY <1>1, <1>2, <1>3, <1>4, <1>5, <1>6, <1>7, <1>8, <1>9, <1>10
  DEF RegistryNext, Admit, Expire

(* claim and release write both indexes, a drop empties both for one edge: *)
(* the new slot of admit is empty in both, because what it reuses was      *)
(* cleared when it was dropped.                                            *)
LEMMA RegistryOwnersStep ==
    RegistryTypeOK /\ OwnersAgree /\ [RegistryNext]_registry => OwnersAgree'
<1> SUFFICES ASSUME RegistryTypeOK, OwnersAgree, [RegistryNext]_registry PROVE OwnersAgree'
  OBVIOUS
<1> USE EdgesAssumption, UnownedIsNoEdge
        DEF RegistryTypeOK, EdgeRecord, OwnersAgree, Attached
<1>1. ASSUME NEW n \in EdgeName, NEW i \in EdgeId, Refresh(n, i)
      PROVE  OwnersAgree'
  <2>1. Attached' = Attached
    BY <1>1 DEF Refresh
  <2>2. \A j \in Attached : slots'[j].entities = slots[j].entities
    <3> SUFFICES ASSUME NEW j \in Attached
                 PROVE  slots'[j].entities = slots[j].entities
      OBVIOUS
    <3>1. CASE j = i
      BY <1>1, <3>1 DEF Refresh
    <3>2. CASE j # i
      BY <1>1, <3>2 DEF Refresh
    <3>3. QED
      BY <3>1, <3>2
  <2>3. owners' = owners
    BY <1>1 DEF Refresh
  <2>4. QED
    BY <2>1, <2>2, <2>3
<1>2. ASSUME NEW n \in EdgeName, NEW i \in EdgeId, AdmitNew(n, i)
      PROVE  OwnersAgree'
  BY <1>2 DEF AdmitNew
<1>3. ASSUME NEW i \in EdgeId, NEW e \in Entity, Claim(i, e)
      PROVE  OwnersAgree'
  BY <1>3 DEF Claim
<1>4. ASSUME NEW e \in Entity, Release(e)
      PROVE  OwnersAgree'
  BY <1>4 DEF Release
<1>5. CASE TakeDetached
  BY <1>5 DEF TakeDetached
<1>6. ASSUME NEW i \in EdgeId, GoSilent(i)
      PROVE  OwnersAgree'
  <2>1. Attached' = Attached
    BY <1>6 DEF GoSilent
  <2>2. \A j \in Attached : slots'[j].entities = slots[j].entities
    <3> SUFFICES ASSUME NEW j \in Attached
                 PROVE  slots'[j].entities = slots[j].entities
      OBVIOUS
    <3>1. CASE j = i
      BY <1>6, <3>1 DEF GoSilent
    <3>2. CASE j # i
      BY <1>6, <3>2 DEF GoSilent
    <3>3. QED
      BY <3>1, <3>2
  <2>3. owners' = owners
    BY <1>6 DEF GoSilent
  <2>4. QED
    BY <2>1, <2>2, <2>3
<1>7. CASE ExpireScan
  BY <1>7 DEF ExpireScan, edgeVars
<1>8. ASSUME NEW i \in EdgeId, DetachOwners(i)
      PROVE  OwnersAgree'
  BY <1>8 DEF DetachOwners
<1>9. CASE DetachPublish
  BY <1>9 DEF DetachPublish
<1>10. CASE UNCHANGED registry
  BY <1>10 DEF registry
<1>11. QED
  BY <1>1, <1>2, <1>3, <1>4, <1>5, <1>6, <1>7, <1>8, <1>9, <1>10
  DEF RegistryNext, Admit, Expire

-----------------------------------------------------------------------------
LEMMA RegistryStep == RegistryAgrees /\ [RegistryNext]_registry => RegistryAgrees'
  BY RegistryTypeStep, RegistryNamesStep, RegistryStaleStep, RegistryOwnersStep
  DEF RegistryAgrees

(* The registry is in order in every reachable state, for any number of    *)
(* names, entities and slots.                                              *)
THEOREM RegistryAlwaysAgrees == RegistrySpec => []RegistryAgrees
  BY RegistryStarts, RegistryStep, PTL DEF RegistrySpec

(* The registry is well formed in every reachable state.                   *)
THEOREM RegistryTypeCorrect == RegistrySpec => []RegistryTypeOK
  BY RegistryAlwaysAgrees, PTL DEF RegistryAgrees

(* Whatever claims, releases, admissions and drops interleave, the owner   *)
(* of an entity is the attached edge whose set has it.                     *)
THEOREM OwnersAlwaysAgree == RegistrySpec => []OwnersAgree
  BY RegistryAlwaysAgrees, PTL DEF RegistryAgrees

(* No edge is ever admitted to two slots.                                  *)
THEOREM NamesAlwaysDistinct == RegistrySpec => []NamesDistinct
  BY RegistryAlwaysAgrees, PTL DEF RegistryAgrees

(* The sweep never drops a slot that has been emptied, and so never one    *)
(* that has been given to another edge, since its scan.                    *)
THEOREM StaleAlwaysAttached == RegistrySpec => []StaleAttached
  BY RegistryAlwaysAgrees, PTL DEF RegistryAgrees

-----------------------------------------------------------------------------
(* The sets of slots in use are finite, and the counters count them.       *)
LEMMA AttachedFinite == IsFiniteSet(Attached)
  <1>1. IsFiniteSet(EdgeId)
    BY EdgesAssumption, FS_Interval DEF EdgeId
  <1>2. QED
    BY <1>1, FS_Subset DEF Attached

LEMMA RegistryCountersStep ==
    RegistryTypeOK /\ CountersAgree /\ [RegistryNext]_registry => CountersAgree'
<1> SUFFICES ASSUME RegistryTypeOK, CountersAgree, [RegistryNext]_registry PROVE CountersAgree'
  OBVIOUS
<1> USE EdgesAssumption DEF RegistryTypeOK
<1>0. Cardinality(Attached) \in Nat
  BY AttachedFinite, FS_CardinalityType
<1>1. ASSUME NEW n \in EdgeName, NEW i \in EdgeId, Refresh(n, i)
      PROVE  CountersAgree'
  <2>1. Attached' = Attached
    BY <1>1 DEF Refresh, Attached, EdgeRecord
  <2>2. QED
    BY <1>1, <2>1 DEF Refresh, CountersAgree, sweepVars
<1>2. ASSUME NEW n \in EdgeName, NEW i \in EdgeId, AdmitNew(n, i)
      PROVE  CountersAgree'
  <2> DEFINE rec == [name |-> n, silent |-> FALSE, entities |-> {}]
  <2>1. rec # None
    <3>1. rec \in EdgeRecord
      BY DEF EdgeRecord
    <3>2. QED
      BY <3>1
  <2> HIDE DEF rec
  <2>2. slots' = [slots EXCEPT ![i] = rec] /\ i \notin Attached
    BY <1>2 DEF AdmitNew, rec
  <2>3. Attached' = Attached \cup {i} /\ i \notin Attached
    BY <2>1, <2>2 DEF Attached
  <2>4. Cardinality(Attached') = Cardinality(Attached) + 1
    BY <2>3, AttachedFinite, FS_AddElement
  <2>5. QED
    BY <1>2, <1>0, <2>4 DEF AdmitNew, CountersAgree, sweepVars
<1>3. ASSUME NEW i \in EdgeId, NEW e \in Entity, Claim(i, e)
      PROVE  CountersAgree'
  <2>1. Attached' = Attached
    BY <1>3 DEF Claim, Attached, EdgeRecord
  <2>2. QED
    BY <1>3, <2>1 DEF Claim, CountersAgree, sweepVars
<1>4. ASSUME NEW e \in Entity, Release(e)
      PROVE  CountersAgree'
  <2>1. Attached' = Attached
    BY <1>4 DEF Release, Attached, EdgeRecord
  <2>2. QED
    BY <1>4, <2>1 DEF Release, CountersAgree, sweepVars
<1>5. CASE TakeDetached
  BY <1>5 DEF TakeDetached, CountersAgree, Attached, sweepVars
<1>6. ASSUME NEW i \in EdgeId, GoSilent(i)
      PROVE  CountersAgree'
  <2>1. Attached' = Attached
    BY <1>6 DEF GoSilent, Attached, EdgeRecord
  <2>2. QED
    BY <1>6, <2>1 DEF GoSilent, CountersAgree, sweepVars
<1>7. CASE ExpireScan
  BY <1>7 DEF ExpireScan, CountersAgree, Attached, edgeVars
<1>8. ASSUME NEW i \in EdgeId, DetachOwners(i)
      PROVE  CountersAgree'
  <2>1. Attached' = Attached \ {i} /\ i \in Attached
    BY <1>8 DEF DetachOwners, Attached
  <2>2. Cardinality(Attached') = Cardinality(Attached) - 1
    BY <2>1, AttachedFinite, FS_RemoveElement
  <2>3. dropping = None /\ dropping' # None
    BY <1>8 DEF DetachOwners, SlotsFree
  <2>4. QED
    BY <1>8, <1>0, <2>2, <2>3 DEF DetachOwners, CountersAgree
<1>9. CASE DetachPublish
  BY <1>9, <1>0 DEF DetachPublish, CountersAgree, Attached
<1>10. CASE UNCHANGED registry
  BY <1>10 DEF registry, CountersAgree, Attached
<1>11. QED
  BY <1>1, <1>2, <1>3, <1>4, <1>5, <1>6, <1>7, <1>8, <1>9, <1>10
  DEF RegistryNext, Admit, Expire

(* The counters read without a lock count the edges attached, off by the   *)
(* one edge being dropped at most.                                         *)
THEOREM CountersAlwaysAgree == RegistrySpec => []CountersAgree
<1>1. RegistryInit => CountersAgree
  <2> SUFFICES ASSUME RegistryInit PROVE CountersAgree
    OBVIOUS
  <2>1. Attached = {}
    BY DEF RegistryInit, Attached
  <2>2. QED
    BY <2>1, FS_EmptySet DEF RegistryInit, CountersAgree
<1>2. QED
  BY <1>1, RegistryCountersStep, RegistryTypeCorrect, PTL DEF RegistrySpec

-----------------------------------------------------------------------------
(* An entity's holder is the name of its owner's slot.                     *)
LEMMA HolderType ==
  ASSUME RegistryAgrees, NEW e \in Entity, owners[e] # UNOWNED
  PROVE  /\ owners[e] \in EdgeId
         /\ slots[owners[e]] \in EdgeRecord
         /\ Holder[e] = slots[owners[e]].name
         /\ Holder[e] # None
  BY EdgesAssumption
  DEF RegistryAgrees, RegistryTypeOK, OwnersAgree, Attached, Holder, EdgeRecord

(* The entities a name holds are the set of the slot with that name.       *)
LEMMA HeldBySlot ==
  ASSUME RegistryAgrees, NEW i \in Attached
  PROVE  O!HeldBy(slots[i].name) = slots[i].entities
<1> USE DEF RegistryAgrees
<1>1. slots[i] \in EdgeRecord
  BY DEF RegistryTypeOK, Attached
<1>2. ASSUME NEW e \in Entity, Holder[e] = slots[i].name
      PROVE  owners[e] = i
  <2>1. owners[e] # UNOWNED
    BY <1>1, <1>2, EdgesAssumption DEF Holder, EdgeRecord
  <2>2. owners[e] \in Attached /\ Holder[e] = slots[owners[e]].name
    BY <2>1, HolderType DEF OwnersAgree
  <2>3. QED
    BY <1>2, <2>2 DEF NamesDistinct
<1>3. ASSUME NEW e \in Entity, owners[e] = i
      PROVE  Holder[e] = slots[i].name
  BY <1>3, UnownedIsNoEdge, HolderType DEF Attached
<1>4. QED
  BY <1>2, <1>3 DEF O!HeldBy, OwnersAgree

LEMMA OwnershipInit == RegistryInit => O!Init
  BY EdgesAssumption DEF RegistryInit, O!Init, Holder, Orphaned

LEMMA OwnershipStep == RegistryAgrees /\ [RegistryNext]_registry => [O!Next]_(O!vars)
<1> SUFFICES ASSUME RegistryAgrees, [RegistryNext]_registry PROVE [O!Next]_(O!vars)
  OBVIOUS
<1> USE EdgesAssumption, UnownedIsNoEdge
<1> DEFINE Others == <<Orphaned, detached>>
<1> DEFINE Same == Holder' = Holder /\ Others' = Others
<1>1. ASSUME NEW n \in EdgeName, NEW i \in EdgeId, Refresh(n, i)
      PROVE  Same
  <2>1. \A j \in EdgeId : slots[j] # None => slots'[j].name = slots[j].name
    BY <1>1 DEF Refresh, RegistryAgrees, RegistryTypeOK, EdgeRecord
  <2>2. Holder' = Holder
    BY <1>1, <2>1
    DEF Refresh, RegistryAgrees, RegistryTypeOK, OwnersAgree, Attached, Holder
  <2>3. QED
    BY <1>1, <2>2 DEF Refresh, Orphaned, sweepVars
<1>2. ASSUME NEW n \in EdgeName, NEW i \in EdgeId, AdmitNew(n, i)
      PROVE  Same
  <2>1. Holder' = Holder
    BY <1>2 DEF AdmitNew, RegistryAgrees, RegistryTypeOK, OwnersAgree, Attached, Holder
  <2>2. QED
    BY <1>2, <2>1 DEF AdmitNew, Orphaned, sweepVars
<1>3. ASSUME NEW i \in EdgeId, NEW e \in Entity, Claim(i, e)
      PROVE  O!Claim(slots[i].name, e) /\ slots[i].name \in EdgeName
  <2>1. slots[i] \in EdgeRecord
    BY <1>3 DEF Claim, RegistryAgrees, RegistryTypeOK
  <2>2. \A j \in EdgeId : slots[j] # None => slots'[j].name = slots[j].name
    BY <1>3 DEF Claim, RegistryAgrees, RegistryTypeOK, EdgeRecord
  <2>3. Holder' = [Holder EXCEPT ![e] = slots[i].name]
    BY <1>3, <2>2
    DEF Claim, RegistryAgrees, RegistryTypeOK, OwnersAgree, Attached, Holder
  <2>4. Others' = Others
    BY <1>3 DEF Claim, Orphaned, sweepVars
  <2>5. QED
    BY <1>3, <2>1, <2>3, <2>4 DEF Claim, O!Claim, EdgeRecord, Holder
<1>4. ASSUME NEW e \in Entity, Release(e)
      PROVE  O!GiveUp(e)
  <2>1. \A j \in EdgeId : slots[j] # None => slots'[j].name = slots[j].name
    BY <1>4 DEF Release, RegistryAgrees, RegistryTypeOK, EdgeRecord
  <2>2. Holder' = [Holder EXCEPT ![e] = None]
    BY <1>4, <2>1
    DEF Release, RegistryAgrees, RegistryTypeOK, OwnersAgree, Attached, Holder
  <2>3. Others' = Others
    BY <1>4 DEF Release, Orphaned, sweepVars
  <2>4. Holder[e] # None
    BY <1>4, HolderType DEF Release
  <2>5. QED
    BY <2>2, <2>3, <2>4 DEF O!GiveUp
<1>5. ASSUME TakeDetached
      PROVE  O!Collect
  BY <1>5 DEF TakeDetached, O!Collect, Holder, Orphaned, sweepVars
<1>6. ASSUME NEW i \in EdgeId, GoSilent(i)
      PROVE  Same
  <2>1. \A j \in EdgeId : slots[j] # None => slots'[j].name = slots[j].name
    BY <1>6 DEF GoSilent, RegistryAgrees, RegistryTypeOK, EdgeRecord
  <2>2. Holder' = Holder
    BY <1>6, <2>1
    DEF GoSilent, RegistryAgrees, RegistryTypeOK, OwnersAgree, Attached, Holder
  <2>3. QED
    BY <1>6, <2>2 DEF GoSilent, Orphaned, sweepVars
<1>7. ASSUME ExpireScan
      PROVE  Same
  BY <1>7 DEF ExpireScan, edgeVars, Holder, Orphaned
<1>8. ASSUME NEW i \in EdgeId, DetachOwners(i)
      PROVE  O!Lose(slots[i].name) /\ slots[i].name \in EdgeName
  <2>1. i \in Attached /\ slots[i] \in EdgeRecord
    BY <1>8 DEF DetachOwners, RegistryAgrees, RegistryTypeOK, Attached
  <2>2. O!HeldBy(slots[i].name) = slots[i].entities
    BY <2>1, HeldBySlot
  <2>3. \A e \in Entity : Holder[e] = slots[i].name <=> owners[e] = i
    BY <2>1, <2>2 DEF O!HeldBy, RegistryAgrees, OwnersAgree
  <2>4. \A e \in Entity : owners'[e] = IF owners[e] = i THEN UNOWNED ELSE owners[e]
    BY <1>8, <2>1 DEF DetachOwners, RegistryAgrees, OwnersAgree, RegistryTypeOK
  <2>5. Holder' = [e \in Entity |->
                     IF Holder[e] = slots[i].name THEN None ELSE Holder[e]]
    <3>1. ASSUME NEW e \in Entity
          PROVE  Holder'[e] = IF owners[e] = i THEN None ELSE Holder[e]
      BY <1>8, <2>4
      DEF DetachOwners, Holder, RegistryAgrees, RegistryTypeOK, OwnersAgree, Attached
    <3>2. QED
      BY <2>3, <3>1 DEF Holder
  <2>6. Orphaned' = Orphaned \cup slots[i].entities /\ detached' = detached
    BY <1>8, <2>1 DEF DetachOwners, SlotsFree, Orphaned
  <2>7. QED
    BY <2>1, <2>2, <2>5, <2>6 DEF O!Lose, EdgeRecord
<1>9. ASSUME DetachPublish
      PROVE  O!Orphan
  BY <1>9 DEF DetachPublish, O!Orphan, Holder, Orphaned
<1>10. ASSUME UNCHANGED registry
       PROVE  Same
  BY <1>10 DEF registry, Holder, Orphaned
<1>11. QED
  BY <1>1, <1>2, <1>3, <1>4, <1>5, <1>6, <1>7, <1>8, <1>9, <1>10
  DEF RegistryNext, Admit, Expire, O!Next, O!vars

(* The registry, with its slots, its two locks and a sweep that lets go of *)
(* them, implements the promise of Ownership: one manager at most, and no  *)
(* entity of an edge that goes away stays held or is forgotten.            *)
THEOREM EdgesImplementOwnership == RegistrySpec => ImplementsOwnership
  BY OwnershipInit, OwnershipStep, RegistryAlwaysAgrees, PTL
  DEF RegistrySpec, ImplementsOwnership, O!Spec

-----------------------------------------------------------------------------
(* Sequences: what Head, Tail and Append do to the elements of one.        *)
LEMMA HeadTailElements ==
  ASSUME NEW S, NEW s \in Seq(S), s # <<>>
  PROVE  /\ Head(s) \in S /\ Tail(s) \in Seq(S)
         /\ 1 \in DOMAIN s /\ Head(s) = s[1]
         /\ \A k \in DOMAIN Tail(s) : k + 1 \in DOMAIN s /\ Tail(s)[k] = s[k + 1]
         /\ Head(s) \in Elements(s)
         /\ Elements(Tail(s)) \subseteq Elements(s)
<1>1. /\ Head(s) \in S /\ Tail(s) \in Seq(S)
      /\ 1 \in DOMAIN s /\ Head(s) = s[1]
      /\ \A k \in DOMAIN Tail(s) : k + 1 \in DOMAIN s /\ Tail(s)[k] = s[k + 1]
  BY HeadTailProperties, LenProperties, EmptySeq
<1>2. QED
  BY <1>1 DEF Elements

LEMMA AppendElements ==
  ASSUME NEW S, NEW s \in Seq(S), NEW x \in S
  PROVE  /\ Append(s, x) \in Seq(S)
         /\ \A k \in DOMAIN s : k \in DOMAIN Append(s, x) /\ Append(s, x)[k] = s[k]
         /\ \A k \in DOMAIN Append(s, x) :
                \/ k \in DOMAIN s /\ Append(s, x)[k] = s[k]
                \/ k = Len(s) + 1 /\ k \notin DOMAIN s /\ Append(s, x)[k] = x
         /\ Len(s) + 1 \in DOMAIN Append(s, x) /\ Append(s, x)[Len(s) + 1] = x
         /\ Elements(Append(s, x)) = Elements(s) \cup {x}
         /\ Append(s, x) # <<>>
<1>1. /\ Append(s, x) \in Seq(S) /\ Append(s, x) # <<>>
      /\ DOMAIN s = 1 .. Len(s) /\ Len(s) \in Nat
      /\ DOMAIN Append(s, x) = 1 .. (Len(s) + 1)
      /\ \A k \in 1 .. Len(s) : Append(s, x)[k] = s[k]
      /\ Append(s, x)[Len(s) + 1] = x
  BY AppendProperties, LenProperties
<1>2. /\ \A k \in DOMAIN s : k \in DOMAIN Append(s, x) /\ Append(s, x)[k] = s[k]
      /\ \A k \in DOMAIN Append(s, x) :
                \/ k \in DOMAIN s /\ Append(s, x)[k] = s[k]
                \/ k = Len(s) + 1 /\ k \notin DOMAIN s /\ Append(s, x)[k] = x
      /\ Len(s) + 1 \in DOMAIN Append(s, x)
  BY <1>1
<1>3. Elements(Append(s, x)) = Elements(s) \cup {x}
  BY <1>1, <1>2 DEF Elements
<1>4. QED
  BY <1>1, <1>2, <1>3

LEMMA EmptyElements == Elements(<<>>) = {} /\ DOMAIN <<>> = {}
  BY DEF Elements

LEMMA ElementsType ==
  ASSUME NEW S, NEW s \in Seq(S)
  PROVE  Elements(s) \subseteq S
  BY LenProperties, ElementOfSeq DEF Elements

(* A command that waits is a command.                                      *)
LEMMA WaitingType == TypeOK => Waiting \subseteq CommandType
  BY ElementsType DEF TypeOK, Waiting

(* The command at the head of the batch, and what is left without it.      *)
LEMMA HeadOfBatch ==
  ASSUME TypeOK, batch # <<>>
  PROVE  /\ Head(batch) \in CommandType
         /\ Head(batch) \in Waiting
         /\ Head(batch).edge \in EdgeId
         /\ Head(batch).id \in Entity
         /\ Head(batch).from \in EdgeName
<1>1. Head(batch) \in CommandType /\ Head(batch) \in Elements(batch)
  BY HeadTailElements DEF TypeOK
<1>2. QED
  BY <1>1 DEF Waiting, CommandType

-----------------------------------------------------------------------------
(* Steps of the registry, as the session sees them: an entity is given to  *)
(* an edge by a claim only; one that an edge loses is an orphan; and the   *)
(* slot of an edge has the same name for as long as it keeps an entity.    *)
Recoverable(e) == owners[e] # UNOWNED \/ e \in detached \cup Orphaned

NamesKept ==
    \A e \in Entity :
        owners[e] # UNOWNED /\ owners'[e] = owners[e]
            => slots'[owners[e]].name = slots[owners[e]].name

OwnersOnlyCleared == \A e \in Entity : owners'[e] \in {owners[e], UNOWNED}

NoneLost == \A e \in Entity : Recoverable(e) => Recoverable(e)'

LEMMA NamesAreKept ==
  ASSUME RegistryAgrees, [RegistryNext]_registry
  PROVE  NamesKept
<1> USE ConstantFacts
    DEF RegistryAgrees, RegistryTypeOK, OwnersAgree, Attached, EdgeRecord, NamesKept
<1>1. ASSUME NEW n \in EdgeName, NEW i \in EdgeId, Refresh(n, i) PROVE NamesKept
  BY <1>1 DEF Refresh
<1>2. ASSUME NEW n \in EdgeName, NEW i \in EdgeId, AdmitNew(n, i) PROVE NamesKept
  BY <1>2 DEF AdmitNew
<1>3. ASSUME NEW i \in EdgeId, NEW e \in Entity, Claim(i, e) PROVE NamesKept
  BY <1>3 DEF Claim
<1>4. ASSUME NEW e \in Entity, Release(e) PROVE NamesKept
  BY <1>4 DEF Release
<1>5. CASE TakeDetached
  BY <1>5 DEF TakeDetached
<1>6. ASSUME NEW i \in EdgeId, GoSilent(i) PROVE NamesKept
  BY <1>6 DEF GoSilent
<1>7. CASE ExpireScan
  BY <1>7 DEF ExpireScan, edgeVars
<1>8. ASSUME NEW i \in EdgeId, DetachOwners(i) PROVE NamesKept
  BY <1>8 DEF DetachOwners
<1>9. CASE DetachPublish
  BY <1>9 DEF DetachPublish
<1>10. CASE UNCHANGED registry
  BY <1>10 DEF registry
<1>11. QED
  BY <1>1, <1>2, <1>3, <1>4, <1>5, <1>6, <1>7, <1>8, <1>9, <1>10
  DEF RegistryNext, Admit, Expire

LEMMA AdmitEffect ==
  ASSUME RegistryAgrees, NEW n \in EdgeName, NEW i \in EdgeId, Admit(n, i)
  PROVE  /\ owners' = owners /\ detached' = detached /\ dropping' = dropping
         /\ slots'[i].name = n
<1> USE DEF RegistryAgrees, RegistryTypeOK, EdgeRecord, Attached, sweepVars
<1>1. CASE Refresh(n, i)
  BY <1>1 DEF Refresh
<1>2. CASE AdmitNew(n, i)
  BY <1>2 DEF AdmitNew
<1>3. QED
  BY <1>1, <1>2 DEF Admit

LEMMA SweepEffect ==
  ASSUME RegistryAgrees, Expire
  PROVE  OwnersOnlyCleared /\ NoneLost
<1> USE ConstantFacts
    DEF RegistryAgrees, RegistryTypeOK, OwnersAgree, Attached, Orphaned,
        OwnersOnlyCleared, NoneLost, Recoverable, edgeVars
<1>1. CASE ExpireScan
  BY <1>1 DEF ExpireScan
<1>2. ASSUME NEW i \in EdgeId, DetachOwners(i)
      PROVE  OwnersOnlyCleared /\ NoneLost
  BY <1>2 DEF DetachOwners, SlotsFree
<1>3. CASE DetachPublish
  BY <1>3 DEF DetachPublish
<1>4. QED
  BY <1>1, <1>2, <1>3 DEF Expire

LEMMA ReleaseEffect ==
  ASSUME RegistryAgrees, NEW e \in Entity, ReleaseIfHeld(e)
  PROVE  /\ owners' = [owners EXCEPT ![e] = UNOWNED]
         /\ detached' = detached /\ dropping' = dropping
  BY DEF RegistryAgrees, RegistryTypeOK, ReleaseIfHeld, Release, registry, sweepVars

-----------------------------------------------------------------------------
(* The id of a spawn about to be carried out is one there is.              *)
LEMMA NextIdExists ==
  ASSUME TypeOK, TokensRise, batch # <<>>, IsSpawn(Head(batch))
  PROVE  spawned \in Entity
<1>1. spawned <= Head(batch).id /\ Head(batch).id < asked
  BY HeadOfBatch DEF TokensRise
<1>2. Head(batch).id \in 0 .. (MaxEntities - 1)
  BY HeadOfBatch, EntityIds
<1>3. spawned \in 0 .. MaxEntities /\ asked \in 0 .. MaxEntities
  BY DEF TypeOK
<1>4. QED
  BY <1>1, <1>2, <1>3, SessionAssumption, EntityIds

(* The commands an edge may send name an entity that was announced, or     *)
(* carry a token that has not been used.                                   *)
LEMMA CommandsKnown ==
  ASSUME TypeOK, NEW n, NEW c \in Commands(n)
  PROVE  /\ c.kind \in {"Despawn", "Move", "Keepalive"} \cup Spawns
         /\ c.id \in Entity
         /\ c.kind \in Spawns => c.id = asked /\ asked < MaxEntities
         /\ c.kind \in {"Despawn", "Move"} => c.id \in Announced
<1>1. CASE \E k \in {"Despawn", "Move"}, e \in Announced :
                c = [kind |-> k, from |-> n, id |-> e]
  BY <1>1 DEF Announced, Spawns
<1>2. CASE c = [kind |-> "Keepalive", from |-> n, id |-> 0]
  BY <1>2, SessionAssumption, EntityIds DEF Spawns
<1>3. CASE asked < MaxEntities
           /\ \E k \in Spawns : c = [kind |-> k, from |-> n, id |-> asked]
  <2>1. asked \in 0 .. MaxEntities
    BY DEF TypeOK
  <2>2. QED
    BY <1>3, <2>1, SessionAssumption, EntityIds DEF Spawns
<1>4. QED
  BY <1>1, <1>2, <1>3 DEF Commands

LEMMA SpawnKinds ==
  ASSUME NEW c, c.kind \in {"SpawnObserver", "SpawnUnattended"}
  PROVE  IsSpawn(c)
  BY DEF IsSpawn, Spawns

(* Every step of the session is a step of the registry, or leaves it alone. *)
LEMMA StepIsEdges == TypeOK /\ TokensRise /\ PhasesInOrder /\ [Next]_vars => [RegistryNext]_registry
<1> SUFFICES ASSUME TypeOK, TokensRise, PhasesInOrder, [Next]_vars
             PROVE  [RegistryNext]_registry
  OBVIOUS
<1> USE DEF registry
<1>1. ASSUME NEW n \in EdgeName, NEW i \in EdgeId, NEW c, Receive(n, i, c)
      PROVE  RegistryNext
  BY <1>1 DEF Receive, RegistryNext
<1>2. CASE Accept
  BY <1>2 DEF Accept
<1>3. CASE Silence
  BY <1>3 DEF Silence, RegistryNext
<1>4. CASE Sweep
  BY <1>4 DEF Sweep, RegistryNext
<1>5. CASE BeginStep
  BY <1>5 DEF BeginStep
<1>6. CASE TakeOrphans
  BY <1>6 DEF TakeOrphans, RegistryNext
<1>7. CASE RefuseSpawn
  BY <1>7 DEF RefuseSpawn
<1>8. CASE Spawn
  <2>1. batch # <<>> /\ IsSpawn(Head(batch))
    BY <1>8, SpawnKinds DEF Spawn, Command
  <2>2. Claim(Head(batch).edge, spawned)
    BY <1>8 DEF Spawn
  <2>3. QED
    BY <2>1, <2>2, HeadOfBatch, NextIdExists DEF RegistryNext
<1>9. CASE SpawnUnclaimed
  BY <1>9 DEF SpawnUnclaimed
<1>10. CASE RefuseDespawn
  BY <1>10 DEF RefuseDespawn
<1>11. CASE CheckDespawn
  BY <1>11 DEF CheckDespawn
<1>12. CASE Despawn
  <2>1. Head(batch).id \in Entity
    BY <1>12, HeadOfBatch DEF Despawn, PhasesInOrder
  <2>2. ReleaseIfHeld(Head(batch).id)
    BY <1>12 DEF Despawn
  <2>3. QED
    BY <2>1, <2>2 DEF ReleaseIfHeld, RegistryNext
<1>13. CASE RefuseMove
  BY <1>13 DEF RefuseMove
<1>14. CASE Move
  BY <1>14 DEF Move
<1>15. CASE FinishStep
  BY <1>15 DEF FinishStep
<1>16. CASE RetireGone
  BY <1>16 DEF RetireGone
<1>17. CASE Reconcile
  BY <1>17 DEF Reconcile
<1>18. CASE ReconcileRelease
  <2>1. retiring.id \in Entity
    BY <1>18, ConstantFacts DEF ReconcileRelease, PhasesInOrder, TypeOK, RetiringType
  <2>2. ReleaseIfHeld(retiring.id)
    BY <1>18 DEF ReconcileRelease
  <2>3. QED
    BY <2>1, <2>2 DEF ReleaseIfHeld, RegistryNext
<1>19. CASE ReconcileRetire
  BY <1>19 DEF ReconcileRetire
<1>20. CASE Answer
  BY <1>20 DEF Answer
<1>21. CASE EndTick
  BY <1>21 DEF EndTick
<1>22. CASE UNCHANGED vars
  BY <1>22 DEF vars
<1>23. QED
  BY <1>1, <1>2, <1>3, <1>4, <1>5, <1>6, <1>7, <1>8, <1>9, <1>10, <1>11, <1>12,
     <1>13, <1>14, <1>15, <1>16, <1>17, <1>18, <1>19, <1>20, <1>21, <1>22
  DEF Next, Tick

(* What a presence message does to what has been published.                *)
Says(e, what) ==
    \/ published' = published
    \/ \E m \in PresenceType :
        /\ m.what = what
        /\ published' = [published EXCEPT ![e] = Append(published[e], m)]

CachedType == [generation : Int, names : [EdgeId -> EdgeName \cup {None}]]

LEMMA PresenceEffect ==
  ASSUME TypeOK, NEW i \in EdgeId, NEW e \in Entity,
         NEW what \in {"Added", "Removed"}, NEW asker \in EdgeName \cup {None},
         Presence(i, e, what, asker)
  PROVE  cached' \in CachedType /\ Says(e, what)
<1> DEFINE names == IF cached.generation = generation THEN cached.names ELSE Names
<1>1. Names \in [EdgeId -> EdgeName \cup {None}]
  BY DEF Names, TypeOK, RegistryTypeOK, EdgeRecord
<1>2. names \in [EdgeId -> EdgeName \cup {None}]
  BY <1>1 DEF TypeOK
<1>3. /\ cached' = [generation |-> generation, names |-> names]
      /\ published' =
            IF names[i] = None THEN published
            ELSE [published EXCEPT ![e] =
                    Append(published[e], [what |-> what, to |-> names[i], asker |-> asker])]
  BY DEF Presence
<1> HIDE DEF names
<1>4. cached' \in CachedType
  <2>1. generation \in Int
    BY DEF TypeOK, RegistryTypeOK
  <2>2. QED
    BY <1>2, <1>3, <2>1 DEF CachedType
<1>5. CASE names[i] = None
  BY <1>3, <1>4, <1>5 DEF Says
<1>6. CASE names[i] # None
  <2> DEFINE m == [what |-> what, to |-> names[i], asker |-> asker]
  <2>1. names[i] \in EdgeName
    BY <1>2, <1>6
  <2>2. m \in PresenceType /\ m.what = what
    BY <2>1 DEF PresenceType
  <2>3. published' = [published EXCEPT ![e] = Append(published[e], m)]
    BY <1>3, <1>6
  <2> HIDE DEF m
  <2>4. QED
    BY <1>4, <2>2, <2>3 DEF Says
<1>7. QED
  BY <1>5, <1>6

LEMMA SaysType ==
  ASSUME TypeOK, NEW e \in Entity, NEW what, Says(e, what)
  PROVE  published' \in [Entity -> Seq(PresenceType)]
<1>1. published \in [Entity -> Seq(PresenceType)]
  BY DEF TypeOK
<1>2. CASE published' = published
  BY <1>1, <1>2
<1>3. ASSUME NEW m \in PresenceType,
             published' = [published EXCEPT ![e] = Append(published[e], m)]
      PROVE  published' \in [Entity -> Seq(PresenceType)]
  <2>1. Append(published[e], m) \in Seq(PresenceType)
    BY <1>1, AppendProperties
  <2>2. QED
    BY <1>1, <1>3, <2>1
<1>4. QED
  BY <1>2, <1>3 DEF Says

-----------------------------------------------------------------------------
(* The state stays well formed.                                            *)
LEMMA TypesInit == Init => TypeOK
  BY RegistryStarts, SessionAssumption, ConstantFacts
  DEF Init, TypeOK, RegistryAgrees, NO_AVATAR, NO_WATCHER

LEMMA RetireEffect ==
  ASSUME TypeOK, NEW i \in EdgeId \cup {None}, NEW e \in Entity, Retire(i, e)
  PROVE  /\ viewers' \in [Viewer -> Entity \cup {NO_AVATAR}]
         /\ watchers' \in [Entity -> Viewer \cup {NO_WATCHER}]
         /\ cached' \in CachedType
         /\ Says(e, "Removed")
         /\ i = None => published' = published
<1>1. /\ viewers' \in [Viewer -> Entity \cup {NO_AVATAR}]
      /\ watchers' \in [Entity -> Viewer \cup {NO_WATCHER}]
  BY DEF Retire, TypeOK
<1>2. CASE i = None
  BY <1>1, <1>2 DEF Retire, TypeOK, Says, CachedType
<1>3. CASE i # None
  <2>1. i \in EdgeId /\ Presence(i, e, "Removed", None)
    BY <1>3 DEF Retire
  <2>2. QED
    BY <1>1, <1>3, <2>1, PresenceEffect
<1>4. QED
  BY <1>2, <1>3

LEMMA AliveExist == TypeOK => alive \subseteq Entity /\ despawned \subseteq Entity
<1> SUFFICES ASSUME TypeOK PROVE alive \subseteq Entity /\ despawned \subseteq Entity
  OBVIOUS
<1>1. /\ alive \subseteq 0 .. (spawned - 1) /\ despawned \subseteq 0 .. (spawned - 1)
      /\ spawned \in 0 .. MaxEntities
  BY DEF TypeOK
<1>2. 0 .. (spawned - 1) \subseteq Entity
  BY <1>1, SessionAssumption, EntityIds
<1>3. QED
  BY <1>1, <1>2

LEMMA KillableAlive == Killable \subseteq alive
  BY SessionAssumption DEF Killable

LEMMA TypesStep ==
    RegistryAgrees /\ TypeOK /\ TokensRise /\ PhasesInOrder /\ OnlySpawnedAnnounced
        /\ RegistryAgrees' /\ [Next]_vars => TypeOK'
<1> SUFFICES ASSUME RegistryAgrees, TypeOK, TokensRise, PhasesInOrder,
                    OnlySpawnedAnnounced, RegistryAgrees', [Next]_vars
             PROVE  TypeOK'
  OBVIOUS
<1>0. RegistryTypeOK'
  BY DEF RegistryAgrees
<1> USE <1>0 DEF registry, reader, applying, world, session
<1>1. ASSUME NEW n \in EdgeName, NEW i \in EdgeId, NEW c \in Commands(n), Receive(n, i, c)
      PROVE  TypeOK'
  <2>1. /\ c.kind \in {"Despawn", "Move", "Keepalive"} \cup Spawns /\ c.id \in Entity
        /\ c.kind \in Spawns => asked < MaxEntities
    BY CommandsKnown
  <2>2. reading' \in CommandType
    BY <1>1, <2>1 DEF Receive, CommandType
  <2>3. sent' \in 0 .. MaxCommands /\ asked' \in 0 .. MaxEntities
    BY <1>1, <2>1, SessionAssumption DEF Receive, TypeOK
  <2>4. QED
    BY <1>1, <2>2, <2>3 DEF Receive, TypeOK
<1>2. CASE Accept
  BY <1>2, AppendProperties DEF Accept, TypeOK
<1>3. CASE Silence
  BY <1>3 DEF Silence, TypeOK
<1>4. CASE Sweep
  BY <1>4 DEF Sweep, TypeOK
<1>5. CASE BeginStep
  BY <1>5, KillableAlive, EmptySeq DEF BeginStep, TypeOK
<1>6. CASE TakeOrphans
  <2>1. alive \subseteq Entity
    BY AliveExist
  <2>2. gone' \subseteq [edge : EdgeId \cup {None}, id : Entity]
    <3>1. gone \subseteq [edge : EdgeId \cup {None}, id : Entity]
      BY DEF TypeOK
    <3>2. gone' = gone \cup {[edge |-> None, id |-> e] : e \in detached \cap alive}
      BY <1>6 DEF TakeOrphans
    <3>3. QED
      BY <2>1, <3>1, <3>2
  <2>3. QED
    BY <1>6, <2>2 DEF TakeOrphans, TypeOK
<1>7. CASE RefuseSpawn
  BY <1>7, HeadTailProperties DEF RefuseSpawn, Command, Done, TypeOK
<1>8. CASE Spawn
  <2>1. batch # <<>> /\ IsSpawn(Head(batch)) /\ Tail(batch) \in Seq(CommandType)
    BY <1>8, SpawnKinds, HeadTailProperties DEF Spawn, Command, TypeOK
  <2>2. spawned \in 0 .. (MaxEntities - 1)
    BY <2>1, NextIdExists, EntityIds
  <2>3. fresh' \in Seq([edge : EdgeId, id : Entity, from : EdgeName, observes : BOOLEAN])
    <3>1. [edge |-> Head(batch).edge, id |-> spawned, from |-> Head(batch).from,
           observes |-> Head(batch).kind = "SpawnObserver"]
            \in [edge : EdgeId, id : Entity, from : EdgeName, observes : BOOLEAN]
      BY <2>1, HeadOfBatch, NextIdExists
    <3>2. QED
      BY <1>8, <3>1, AppendProperties DEF Spawn, TypeOK
  <2>4. /\ spawned' \in 0 .. MaxEntities
        /\ alive' \subseteq 0 .. (spawned' - 1)
        /\ despawned' \subseteq 0 .. (spawned' - 1)
    BY <1>8, <2>2, SessionAssumption DEF Spawn, TypeOK
  <2>5. QED
    BY <1>8, <2>1, <2>3, <2>4 DEF Spawn, Done, TypeOK
<1>9. CASE SpawnUnclaimed
  <2>1. batch # <<>> /\ IsSpawn(Head(batch)) /\ Tail(batch) \in Seq(CommandType)
    BY <1>9, SpawnKinds, HeadTailProperties DEF SpawnUnclaimed, Command, TypeOK
  <2>2. spawned \in 0 .. (MaxEntities - 1)
    BY <2>1, NextIdExists, EntityIds
  <2>3. /\ spawned' \in 0 .. MaxEntities
        /\ alive' \subseteq 0 .. (spawned' - 1)
        /\ despawned' \subseteq 0 .. (spawned' - 1)
    BY <1>9, <2>2, SessionAssumption DEF SpawnUnclaimed, TypeOK
  <2>4. QED
    BY <1>9, <2>1, <2>3 DEF SpawnUnclaimed, Done, TypeOK
<1>10. CASE RefuseDespawn
  BY <1>10, HeadTailProperties DEF RefuseDespawn, Command, Done, TypeOK
<1>11. CASE CheckDespawn
  BY <1>11 DEF CheckDespawn, TypeOK
<1>12. CASE Despawn
  <2>1. batch # <<>>
    BY <1>12 DEF Despawn, PhasesInOrder
  <2>2. Head(batch) \in CommandType /\ Tail(batch) \in Seq(CommandType)
    BY <2>1, HeadTailProperties DEF TypeOK
  <2>3. [edge |-> Head(batch).edge, id |-> Head(batch).id]
            \in [edge : EdgeId \cup {None}, id : Entity]
    BY <2>1, HeadOfBatch
  <2>4. QED
    BY <1>12, <2>2, <2>3 DEF Despawn, Done, TypeOK
<1>13. CASE RefuseMove
  BY <1>13, HeadTailProperties DEF RefuseMove, Command, Done, TypeOK
<1>14. CASE Move
  <2>1. batch # <<>> /\ Tail(batch) \in Seq(CommandType)
    BY <1>14, HeadTailProperties DEF Move, Command, TypeOK
  <2>2. [id |-> Head(batch).id, from |-> Head(batch).from] \in [id : Entity, from : EdgeName]
    BY <2>1, HeadOfBatch
  <2>3. QED
    BY <1>14, <2>1, <2>2 DEF Move, Done, TypeOK
<1>15. CASE FinishStep
  BY <1>15, KillableAlive DEF FinishStep, TypeOK
<1>16. CASE RetireGone
  <2>1. PICK g \in gone : Retire(g.edge, g.id) /\ gone' = gone \ {g}
    BY <1>16 DEF RetireGone
  <2>2. g.edge \in EdgeId \cup {None} /\ g.id \in Entity
    BY DEF TypeOK
  <2>3. published' \in [Entity -> Seq(PresenceType)]
    BY <2>1, <2>2, RetireEffect, SaysType
  <2>4. QED
    BY <1>16, <2>1, <2>2, <2>3, RetireEffect DEF RetireGone, TypeOK, CachedType
<1>17. CASE Reconcile
  <2>1. PICK e \in despawned :
            /\ despawned' = despawned \ {e}
            /\ IF EdgeFor(e) = UNOWNED
               THEN UNCHANGED <<retiring, pc>>
               ELSE /\ retiring' = [edge |-> EdgeFor(e), id |-> e]
                    /\ pc' = "release"
    BY <1>17 DEF Reconcile
  <2>2. e \in Entity
    BY SessionAssumption, EntityIds DEF TypeOK
  <2>3. retiring' \in RetiringType \cup {None}
    BY <2>1, <2>2 DEF TypeOK, RegistryTypeOK, EdgeFor, RetiringType
  <2>4. QED
    BY <1>17, <2>1, <2>3 DEF Reconcile, TypeOK
<1>18. CASE ReconcileRelease
  BY <1>18 DEF ReconcileRelease, TypeOK
<1>19. CASE ReconcileRetire
  <2>1. retiring.edge \in EdgeId \cup {None} /\ retiring.id \in Entity
    BY <1>19 DEF ReconcileRetire, PhasesInOrder, TypeOK, RetiringType
  <2>2. published' \in [Entity -> Seq(PresenceType)]
    BY <1>19, <2>1, RetireEffect, SaysType DEF ReconcileRetire
  <2>3. QED
    BY <1>19, <2>1, <2>2, RetireEffect DEF ReconcileRetire, TypeOK, CachedType
<1>20. CASE Answer
  <2> DEFINE f == Head(fresh)
  <2>1. /\ f \in [edge : EdgeId, id : Entity, from : EdgeName, observes : BOOLEAN]
        /\ fresh' \in Seq([edge : EdgeId, id : Entity, from : EdgeName, observes : BOOLEAN])
    BY <1>20, HeadTailProperties DEF Answer, TypeOK
  <2>2. /\ viewers' \in [Viewer -> Entity \cup {NO_AVATAR}]
        /\ watchers' \in [Entity -> Viewer \cup {NO_WATCHER}]
    <3>1. CASE f.observes
      <4>1. PICK v \in Viewer : /\ viewers' = [viewers EXCEPT ![v] = f.id]
                                /\ watchers' = [watchers EXCEPT ![f.id] = v]
        BY <1>20, <3>1 DEF Answer
      <4>2. QED
        BY <2>1, <4>1 DEF TypeOK
    <3>2. CASE ~f.observes
      BY <1>20, <3>2 DEF Answer, TypeOK
    <3>3. QED
      BY <3>1, <3>2
  <2>3. Presence(f.edge, f.id, "Added", f.from)
    BY <1>20 DEF Answer
  <2> HIDE DEF f
  <2>4. published' \in [Entity -> Seq(PresenceType)]
    BY <2>1, <2>3, PresenceEffect, SaysType
  <2>5. cached' \in CachedType
    BY <2>1, <2>3, PresenceEffect
  <2>6. QED
    BY <1>20, <2>1, <2>2, <2>4, <2>5 DEF Answer, TypeOK, CachedType
<1>21. CASE EndTick
  BY <1>21 DEF EndTick, TypeOK
<1>22. CASE UNCHANGED vars
  BY <1>22 DEF vars, TypeOK
<1>23. QED
  BY <1>1, <1>2, <1>3, <1>4, <1>5, <1>6, <1>7, <1>8, <1>9, <1>10, <1>11, <1>12,
     <1>13, <1>14, <1>15, <1>16, <1>17, <1>18, <1>19, <1>20, <1>21, <1>22
  DEF Next, Tick

-----------------------------------------------------------------------------
(* Request tokens rise along the way of a command.                         *)
LEMMA TokensInit == Init => TokensRise
  BY EmptyElements
  DEF Init, TokensRise, Waiting, Rises, Precede

LEMMA TokensSame ==
  ASSUME TokensRise, UNCHANGED <<reading, queue, batch, asked, spawned>>
  PROVE  TokensRise'
  BY DEF TokensRise, Waiting, Rises, Precede, Elements, IsSpawn

(* The head of the batch is done with.  If it was a spawn, it took an id.  *)
LEMMA TokensTail ==
  ASSUME TypeOK, TokensRise, batch # <<>>, batch' = Tail(batch),
         UNCHANGED <<reading, queue, asked>>,
         spawned' = spawned \/ (IsSpawn(Head(batch)) /\ spawned' = spawned + 1)
  PROVE  TokensRise'
<1> DEFINE H == Head(batch)
<1>1. /\ H = batch[1] /\ 1 \in DOMAIN batch /\ H \in Elements(batch)
      /\ \A k \in DOMAIN Tail(batch) :
            k \in Nat \ {0} /\ k + 1 \in DOMAIN batch /\ Tail(batch)[k] = batch[k + 1]
      /\ Elements(Tail(batch)) \subseteq Elements(batch)
  BY HeadTailElements, LenProperties DEF TypeOK
<1>2. Waiting' \subseteq Waiting /\ Waiting \subseteq CommandType
  BY <1>1, WaitingType DEF Waiting
<1>3. \A c \in Waiting : c.id \in Int
  BY <1>2, EntityIds DEF CommandType
<1>4. ASSUME IsSpawn(H), NEW c \in Waiting', IsSpawn(c)
      PROVE  H.id < c.id
  <2>1. CASE c \in Elements(Tail(batch))
    <3>1. PICK k \in DOMAIN Tail(batch) : c = Tail(batch)[k]
      BY <2>1 DEF Elements
    <3>2. c = batch[k + 1] /\ 1 < k + 1 /\ k + 1 \in DOMAIN batch
      BY <1>1, <3>1
    <3>3. QED
      BY <1>1, <1>4, <3>2 DEF TokensRise, Rises
  <2>2. CASE c \in Elements(queue)
    BY <1>1, <1>4, <2>2 DEF TokensRise, Precede
  <2>3. CASE c \in {reading} \ {None}
    BY <1>1, <1>4, <2>3 DEF TokensRise, Precede
  <2>4. QED
    BY <2>1, <2>2, <2>3 DEF Waiting
<1>5. H \in Waiting /\ spawned \in Int /\ asked \in Int
  BY <1>1 DEF Waiting, TypeOK
<1>6. ASSUME NEW c \in Waiting', IsSpawn(c) PROVE spawned' <= c.id /\ c.id < asked
  <2>1. spawned <= c.id /\ c.id < asked
    BY <1>2, <1>6 DEF TokensRise
  <2>2. CASE spawned' = spawned
    BY <2>1, <2>2
  <2>3. CASE IsSpawn(H) /\ spawned' = spawned + 1
    <3>1. H.id < c.id /\ spawned <= H.id
      BY <1>4, <1>5, <1>6, <2>3 DEF TokensRise
    <3>2. QED
      BY <1>2, <1>3, <1>5, <2>1, <2>3, <3>1
  <2>4. QED
    BY <2>2, <2>3
<1>7. spawned' <= asked
  <2>1. CASE spawned' = spawned
    BY <2>1 DEF TokensRise
  <2>2. CASE IsSpawn(H) /\ spawned' = spawned + 1
    <3>1. spawned <= H.id /\ H.id < asked
      BY <1>5, <2>2 DEF TokensRise
    <3>2. QED
      BY <1>3, <1>5, <2>2, <3>1
  <2>3. QED
    BY <2>1, <2>2
<1>8. Rises(Tail(batch))
  <2> SUFFICES ASSUME NEW j \in DOMAIN Tail(batch), NEW k \in DOMAIN Tail(batch), j < k,
                      IsSpawn(Tail(batch)[j]), IsSpawn(Tail(batch)[k])
               PROVE  Tail(batch)[j].id < Tail(batch)[k].id
    BY DEF Rises
  <2>1. j + 1 \in DOMAIN batch /\ k + 1 \in DOMAIN batch /\ j + 1 < k + 1
    BY <1>1
  <2>2. QED
    BY <1>1, <2>1 DEF TokensRise, Rises
<1>9. Precede(Elements(Tail(batch)), Elements(queue))
  BY <1>1 DEF TokensRise, Precede
<1>10. Precede(Elements(Tail(batch)) \cup Elements(queue), {reading} \ {None})
  BY <1>1 DEF TokensRise, Precede
<1>11. Rises(queue)
  BY DEF TokensRise
<1> HIDE DEF H
<1>12. \A c \in Waiting' : IsSpawn(c) => spawned' <= c.id /\ c.id < asked
  BY <1>6
<1>13. QED
  BY <1>7, <1>8, <1>9, <1>10, <1>11, <1>12
  DEF TokensRise, Waiting, Rises, Precede, Elements, IsSpawn

LEMMA TokensStep == TypeOK /\ TokensRise /\ PhasesInOrder /\ [Next]_vars => TokensRise'
<1> SUFFICES ASSUME TypeOK, TokensRise, PhasesInOrder, [Next]_vars PROVE TokensRise'
  OBVIOUS
<1> USE DEF registry, reader, applying, world, session
<1>1. ASSUME NEW n \in EdgeName, NEW i \in EdgeId, NEW c \in Commands(n), Receive(n, i, c)
      PROVE  TokensRise'
  <2>1. /\ reading = None /\ reading' # None
        /\ reading' = [kind |-> c.kind, from |-> n, id |-> c.id, edge |-> i]
        /\ queue' = queue /\ batch' = batch /\ spawned' = spawned
        /\ asked' = IF c.kind \in Spawns THEN asked + 1 ELSE asked
    <3>1. reading' = [kind |-> c.kind, from |-> n, id |-> c.id, edge |-> i]
      BY <1>1 DEF Receive
    <3>2. c.kind \in {"Despawn", "Move", "Keepalive"} \cup Spawns /\ c.id \in Entity
      BY CommandsKnown
    <3>3. reading' # None
      BY <3>1, <3>2, ConstantFacts DEF CommandType
    <3>4. QED
      BY <1>1, <3>1, <3>3 DEF Receive
  <2>2. c.kind \in Spawns => c.id = asked
    BY CommandsKnown
  <2>3. spawned \in Int /\ asked \in Int /\ asked' \in Int /\ asked <= asked'
    BY <2>1 DEF TypeOK
  <2>4. \A d \in Waiting : IsSpawn(d) => spawned <= d.id /\ d.id < asked /\ d.id \in Int
    BY WaitingType, EntityIds DEF TokensRise, CommandType
  <2>5. Waiting' = Waiting \cup {reading'}
    BY <2>1 DEF Waiting
  <2>6. IsSpawn(reading') =>
            reading'.id = asked /\ asked' = asked + 1 /\ spawned <= asked
    BY <2>1, <2>2 DEF IsSpawn, TokensRise
  <2>7. \A d \in Waiting' : IsSpawn(d) => spawned <= d.id /\ d.id < asked'
    BY <2>3, <2>4, <2>5, <2>6 DEF IsSpawn
  <2>8. Precede(Elements(batch) \cup Elements(queue), {reading'})
    BY <2>4, <2>6 DEF Precede, Waiting, IsSpawn
  <2>9. spawned <= asked'
    BY <2>3 DEF TokensRise
  <2>10. {reading'} \ {None} = {reading'}
    BY <2>1
  <2>11. QED
    BY <2>1, <2>7, <2>8, <2>9, <2>10
    DEF TokensRise, Waiting, Rises, Precede, Elements, IsSpawn
<1>2. CASE Accept
  <2>1. /\ reading # None /\ reading' = None /\ batch' = batch
        /\ asked' = asked /\ spawned' = spawned
        /\ queue' = IF reading.kind = "Keepalive" THEN queue ELSE Append(queue, reading)
    BY <1>2 DEF Accept
  <2>2. CASE reading.kind = "Keepalive"
    BY <2>1, <2>2 DEF TokensRise, Waiting, Rises, Precede, Elements, IsSpawn
  <2>3. CASE queue' = Append(queue, reading)
    <3>1. reading \in CommandType /\ queue \in Seq(CommandType)
      BY <2>1 DEF TypeOK
    <3>2. Elements(queue') = Elements(queue) \cup {reading}
      BY <2>3, <3>1, AppendElements
    <3>3. \A j \in DOMAIN queue : queue[j] \in Elements(queue)
      BY DEF Elements
    <3>4. Rises(queue')
      <4> SUFFICES ASSUME NEW j \in DOMAIN queue', NEW k \in DOMAIN queue', j < k,
                          IsSpawn(queue'[j]), IsSpawn(queue'[k])
                   PROVE  queue'[j].id < queue'[k].id
        BY DEF Rises
      <4>1. j \in DOMAIN queue /\ queue'[j] = queue[j]
        <5>1. j = Len(queue) + 1 => k \notin DOMAIN queue /\ k # Len(queue) + 1
          BY <3>1, LenProperties
        <5>2. QED
          BY <2>3, <3>1, <5>1, AppendElements
      <4>2. CASE k \in DOMAIN queue /\ queue'[k] = queue[k]
        BY <4>1, <4>2 DEF TokensRise, Rises
      <4>3. CASE queue'[k] = reading
        BY <2>1, <3>3, <4>1, <4>3 DEF TokensRise, Precede
      <4>4. QED
        BY <2>3, <3>1, <4>2, <4>3, AppendElements
    <3>5. Waiting' = Waiting
      BY <2>1, <3>2 DEF Waiting, Elements
    <3>6. Precede(Elements(batch), Elements(queue'))
      BY <2>1, <3>2 DEF TokensRise, Precede
    <3>7. {reading'} \ {None} = {}
      BY <2>1
    <3>8. QED
      BY <2>1, <3>4, <3>5, <3>6, <3>7
      DEF TokensRise, Rises, Precede, Elements, IsSpawn
  <2>4. QED
    BY <2>1, <2>2, <2>3
<1>3. CASE Silence
  BY <1>3, TokensSame DEF Silence
<1>4. CASE Sweep
  BY <1>4, TokensSame DEF Sweep
<1>5. CASE BeginStep
  <2>1. /\ batch' = queue /\ queue' = <<>> /\ reading' = reading
        /\ asked' = asked /\ spawned' = spawned
    BY <1>5 DEF BeginStep
  <2>2. Elements(queue') = {} /\ Rises(queue')
    BY <2>1, EmptyElements DEF Rises
  <2>3. Elements(batch') = Elements(queue)
    BY <2>1 DEF Elements
  <2>4. Waiting' \subseteq Waiting
    BY <2>1, <2>2, <2>3 DEF Waiting, Elements
  <2>5. Rises(batch')
    BY <2>1 DEF TokensRise, Rises
  <2>6. QED
    BY <2>1, <2>2, <2>3, <2>4, <2>5 DEF TokensRise, Rises, Precede, Elements, IsSpawn
<1>6. CASE TakeOrphans
  BY <1>6, TokensSame DEF TakeOrphans
<1>7. CASE RefuseSpawn
  BY <1>7, TokensTail DEF RefuseSpawn, Command, Done
<1>8. CASE Spawn
  BY <1>8, SpawnKinds, TokensTail DEF Spawn, Command, Done
<1>9. CASE SpawnUnclaimed
  BY <1>9, SpawnKinds, TokensTail DEF SpawnUnclaimed, Command, Done
<1>10. CASE RefuseDespawn
  BY <1>10, TokensTail DEF RefuseDespawn, Command, Done
<1>11. CASE CheckDespawn
  BY <1>11, TokensSame DEF CheckDespawn
<1>12. CASE Despawn
  BY <1>12, TokensTail DEF Despawn, PhasesInOrder, Done
<1>13. CASE RefuseMove
  BY <1>13, TokensTail DEF RefuseMove, Command, Done
<1>14. CASE Move
  BY <1>14, TokensTail DEF Move, Command, Done
<1>15. CASE FinishStep
  BY <1>15, TokensSame DEF FinishStep
<1>16. CASE RetireGone
  BY <1>16, TokensSame DEF RetireGone
<1>17. CASE Reconcile
  BY <1>17, TokensSame DEF Reconcile
<1>18. CASE ReconcileRelease
  BY <1>18, TokensSame DEF ReconcileRelease
<1>19. CASE ReconcileRetire
  BY <1>19, TokensSame DEF ReconcileRetire
<1>20. CASE Answer
  BY <1>20, TokensSame DEF Answer
<1>21. CASE EndTick
  BY <1>21, TokensSame DEF EndTick
<1>22. CASE UNCHANGED vars
  BY <1>22, TokensSame DEF vars
<1>23. QED
  BY <1>1, <1>2, <1>3, <1>4, <1>5, <1>6, <1>7, <1>8, <1>9, <1>10, <1>11, <1>12,
     <1>13, <1>14, <1>15, <1>16, <1>17, <1>18, <1>19, <1>20, <1>21, <1>22
  DEF Next, Tick

-----------------------------------------------------------------------------
(* What each phase of a tick leaves behind for the next.                   *)
LEMMA PhasesStep == TypeOK /\ PhasesInOrder /\ [Next]_vars => PhasesInOrder'
<1> SUFFICES ASSUME TypeOK, PhasesInOrder, [Next]_vars PROVE PhasesInOrder'
  OBVIOUS
<1> USE DEF registry, reader, applying, world, session, PhasesInOrder
<1>0. ASSUME UNCHANGED <<retiring, pc, despawned, gone, fresh, batch>> PROVE PhasesInOrder'
  BY <1>0
<1>1. ASSUME NEW n \in EdgeName, NEW i \in EdgeId, NEW c, Receive(n, i, c)
      PROVE  PhasesInOrder'
  BY <1>1 DEF Receive
<1>2. CASE Accept
  BY <1>2 DEF Accept
<1>3. CASE Silence
  BY <1>3 DEF Silence
<1>4. CASE Sweep
  BY <1>4 DEF Sweep
<1>5. CASE BeginStep
  BY <1>5 DEF BeginStep
<1>6. CASE TakeOrphans
  BY <1>6 DEF TakeOrphans
<1>7. CASE RefuseSpawn
  BY <1>7 DEF RefuseSpawn, Command
<1>8. CASE Spawn
  BY <1>8 DEF Spawn, Command
<1>9. CASE SpawnUnclaimed
  BY <1>9 DEF SpawnUnclaimed, Command
<1>10. CASE RefuseDespawn
  BY <1>10 DEF RefuseDespawn, Command
<1>11. CASE CheckDespawn
  BY <1>11 DEF CheckDespawn, Command
<1>12. CASE Despawn
  BY <1>12 DEF Despawn
<1>13. CASE RefuseMove
  BY <1>13 DEF RefuseMove, Command
<1>14. CASE Move
  BY <1>14 DEF Move, Command
<1>15. CASE FinishStep
  BY <1>15 DEF FinishStep
<1>16. CASE RetireGone
  BY <1>16 DEF RetireGone
<1>17. CASE Reconcile
  <2>1. PICK e \in despawned :
            /\ despawned' = despawned \ {e}
            /\ IF EdgeFor(e) = UNOWNED
               THEN UNCHANGED <<retiring, pc>>
               ELSE /\ retiring' = [edge |-> EdgeFor(e), id |-> e]
                    /\ pc' = "release"
    BY <1>17 DEF Reconcile
  <2>2. CASE UNCHANGED <<retiring, pc>>
    BY <1>17, <2>1, <2>2 DEF Reconcile
  <2>3. CASE EdgeFor(e) # UNOWNED
    <3>1. retiring' \in RetiringType
      <4>1. e \in Entity
        BY AliveExist
      <4>2. owners[e] \in EdgeId
        BY <2>3, <4>1 DEF TypeOK, RegistryTypeOK, EdgeFor
      <4>3. QED
        BY <2>1, <2>3, <4>1, <4>2 DEF RetiringType, EdgeFor
    <3>2. QED
      BY <1>17, <2>1, <2>3, <3>1, ConstantFacts DEF Reconcile
  <2>4. QED
    BY <2>1, <2>2, <2>3
<1>18. CASE ReconcileRelease
  BY <1>18 DEF ReconcileRelease
<1>19. CASE ReconcileRetire
  BY <1>19 DEF ReconcileRetire
<1>20. CASE Answer
  BY <1>20 DEF Answer
<1>21. CASE EndTick
  BY <1>21 DEF EndTick
<1>22. CASE UNCHANGED vars
  BY <1>22 DEF vars
<1>23. QED
  BY <1>1, <1>2, <1>3, <1>4, <1>5, <1>6, <1>7, <1>8, <1>9, <1>10, <1>11, <1>12,
     <1>13, <1>14, <1>15, <1>16, <1>17, <1>18, <1>19, <1>20, <1>21, <1>22
  DEF Next, Tick

-----------------------------------------------------------------------------
(* Who lives and who is managed: AliveAreManaged, OwnedAccounted and       *)
(* DeadStayDead go together.                                               *)
LivesInOrder == AliveAreManaged /\ OwnedAccounted /\ DeadStayDead

LEMMA AliveRecoverable ==
  AliveAreManaged <=> \A e \in alive : Recoverable(e)
  BY DEF AliveAreManaged, Recoverable

(* Steps of the other threads.                                             *)
LEMMA LivesElsewhere ==
  ASSUME TypeOK, LivesInOrder, OwnersOnlyCleared, NoneLost,
         UNCHANGED <<pc, alive, despawned, spawned, gone, retiring>>
  PROVE  LivesInOrder'
<1>1. AliveAreManaged'
  <2>1. \A e \in alive : Recoverable(e)'
    BY AliveExist, AliveRecoverable DEF LivesInOrder, NoneLost
  <2>2. QED
    BY <2>1 DEF AliveAreManaged, Recoverable
<1>2. OwnedAccounted'
  BY DEF LivesInOrder, OwnedAccounted, OwnersOnlyCleared
<1>3. DeadStayDead'
  BY DEF LivesInOrder, DeadStayDead
<1>4. QED
  BY <1>1, <1>2, <1>3 DEF LivesInOrder

LEMMA SameOwners ==
  UNCHANGED <<owners, detached, dropping>> => OwnersOnlyCleared /\ NoneLost
  BY DEF OwnersOnlyCleared, NoneLost, Recoverable, Orphaned

LEMMA RegistrySame == UNCHANGED registry => UNCHANGED <<owners, detached, dropping>>
  BY DEF registry

LEMMA LivesStep ==
    RegistryAgrees /\ TypeOK /\ TokensRise /\ PhasesInOrder /\ OnlySpawnedAnnounced
        /\ CommandsHonest /\ LivesInOrder /\ [Next]_vars => LivesInOrder'
<1> SUFFICES ASSUME RegistryAgrees, TypeOK, TokensRise, PhasesInOrder,
                    OnlySpawnedAnnounced, CommandsHonest, LivesInOrder, [Next]_vars
             PROVE  LivesInOrder'
  OBVIOUS
<1> USE DEF reader, applying, world, session
<1>0. ASSUME UNCHANGED <<registry, pc, alive, despawned, spawned, gone, retiring>>
      PROVE  LivesInOrder'
  BY <1>0, RegistrySame, SameOwners, LivesElsewhere
<1>1. ASSUME NEW n \in EdgeName, NEW i \in EdgeId, NEW c, Receive(n, i, c)
      PROVE  LivesInOrder'
  <2>1. Admit(n, i) /\ UNCHANGED <<pc, alive, despawned, spawned, gone, retiring>>
    BY <1>1 DEF Receive
  <2>2. QED
    BY <2>1, AdmitEffect, SameOwners, LivesElsewhere
<1>2. CASE Accept
  BY <1>0, <1>2 DEF Accept
<1>3. CASE Silence
  <2>1. UNCHANGED <<owners, detached, dropping>>
    BY <1>3 DEF Silence, GoSilent, sweepVars
  <2>2. UNCHANGED <<pc, alive, despawned, spawned, gone, retiring>>
    BY <1>3 DEF Silence
  <2>3. QED
    BY <2>1, <2>2, SameOwners, LivesElsewhere
<1>4. CASE Sweep
  BY <1>4, SweepEffect, LivesElsewhere DEF Sweep
<1>5. CASE BeginStep
  <2>1. /\ pc = "between" /\ pc' = "orphans"
        /\ UNCHANGED <<owners, detached, dropping, spawned, gone, retiring>>
        /\ \E S \in SUBSET Killable : alive' = alive \ S /\ despawned' = S
    BY <1>5 DEF BeginStep, registry
  <2>2. PICK S \in SUBSET Killable : alive' = alive \ S /\ despawned' = S
    BY <2>1
  <2>3. S \subseteq alive
    BY KillableAlive
  <2>4. despawned = {} /\ retiring = None
    BY <2>1 DEF PhasesInOrder
  <2>5. QED
    BY <2>1, <2>2, <2>3, <2>4
    DEF LivesInOrder, AliveAreManaged, OwnedAccounted, DeadStayDead, Orphaned
<1>6. CASE TakeOrphans
  <2>1. /\ pc = "orphans" /\ pc' = "commands"
        /\ detached' = {}
        /\ alive' = alive \ detached
        /\ despawned' = despawned \cup (detached \cap alive)
        /\ gone' = gone \cup {[edge |-> None, id |-> e] : e \in detached \cap alive}
        /\ UNCHANGED <<owners, dropping, spawned, retiring>>
    BY <1>6 DEF TakeOrphans, TakeDetached, sweepVars
  <2>2. \A e \in alive : e < spawned
    BY DEF TypeOK
  <2>3. AliveAreManaged' /\ OwnedAccounted'
    BY <2>1 DEF LivesInOrder, AliveAreManaged, OwnedAccounted, Orphaned
  <2>4. DeadStayDead'
    <3>1. \A g \in gone' : g \in gone \/ g.id \in detached \cap alive
      BY <2>1
    <3>2. QED
      BY <2>1, <2>2, <3>1 DEF LivesInOrder, DeadStayDead
  <2>5. QED
    BY <2>3, <2>4 DEF LivesInOrder
<1>7. CASE RefuseSpawn
  BY <1>0, <1>7 DEF RefuseSpawn
<1>8. CASE Spawn
  <2>1. /\ batch # <<>> /\ IsSpawn(Head(batch)) /\ pc = "commands"
    BY <1>8, SpawnKinds DEF Spawn, Command
  <2>2. Head(batch).edge \in EdgeId /\ spawned \in Entity
    BY <2>1, HeadOfBatch, NextIdExists
  <2>3. /\ owners' = [owners EXCEPT ![spawned] = Head(batch).edge]
        /\ spawned' = spawned + 1
        /\ alive' = alive \cup {spawned}
        /\ UNCHANGED <<detached, dropping, despawned, gone, retiring, pc>>
    BY <1>8 DEF Spawn, Claim, sweepVars
  <2>4. /\ \A e \in alive \cup despawned : e < spawned
        /\ spawned \in Int /\ owners \in [Entity -> EdgeId \cup {UNOWNED}]
    BY DEF TypeOK, RegistryTypeOK
  <2>5. AliveAreManaged'
    BY <2>2, <2>3, <2>4, ConstantFacts, AliveExist DEF LivesInOrder, AliveAreManaged, Orphaned
  <2>6. OwnedAccounted'
    BY <2>2, <2>3, <2>4 DEF LivesInOrder, OwnedAccounted
  <2>7. DeadStayDead'
    <3>1. gone \subseteq [edge : EdgeId \cup {None}, id : Entity]
          /\ retiring \in RetiringType \cup {None}
      BY DEF TypeOK
    <3>2. \A e \in Entity : e < spawned => e < spawned + 1 /\ e # spawned
      BY <2>2, EntityIds
    <3>3. QED
      BY <2>2, <2>3, <2>4, <3>1, <3>2 DEF LivesInOrder, DeadStayDead, RetiringType
  <2>8. QED
    BY <2>5, <2>6, <2>7 DEF LivesInOrder
<1>9. CASE SpawnUnclaimed
  <2>1. /\ batch # <<>> /\ IsSpawn(Head(batch)) /\ pc = "commands"
    BY <1>9, SpawnKinds DEF SpawnUnclaimed, Command
  <2>2. spawned \in Entity
    BY <2>1, NextIdExists
  <2>3. /\ spawned' = spawned + 1
        /\ despawned' = despawned \cup {spawned}
        /\ UNCHANGED <<owners, detached, dropping, alive, gone, retiring, pc>>
    BY <1>9 DEF SpawnUnclaimed, registry
  <2>4. \A e \in alive \cup despawned : e < spawned
    BY DEF TypeOK
  <2>5. AliveAreManaged' /\ OwnedAccounted'
    BY <2>3 DEF LivesInOrder, AliveAreManaged, OwnedAccounted, Orphaned
  <2>6. DeadStayDead'
    <3>1. gone \subseteq [edge : EdgeId \cup {None}, id : Entity]
          /\ retiring \in RetiringType \cup {None}
      BY DEF TypeOK
    <3>2. \A e \in Entity : e < spawned => e < spawned + 1 /\ e # spawned
      BY <2>2, EntityIds
    <3>3. spawned \notin alive
      BY <2>2, <2>4, <3>2
    <3>4. QED
      BY <2>2, <2>3, <3>1, <3>2, <3>3 DEF LivesInOrder, DeadStayDead, RetiringType
  <2>7. QED
    BY <2>5, <2>6 DEF LivesInOrder
<1>10. CASE RefuseDespawn
  BY <1>0, <1>10 DEF RefuseDespawn
<1>11. CASE CheckDespawn
  <2>1. /\ pc = "commands" /\ pc' = "despawn"
        /\ UNCHANGED <<owners, detached, dropping, alive, despawned, spawned, gone, retiring>>
    BY <1>11 DEF CheckDespawn, Command, registry
  <2>2. QED
    BY <2>1 DEF LivesInOrder, AliveAreManaged, OwnedAccounted, DeadStayDead, Orphaned
<1>12. CASE Despawn
  <2> DEFINE H == Head(batch)
  <2>1. batch # <<>> /\ H.kind = "Despawn" /\ pc = "despawn" /\ pc' = "commands"
    BY <1>12 DEF Despawn, PhasesInOrder
  <2>2. H.id \in Entity /\ H \in Waiting
    BY <2>1, HeadOfBatch
  <2>3. H.id < spawned
    BY <2>1, <2>2 DEF CommandsHonest, OnlySpawnedAnnounced
  <2>4. /\ alive' = alive \ {H.id}
        /\ despawned' = despawned \cup ({H.id} \cap alive)
        /\ gone' = gone \cup {[edge |-> H.edge, id |-> H.id]}
        /\ UNCHANGED <<spawned, retiring>>
    BY <1>12 DEF Despawn
  <2>5. /\ owners' = [owners EXCEPT ![H.id] = UNOWNED]
        /\ UNCHANGED <<detached, dropping>>
    BY <1>12, <2>2, ReleaseEffect DEF Despawn
  <2>6. owners \in [Entity -> EdgeId \cup {UNOWNED}] /\ alive \subseteq Entity
    BY AliveExist DEF TypeOK, RegistryTypeOK
  <2> HIDE DEF H
  <2>7. AliveAreManaged'
    BY <2>2, <2>4, <2>5, <2>6 DEF LivesInOrder, AliveAreManaged, Orphaned
  <2>8. OwnedAccounted'
    BY <2>1, <2>2, <2>4, <2>5, <2>6 DEF LivesInOrder, OwnedAccounted
  <2>9. DeadStayDead'
    BY <2>3, <2>4 DEF LivesInOrder, DeadStayDead
  <2>10. QED
    BY <2>7, <2>8, <2>9 DEF LivesInOrder
<1>13. CASE RefuseMove
  BY <1>0, <1>13 DEF RefuseMove
<1>14. CASE Move
  BY <1>0, <1>14 DEF Move
<1>15. CASE FinishStep
  <2>1. /\ pc = "commands" /\ pc' = "settle"
        /\ UNCHANGED <<owners, detached, dropping, spawned, gone, retiring>>
        /\ \E S \in SUBSET Killable : alive' = alive \ S /\ despawned' = despawned \cup S
    BY <1>15 DEF FinishStep, registry
  <2>2. PICK S \in SUBSET Killable : alive' = alive \ S /\ despawned' = despawned \cup S
    BY <2>1
  <2>3. S \subseteq alive
    BY KillableAlive
  <2>4. QED
    BY <2>1, <2>2, <2>3
    DEF LivesInOrder, AliveAreManaged, OwnedAccounted, DeadStayDead, Orphaned
<1>16. CASE RetireGone
  <2>1. /\ gone' \subseteq gone
        /\ UNCHANGED <<owners, detached, dropping, alive, despawned, spawned, retiring, pc>>
    BY <1>16 DEF RetireGone, registry
  <2>2. QED
    BY <2>1 DEF LivesInOrder, AliveAreManaged, OwnedAccounted, DeadStayDead, Orphaned
<1>17. CASE Reconcile
  <2>1. PICK e \in despawned :
            /\ despawned' = despawned \ {e}
            /\ IF EdgeFor(e) = UNOWNED
               THEN UNCHANGED <<retiring, pc>>
               ELSE /\ retiring' = [edge |-> EdgeFor(e), id |-> e]
                    /\ pc' = "release"
    BY <1>17 DEF Reconcile
  <2>2. /\ pc = "settle"
        /\ UNCHANGED <<owners, detached, dropping, alive, spawned, gone>>
    BY <1>17 DEF Reconcile, registry
  <2>3. AliveAreManaged'
    BY <2>2 DEF LivesInOrder, AliveAreManaged, Orphaned
  <2>4. OwnedAccounted'
    BY <2>1, <2>2 DEF LivesInOrder, OwnedAccounted, EdgeFor
  <2>5. e < spawned
    BY DEF TypeOK
  <2>6. DeadStayDead'
    BY <2>1, <2>2, <2>5 DEF LivesInOrder, DeadStayDead
  <2>7. QED
    BY <2>3, <2>4, <2>6 DEF LivesInOrder
<1>18. CASE ReconcileRelease
  <2>1. /\ pc = "release" /\ pc' = "retire" /\ retiring # None
        /\ UNCHANGED <<alive, despawned, spawned, gone, retiring>>
    BY <1>18 DEF ReconcileRelease, PhasesInOrder
  <2>2. retiring.id \in Entity /\ retiring.id \notin alive
    BY <2>1 DEF TypeOK, RetiringType, LivesInOrder, DeadStayDead
  <2>3. /\ owners' = [owners EXCEPT ![retiring.id] = UNOWNED]
        /\ UNCHANGED <<detached, dropping>>
    BY <1>18, <2>2, ReleaseEffect DEF ReconcileRelease
  <2>4. owners \in [Entity -> EdgeId \cup {UNOWNED}] /\ alive \subseteq Entity
    BY AliveExist DEF TypeOK, RegistryTypeOK
  <2>5. AliveAreManaged'
    BY <2>1, <2>2, <2>3, <2>4 DEF LivesInOrder, AliveAreManaged, Orphaned
  <2>6. OwnedAccounted'
    BY <2>1, <2>2, <2>3, <2>4 DEF LivesInOrder, OwnedAccounted
  <2>7. DeadStayDead'
    BY <2>1 DEF LivesInOrder, DeadStayDead
  <2>8. QED
    BY <2>5, <2>6, <2>7 DEF LivesInOrder
<1>19. CASE ReconcileRetire
  <2>1. /\ pc = "retire" /\ pc' = "settle" /\ retiring' = None
        /\ UNCHANGED <<owners, detached, dropping, alive, despawned, spawned, gone>>
    BY <1>19 DEF ReconcileRetire, registry
  <2>2. QED
    BY <2>1 DEF LivesInOrder, AliveAreManaged, OwnedAccounted, DeadStayDead, Orphaned
<1>20. CASE Answer
  BY <1>0, <1>20 DEF Answer
<1>21. CASE EndTick
  <2>1. /\ pc = "settle" /\ pc' = "between"
        /\ UNCHANGED <<owners, detached, dropping, alive, despawned, spawned, gone, retiring>>
    BY <1>21 DEF EndTick, registry
  <2>2. QED
    BY <2>1 DEF LivesInOrder, AliveAreManaged, OwnedAccounted, DeadStayDead, Orphaned
<1>22. CASE UNCHANGED vars
  BY <1>0, <1>22 DEF vars
<1>23. QED
  BY <1>1, <1>2, <1>3, <1>4, <1>5, <1>6, <1>7, <1>8, <1>9, <1>10, <1>11, <1>12,
     <1>13, <1>14, <1>15, <1>16, <1>17, <1>18, <1>19, <1>20, <1>21, <1>22
  DEF Next, Tick

-----------------------------------------------------------------------------
(* What is said of an entity adds to what was said of it, and of no other. *)
LEMMA SaysEffect ==
  ASSUME TypeOK, NEW e \in Entity, NEW what, Says(e, what)
  PROVE  /\ Announced \subseteq Announced' /\ Announced' \subseteq Announced \cup {e}
         /\ \A x \in Entity : x # e => published'[x] = published[x]
         /\ \A x \in Entity : Told(x) => Told(x)'
         /\ \A x \in Entity : Told(x)' => Told(x) \/ (x = e /\ what = "Removed")
<1>1. CASE published' = published
  BY <1>1 DEF Announced, Told
<1>2. ASSUME NEW m \in PresenceType, m.what = what,
             published' = [published EXCEPT ![e] = Append(published[e], m)]
      PROVE  /\ Announced \subseteq Announced' /\ Announced' \subseteq Announced \cup {e}
             /\ \A x \in Entity : x # e => published'[x] = published[x]
             /\ \A x \in Entity : Told(x) => Told(x)'
             /\ \A x \in Entity : Told(x)' => Told(x) \/ (x = e /\ what = "Removed")
  <2>1. published \in [Entity -> Seq(PresenceType)]
    BY DEF TypeOK
  <2> DEFINE s == published[e]
  <2>2. /\ published'[e] = Append(s, m)
        /\ \A x \in Entity : x # e => published'[x] = published[x]
    BY <1>2, <2>1
  <2>3. /\ Append(s, m) # <<>>
        /\ \A k \in DOMAIN s : k \in DOMAIN Append(s, m) /\ Append(s, m)[k] = s[k]
        /\ \A k \in DOMAIN Append(s, m) :
                (k \in DOMAIN s /\ Append(s, m)[k] = s[k]) \/ Append(s, m)[k] = m
    BY <2>1, AppendElements
  <2> HIDE DEF s
  <2>4. Announced \subseteq Announced' /\ Announced' \subseteq Announced \cup {e}
    BY <2>2, <2>3 DEF Announced
  <2>5. ASSUME NEW x \in Entity, Told(x) PROVE Told(x)'
    <3>1. CASE x = e
      BY <2>2, <2>3, <2>5, <3>1 DEF Told, s
    <3>2. CASE x # e
      BY <2>2, <2>5, <3>2 DEF Told
    <3>3. QED
      BY <3>1, <3>2
  <2>6. ASSUME NEW x \in Entity, Told(x)' PROVE Told(x) \/ (x = e /\ what = "Removed")
    <3>1. CASE x = e
      BY <1>2, <2>2, <2>3, <2>6, <3>1 DEF Told, s
    <3>2. CASE x # e
      BY <2>2, <2>6, <3>2 DEF Told
    <3>3. QED
      BY <3>1, <3>2
  <2>7. QED
    BY <2>2, <2>4, <2>5, <2>6
<1>3. QED
  BY <1>1, <1>2 DEF Says

(* The three steps that say something.                                     *)
LEMMA RetireGoneEffect ==
  ASSUME TypeOK, RetireGone
  PROVE  \E g \in gone :
            /\ g.id \in Entity
            /\ gone' = gone \ {g}
            /\ Says(g.id, "Removed")
            /\ g.edge = None => published' = published
<1>1. PICK g \in gone : Retire(g.edge, g.id) /\ gone' = gone \ {g}
  BY DEF RetireGone
<1>2. g.edge \in EdgeId \cup {None} /\ g.id \in Entity
  BY DEF TypeOK
<1>3. QED
  BY <1>1, <1>2, RetireEffect

LEMMA ReconcileRetireEffect ==
  ASSUME TypeOK, PhasesInOrder, ReconcileRetire
  PROVE  retiring # None /\ retiring.id \in Entity /\ Says(retiring.id, "Removed")
<1>1. retiring # None /\ retiring \in RetiringType
  BY DEF ReconcileRetire, PhasesInOrder, TypeOK
<1>2. retiring.edge \in EdgeId /\ retiring.id \in Entity
  BY <1>1 DEF RetiringType
<1>3. Retire(retiring.edge, retiring.id)
  BY DEF ReconcileRetire
<1>4. QED
  BY <1>1, <1>2, <1>3, RetireEffect

LEMMA AnswerEffect ==
  ASSUME TypeOK, Answer
  PROVE  /\ fresh # <<>> /\ 1 \in DOMAIN fresh /\ Head(fresh) = fresh[1]
         /\ Head(fresh).id \in Entity
         /\ Says(Head(fresh).id, "Added")
         /\ fresh' = Tail(fresh)
         /\ \A k \in DOMAIN fresh' :
                k + 1 \in DOMAIN fresh /\ fresh'[k] = fresh[k + 1] /\ k + 1 # 1 /\ k \in Nat
<1> DEFINE F == [edge : EdgeId, id : Entity, from : EdgeName, observes : BOOLEAN]
<1>1. fresh # <<>> /\ fresh' = Tail(fresh) /\ fresh \in Seq(F)
  BY DEF Answer, TypeOK
<1>2. Presence(Head(fresh).edge, Head(fresh).id, "Added", Head(fresh).from)
  BY DEF Answer
<1> HIDE DEF F
<1>3. /\ Head(fresh) \in F /\ 1 \in DOMAIN fresh /\ Head(fresh) = fresh[1]
      /\ \A k \in DOMAIN Tail(fresh) :
            k + 1 \in DOMAIN fresh /\ Tail(fresh)[k] = fresh[k + 1]
      /\ \A k \in DOMAIN Tail(fresh) : k \in Nat \ {0}
  BY <1>1, HeadTailElements, LenProperties
<1>4. /\ Head(fresh).edge \in EdgeId /\ Head(fresh).id \in Entity
      /\ Head(fresh).from \in EdgeName
  BY <1>3 DEF F
<1>5. Says(Head(fresh).id, "Added")
  BY <1>2, <1>4, PresenceEffect
<1>6. QED
  BY <1>1, <1>3, <1>4, <1>5

LEMMA SpawnEffect ==
  ASSUME TypeOK, TokensRise, Spawn
  PROVE  /\ spawned \in Entity
         /\ owners' = [owners EXCEPT ![spawned] = Head(batch).edge]
         /\ \E f : /\ f.id = spawned
                   /\ fresh' = Append(fresh, f)
                   /\ \A k \in DOMAIN fresh' :
                        \/ k \in DOMAIN fresh /\ fresh'[k] = fresh[k]
                        \/ k = Len(fresh) + 1 /\ k \notin DOMAIN fresh /\ fresh'[k] = f
<1> DEFINE F == [edge : EdgeId, id : Entity, from : EdgeName, observes : BOOLEAN]
<1> DEFINE f == [edge |-> Head(batch).edge, id |-> spawned, from |-> Head(batch).from,
                 observes |-> Head(batch).kind = "SpawnObserver"]
<1>1. batch # <<>> /\ IsSpawn(Head(batch))
  BY SpawnKinds DEF Spawn, Command
<1>2. spawned \in Entity
  BY <1>1, NextIdExists
<1>3. f \in F /\ f.id = spawned
  BY <1>1, <1>2, HeadOfBatch
<1>4. fresh' = Append(fresh, f) /\ owners' = [owners EXCEPT ![spawned] = Head(batch).edge]
  BY DEF Spawn, Claim
<1>5. fresh \in Seq(F)
  BY DEF TypeOK
<1> HIDE DEF F, f
<1>6. QED
  BY <1>2, <1>3, <1>4, <1>5, AppendElements

-----------------------------------------------------------------------------
LEMMA FreshType == TypeOK => \A k \in DOMAIN fresh : fresh[k].id \in Entity
<1> SUFFICES ASSUME TypeOK, NEW k \in DOMAIN fresh PROVE fresh[k].id \in Entity
  OBVIOUS
<1> DEFINE F == [edge : EdgeId, id : Entity, from : EdgeName, observes : BOOLEAN]
<1>1. fresh \in Seq(F)
  BY DEF TypeOK
<1> HIDE DEF F
<1>2. fresh[k] \in F
  BY <1>1, LenProperties, ElementOfSeq
<1>3. QED
  BY <1>2 DEF F

(* Ids are announced in the order in which they are given out.             *)
LEMMA AnnouncedStep ==
    TypeOK /\ TokensRise /\ PhasesInOrder /\ DeadStayDead /\ OnlySpawnedAnnounced
        /\ [Next]_vars => OnlySpawnedAnnounced' /\ Announced \subseteq Announced'
<1> SUFFICES ASSUME TypeOK, TokensRise, PhasesInOrder, DeadStayDead,
                    OnlySpawnedAnnounced, [Next]_vars
             PROVE  OnlySpawnedAnnounced' /\ Announced \subseteq Announced'
  OBVIOUS
<1> DEFINE Goal == OnlySpawnedAnnounced' /\ Announced \subseteq Announced'
<1> USE DEF registry, reader, applying, world, session
<1>a. /\ \A e \in Announced : e \in Entity /\ e < spawned
      /\ \A k \in DOMAIN fresh : fresh[k].id < spawned /\ fresh[k].id \in Entity
      /\ \A j, k \in DOMAIN fresh : fresh[j].id = fresh[k].id => j = k
      /\ spawned \in Int
  <2>1. \A k \in DOMAIN fresh : fresh[k].id \in Entity
    BY FreshType
  <2>2. QED
    BY <2>1 DEF OnlySpawnedAnnounced, Announced, TypeOK
<1>b. Entity \subseteq Int
  BY EntityIds
<1>0. ASSUME UNCHANGED <<published, fresh, spawned>> PROVE Goal
  BY <1>0 DEF OnlySpawnedAnnounced, Announced
<1>1. ASSUME NEW n \in EdgeName, NEW i \in EdgeId, NEW c, Receive(n, i, c)
      PROVE  Goal
  BY <1>0, <1>1 DEF Receive
<1>2. CASE Accept
  BY <1>0, <1>2 DEF Accept
<1>3. CASE Silence
  BY <1>0, <1>3 DEF Silence
<1>4. CASE Sweep
  BY <1>0, <1>4 DEF Sweep
<1>5. CASE BeginStep
  BY <1>0, <1>5 DEF BeginStep
<1>6. CASE TakeOrphans
  BY <1>0, <1>6 DEF TakeOrphans
<1>7. CASE RefuseSpawn
  BY <1>0, <1>7 DEF RefuseSpawn
<1>8. CASE Spawn
  <2>1. spawned' = spawned + 1 /\ published' = published
    BY <1>8 DEF Spawn
  <2>2. PICK f : /\ f.id = spawned
                 /\ \A k \in DOMAIN fresh' :
                        \/ k \in DOMAIN fresh /\ fresh'[k] = fresh[k]
                        \/ k = Len(fresh) + 1 /\ k \notin DOMAIN fresh /\ fresh'[k] = f
    BY <1>8, SpawnEffect
  <2>3. Announced' = Announced
    BY <2>1 DEF Announced
  <2>4. /\ \A e \in Entity : e < spawned => e < spawned' /\ e # spawned
        /\ spawned < spawned'
    BY <1>a, <1>b, <2>1
  <2>5. \A k \in DOMAIN fresh' : fresh'[k].id < spawned'
    BY <1>a, <2>2, <2>4
  <2>6. \A j, k \in DOMAIN fresh' : fresh'[j].id = fresh'[k].id => j = k
    BY <1>a, <2>2, <2>4
  <2>7. \A e \in Announced' : e < spawned'
    BY <1>a, <2>3, <2>4
  <2>8. QED
    BY <2>3, <2>5, <2>6, <2>7 DEF OnlySpawnedAnnounced
<1>9. CASE SpawnUnclaimed
  <2>1. spawned' = spawned + 1 /\ published' = published /\ fresh' = fresh
    BY <1>9 DEF SpawnUnclaimed
  <2>2. Announced' = Announced
    BY <2>1 DEF Announced
  <2>3. \A e \in Entity : e < spawned => e < spawned'
    BY <1>a, <1>b, <2>1
  <2>4. QED
    BY <1>a, <2>1, <2>2, <2>3 DEF OnlySpawnedAnnounced
<1>10. CASE RefuseDespawn
  BY <1>0, <1>10 DEF RefuseDespawn
<1>11. CASE CheckDespawn
  BY <1>0, <1>11 DEF CheckDespawn
<1>12. CASE Despawn
  BY <1>0, <1>12 DEF Despawn
<1>13. CASE RefuseMove
  BY <1>0, <1>13 DEF RefuseMove
<1>14. CASE Move
  BY <1>0, <1>14 DEF Move
<1>15. CASE FinishStep
  BY <1>0, <1>15 DEF FinishStep
<1>16. CASE RetireGone
  <2>1. fresh' = fresh /\ spawned' = spawned
    BY <1>16 DEF RetireGone
  <2>2. PICK g \in gone : g.id \in Entity /\ Says(g.id, "Removed")
    BY <1>16, RetireGoneEffect
  <2>3. g.id < spawned
    BY DEF DeadStayDead
  <2>4. Announced \subseteq Announced' /\ Announced' \subseteq Announced \cup {g.id}
    BY <2>2, SaysEffect
  <2>5. QED
    BY <1>a, <2>1, <2>3, <2>4 DEF OnlySpawnedAnnounced
<1>17. CASE Reconcile
  BY <1>0, <1>17 DEF Reconcile
<1>18. CASE ReconcileRelease
  BY <1>0, <1>18 DEF ReconcileRelease
<1>19. CASE ReconcileRetire
  <2>1. fresh' = fresh /\ spawned' = spawned
    BY <1>19 DEF ReconcileRetire
  <2>2. retiring # None /\ retiring.id \in Entity /\ Says(retiring.id, "Removed")
    BY <1>19, ReconcileRetireEffect
  <2>3. retiring.id < spawned
    BY <2>2 DEF DeadStayDead
  <2>4. Announced \subseteq Announced' /\ Announced' \subseteq Announced \cup {retiring.id}
    BY <2>2, SaysEffect
  <2>5. QED
    BY <1>a, <2>1, <2>3, <2>4 DEF OnlySpawnedAnnounced
<1>20. CASE Answer
  <2>1. spawned' = spawned
    BY <1>20 DEF Answer
  <2>2. /\ 1 \in DOMAIN fresh /\ Head(fresh) = fresh[1] /\ Head(fresh).id \in Entity
        /\ Says(Head(fresh).id, "Added")
        /\ \A k \in DOMAIN fresh' :
                k + 1 \in DOMAIN fresh /\ fresh'[k] = fresh[k + 1] /\ k \in Nat
    BY <1>20, AnswerEffect
  <2>3. Announced \subseteq Announced' /\ Announced' \subseteq Announced \cup {fresh[1].id}
    BY <2>2, SaysEffect
  <2>4. \A j, k \in DOMAIN fresh' : fresh'[j].id = fresh'[k].id => j = k
    <3> SUFFICES ASSUME NEW j \in DOMAIN fresh', NEW k \in DOMAIN fresh',
                        fresh'[j].id = fresh'[k].id
                 PROVE  j = k
      OBVIOUS
    <3>1. j + 1 = k + 1
      BY <1>a, <2>2
    <3>2. QED
      BY <2>2, <3>1
  <2>5. QED
    BY <1>a, <2>1, <2>2, <2>3, <2>4 DEF OnlySpawnedAnnounced
<1>21. CASE EndTick
  BY <1>0, <1>21 DEF EndTick
<1>22. CASE UNCHANGED vars
  BY <1>0, <1>22 DEF vars
<1>23. QED
  BY <1>1, <1>2, <1>3, <1>4, <1>5, <1>6, <1>7, <1>8, <1>9, <1>10, <1>11, <1>12,
     <1>13, <1>14, <1>15, <1>16, <1>17, <1>18, <1>19, <1>20, <1>21, <1>22
  DEF Next, Tick

-----------------------------------------------------------------------------
(* A command waits until it is handled; nothing else comes to wait.        *)
LEMMA DoneWaiting ==
  ASSUME TypeOK, batch # <<>>, batch' = Tail(batch), UNCHANGED <<reading, queue>>
  PROVE  Waiting' \subseteq Waiting
<1>1. Elements(Tail(batch)) \subseteq Elements(batch)
  BY HeadTailElements DEF TypeOK
<1>2. Elements(batch') = Elements(Tail(batch)) /\ Elements(queue') = Elements(queue)
  OBVIOUS
<1>3. QED
  BY <1>1, <1>2 DEF Waiting, Elements

LEMMA WaitingStep ==
    TypeOK /\ PhasesInOrder /\ [Next]_vars =>
        Waiting' \subseteq Waiting \cup (IF reading = None THEN {reading'} \ {None} ELSE {})
<1> SUFFICES ASSUME TypeOK, PhasesInOrder, [Next]_vars
             PROVE  Waiting' \subseteq
                        Waiting \cup (IF reading = None THEN {reading'} \ {None} ELSE {})
  OBVIOUS
<1> USE DEF registry, reader, applying, world, session
<1>0. ASSUME UNCHANGED <<reading, queue, batch>> PROVE Waiting' \subseteq Waiting
  BY <1>0 DEF Waiting, Elements
<1>1. ASSUME NEW n \in EdgeName, NEW i \in EdgeId, NEW c, Receive(n, i, c)
      PROVE  reading = None /\ Waiting' \subseteq Waiting \cup ({reading'} \ {None})
  BY <1>1 DEF Receive, Waiting, Elements
<1>2. CASE Accept
  <2>1. /\ reading # None /\ reading' = None /\ batch' = batch
        /\ queue' = queue \/ queue' = Append(queue, reading)
    BY <1>2 DEF Accept
  <2>2. Elements(queue') \subseteq Elements(queue) \cup {reading}
    <3>1. reading \in CommandType /\ queue \in Seq(CommandType)
      BY <2>1 DEF TypeOK
    <3>2. Elements(Append(queue, reading)) = Elements(queue) \cup {reading}
      BY <3>1, AppendElements
    <3>3. QED
      BY <2>1, <3>2
  <2>3. QED
    BY <2>1, <2>2 DEF Waiting, Elements
<1>3. CASE Silence
  BY <1>0, <1>3 DEF Silence
<1>4. CASE Sweep
  BY <1>0, <1>4 DEF Sweep
<1>5. CASE BeginStep
  <2>1. batch' = queue /\ queue' = <<>> /\ reading' = reading
    BY <1>5 DEF BeginStep
  <2>2. Elements(queue') = {} /\ Elements(batch') = Elements(queue)
    BY <2>1, EmptyElements DEF Elements
  <2>3. QED
    BY <2>1, <2>2 DEF Waiting
<1>6. CASE TakeOrphans
  BY <1>0, <1>6 DEF TakeOrphans
<1>7. CASE RefuseSpawn
  BY <1>7, DoneWaiting DEF RefuseSpawn, Command, Done
<1>8. CASE Spawn
  BY <1>8, DoneWaiting DEF Spawn, Command, Done
<1>9. CASE SpawnUnclaimed
  BY <1>9, DoneWaiting DEF SpawnUnclaimed, Command, Done
<1>10. CASE RefuseDespawn
  BY <1>10, DoneWaiting DEF RefuseDespawn, Command, Done
<1>11. CASE CheckDespawn
  BY <1>0, <1>11 DEF CheckDespawn
<1>12. CASE Despawn
  BY <1>12, DoneWaiting DEF Despawn, PhasesInOrder, Done
<1>13. CASE RefuseMove
  BY <1>13, DoneWaiting DEF RefuseMove, Command, Done
<1>14. CASE Move
  BY <1>14, DoneWaiting DEF Move, Command, Done
<1>15. CASE FinishStep
  BY <1>0, <1>15 DEF FinishStep
<1>16. CASE RetireGone
  BY <1>0, <1>16 DEF RetireGone
<1>17. CASE Reconcile
  BY <1>0, <1>17 DEF Reconcile
<1>18. CASE ReconcileRelease
  BY <1>0, <1>18 DEF ReconcileRelease
<1>19. CASE ReconcileRetire
  BY <1>0, <1>19 DEF ReconcileRetire
<1>20. CASE Answer
  BY <1>0, <1>20 DEF Answer
<1>21. CASE EndTick
  BY <1>0, <1>21 DEF EndTick
<1>22. CASE UNCHANGED vars
  BY <1>0, <1>22 DEF vars
<1>23. QED
  BY <1>1, <1>2, <1>3, <1>4, <1>5, <1>6, <1>7, <1>8, <1>9, <1>10, <1>11, <1>12,
     <1>13, <1>14, <1>15, <1>16, <1>17, <1>18, <1>19, <1>20, <1>21, <1>22
  DEF Next, Tick

(* A command that comes to wait was received in this step.                 *)
LEMMA ReadingIsReceived ==
  ASSUME [Next]_vars, reading = None, reading' # None
  PROVE  \E n \in EdgeName, i \in EdgeId : \E d \in Commands(n) : Receive(n, i, d)
<1> USE DEF reader, vars
<1>1. ~Accept
  BY DEF Accept
<1>2. ~(Silence \/ Sweep)
  BY DEF Silence, Sweep
<1>3. ~(BeginStep \/ TakeOrphans \/ RefuseSpawn \/ Spawn \/ SpawnUnclaimed)
  BY DEF BeginStep, TakeOrphans, RefuseSpawn, Spawn, SpawnUnclaimed
<1>4. ~(RefuseDespawn \/ CheckDespawn \/ Despawn \/ RefuseMove \/ Move \/ FinishStep)
  BY DEF RefuseDespawn, CheckDespawn, Despawn, RefuseMove, Move, FinishStep
<1>5. ~(RetireGone \/ Reconcile \/ ReconcileRelease \/ ReconcileRetire)
  BY DEF RetireGone, Reconcile, ReconcileRelease, ReconcileRetire
<1>6. ~(Answer \/ EndTick \/ UNCHANGED vars)
  BY DEF Answer, EndTick
<1>7. QED
  BY <1>1, <1>2, <1>3, <1>4, <1>5, <1>6 DEF Next, Tick

(* An entity comes to be managed when it is spawned, and at no other time. *)
LEMMA OwnersStep ==
    RegistryAgrees /\ TypeOK /\ TokensRise /\ PhasesInOrder /\ [Next]_vars =>
        OwnersOnlyCleared \/ Spawn
<1> SUFFICES ASSUME RegistryAgrees, TypeOK, TokensRise, PhasesInOrder, [Next]_vars
             PROVE  OwnersOnlyCleared \/ Spawn
  OBVIOUS
<1> USE DEF reader, applying, world, session
<1>0. ASSUME owners' = owners PROVE OwnersOnlyCleared
  BY <1>0 DEF OwnersOnlyCleared
<1>r. UNCHANGED registry => owners' = owners
  BY DEF registry
<1>1. ASSUME NEW n \in EdgeName, NEW i \in EdgeId, NEW c, Receive(n, i, c)
      PROVE  OwnersOnlyCleared
  BY <1>0, <1>1, AdmitEffect DEF Receive
<1>2. CASE Accept
  BY <1>0, <1>r, <1>2 DEF Accept
<1>3. CASE Silence
  BY <1>0, <1>3 DEF Silence, GoSilent
<1>4. CASE Sweep
  BY <1>4, SweepEffect DEF Sweep
<1>5. CASE BeginStep
  BY <1>0, <1>r, <1>5 DEF BeginStep
<1>6. CASE TakeOrphans
  BY <1>0, <1>6 DEF TakeOrphans, TakeDetached
<1>7. CASE RefuseSpawn
  BY <1>0, <1>r, <1>7 DEF RefuseSpawn
<1>9. CASE SpawnUnclaimed
  BY <1>0, <1>r, <1>9 DEF SpawnUnclaimed
<1>10. CASE RefuseDespawn
  BY <1>0, <1>r, <1>10 DEF RefuseDespawn
<1>11. CASE CheckDespawn
  BY <1>0, <1>r, <1>11 DEF CheckDespawn
<1>12. CASE Despawn
  <2>1. Head(batch).id \in Entity
    BY <1>12, HeadOfBatch DEF Despawn, PhasesInOrder
  <2>2. owners' = [owners EXCEPT ![Head(batch).id] = UNOWNED]
    BY <1>12, <2>1, ReleaseEffect DEF Despawn
  <2>3. QED
    BY <2>1, <2>2 DEF OwnersOnlyCleared, TypeOK, RegistryTypeOK
<1>13. CASE RefuseMove
  BY <1>0, <1>r, <1>13 DEF RefuseMove
<1>14. CASE Move
  BY <1>0, <1>r, <1>14 DEF Move
<1>15. CASE FinishStep
  BY <1>0, <1>r, <1>15 DEF FinishStep
<1>16. CASE RetireGone
  BY <1>0, <1>r, <1>16 DEF RetireGone
<1>17. CASE Reconcile
  BY <1>0, <1>r, <1>17 DEF Reconcile
<1>18. CASE ReconcileRelease
  <2>1. retiring.id \in Entity
    BY <1>18 DEF ReconcileRelease, PhasesInOrder, TypeOK, RetiringType
  <2>2. owners' = [owners EXCEPT ![retiring.id] = UNOWNED]
    BY <1>18, <2>1, ReleaseEffect DEF ReconcileRelease
  <2>3. QED
    BY <2>1, <2>2 DEF OwnersOnlyCleared, TypeOK, RegistryTypeOK
<1>19. CASE ReconcileRetire
  BY <1>0, <1>r, <1>19 DEF ReconcileRetire
<1>20. CASE Answer
  BY <1>0, <1>r, <1>20 DEF Answer
<1>21. CASE EndTick
  BY <1>0, <1>r, <1>21 DEF EndTick
<1>22. CASE UNCHANGED vars
  BY <1>0, <1>r, <1>22 DEF vars
<1>23. QED
  BY <1>1, <1>2, <1>3, <1>4, <1>5, <1>6, <1>7, <1>9, <1>10, <1>11, <1>12,
     <1>13, <1>14, <1>15, <1>16, <1>17, <1>18, <1>19, <1>20, <1>21, <1>22
  DEF Next, Tick

(* A slot reused between the sending of a command and its handling does    *)
(* not lend its new edge the old one's entities: what a waiting command    *)
(* names was announced, so it is not what a claim is about, and it is      *)
(* managed by nobody once its edge has been dropped.                       *)
LEMMA HonestStep ==
    RegistryAgrees /\ TypeOK /\ TokensRise /\ PhasesInOrder /\ DeadStayDead
        /\ OnlySpawnedAnnounced /\ CommandsHonest /\ [Next]_vars => CommandsHonest'
<1> SUFFICES ASSUME RegistryAgrees, TypeOK, TokensRise, PhasesInOrder, DeadStayDead,
                    OnlySpawnedAnnounced, CommandsHonest, [Next]_vars,
                    NEW c \in Waiting', c.kind \in {"Despawn", "Move"}
             PROVE  /\ c.id \in Announced'
                    /\ owners'[c.id] = c.edge => slots'[c.edge].name = c.from
  BY DEF CommandsHonest
<1>1. Announced \subseteq Announced'
  BY AnnouncedStep
<1>2. NamesKept
  BY StepIsEdges, NamesAreKept
<1>3. CASE c \in Waiting
  <2>1. /\ c.id \in Announced /\ c.id \in Entity /\ c.edge \in EdgeId
        /\ owners[c.id] = c.edge => slots[c.edge].name = c.from
    BY <1>3, WaitingType DEF CommandsHonest, CommandType
  <2>2. owners'[c.id] = c.edge => owners[c.id] = c.edge
    <3>1. CASE OwnersOnlyCleared
      BY <2>1, <3>1, ConstantFacts DEF OwnersOnlyCleared
    <3>2. CASE Spawn
      <4>1. c.id # spawned
        BY <2>1 DEF OnlySpawnedAnnounced, TypeOK
      <4>2. spawned \in Entity /\ owners' = [owners EXCEPT ![spawned] = Head(batch).edge]
        BY <3>2, SpawnEffect
      <4>3. QED
        BY <2>1, <4>1, <4>2 DEF TypeOK, RegistryTypeOK
    <3>3. QED
      BY <3>1, <3>2, OwnersStep
  <2>3. owners'[c.id] = c.edge => slots'[c.edge].name = c.from
    BY <1>2, <2>1, <2>2, ConstantFacts DEF NamesKept
  <2>4. QED
    BY <1>1, <2>1, <2>3
<1>4. CASE c \notin Waiting
  <2>1. reading = None /\ c = reading' /\ reading' # None
    BY <1>4, WaitingStep
  <2>2. PICK n \in EdgeName, i \in EdgeId : \E d \in Commands(n) : Receive(n, i, d)
    BY <2>1, ReadingIsReceived
  <2>3. PICK d \in Commands(n) : Receive(n, i, d)
    BY <2>2
  <2>4. /\ c = [kind |-> d.kind, from |-> n, id |-> d.id, edge |-> i]
        /\ Admit(n, i)
    BY <2>1, <2>3 DEF Receive
  <2>5. c.id \in Announced /\ c.from = n /\ c.edge = i
    BY <2>4, CommandsKnown
  <2>6. slots'[i].name = n
    BY <2>4, AdmitEffect
  <2>7. QED
    BY <1>1, <2>5, <2>6
<1>5. QED
  BY <1>3, <1>4

-----------------------------------------------------------------------------
(* An edge is told of the end of an entity once.                           *)
LEMMA ToldSame ==
  ASSUME ToldOnce, OwnersOnlyCleared, UNCHANGED <<published, gone, retiring>>,
         pc' = "retire" => pc = "retire",
         pc' = "despawn" => pc = "despawn" /\ batch' = batch
  PROVE  ToldOnce'
<1>1. \A e : Told(e)' <=> Told(e)
  BY DEF Told
<1>2. \A e : Marked(e)' => Marked(e)
  BY <1>1 DEF Marked
<1>3. \A e \in Entity : Marked(e)' => owners'[e] = UNOWNED
  BY <1>2 DEF ToldOnce, OwnersOnlyCleared
<1>4. /\ \A g \in gone' : g.edge # None => ~Told(g.id)'
      /\ \A g, h \in gone' : g.id = h.id /\ g.edge # None /\ h.edge # None => g = h
      /\ retiring' # None => ~Told(retiring.id)'
  BY <1>1 DEF ToldOnce, Told
<1>5. pc' = "despawn" => ~Marked(Head(batch).id)'
  BY <1>1, <1>2 DEF ToldOnce, Marked, Told
<1>6. QED
  BY <1>3, <1>4, <1>5 DEF ToldOnce

LEMMA ToldStep ==
    RegistryAgrees /\ TypeOK /\ TokensRise /\ PhasesInOrder /\ DeadStayDead
        /\ OnlySpawnedAnnounced /\ CommandsHonest /\ ToldOnce /\ [Next]_vars => ToldOnce'
<1> SUFFICES ASSUME RegistryAgrees, TypeOK, TokensRise, PhasesInOrder, DeadStayDead,
                    OnlySpawnedAnnounced, CommandsHonest, ToldOnce, [Next]_vars
             PROVE  ToldOnce'
  OBVIOUS
<1> USE DEF registry, reader, applying, world, session
<1>o. /\ owners \in [Entity -> EdgeId \cup {UNOWNED}]
      /\ gone \subseteq [edge : EdgeId \cup {None}, id : Entity]
  BY DEF TypeOK, RegistryTypeOK
<1>1. ASSUME NEW n \in EdgeName, NEW i \in EdgeId, NEW c, Receive(n, i, c)
      PROVE  ToldOnce'
  <2>1. OwnersOnlyCleared
    BY <1>1, AdmitEffect DEF Receive, OwnersOnlyCleared
  <2>2. QED
    BY <1>1, <2>1, ToldSame DEF Receive
<1>2. CASE Accept
  <2>1. OwnersOnlyCleared
    BY <1>2 DEF Accept, OwnersOnlyCleared
  <2>2. QED
    BY <1>2, <2>1, ToldSame DEF Accept
<1>3. CASE Silence
  <2>1. OwnersOnlyCleared
    BY <1>3 DEF Silence, GoSilent, OwnersOnlyCleared
  <2>2. QED
    BY <1>3, <2>1, ToldSame DEF Silence
<1>4. CASE Sweep
  BY <1>4, SweepEffect, ToldSame DEF Sweep
<1>5. CASE BeginStep
  <2>1. OwnersOnlyCleared
    BY <1>5 DEF BeginStep, OwnersOnlyCleared
  <2>2. QED
    BY <1>5, <2>1, ToldSame DEF BeginStep
<1>6. CASE TakeOrphans
  <2>1. /\ pc = "orphans" /\ pc' = "commands"
        /\ UNCHANGED <<owners, published, retiring>>
        /\ gone' = gone \cup {[edge |-> None, id |-> e] : e \in detached \cap alive}
    BY <1>6 DEF TakeOrphans, TakeDetached
  <2>2. \A g \in gone' : g.edge # None => g \in gone
    BY <2>1
  <2>3. \A e : Told(e)' <=> Told(e)
    BY <2>1 DEF Told
  <2>4. \A e : Marked(e)' => Marked(e)
    BY <2>1, <2>2, <2>3 DEF Marked
  <2>5. \A e \in Entity : Marked(e)' => owners'[e] = UNOWNED
    BY <2>1, <2>4 DEF ToldOnce
  <2>6. /\ \A g \in gone' : g.edge # None => ~Told(g.id)'
        /\ \A g, h \in gone' : g.id = h.id /\ g.edge # None /\ h.edge # None => g = h
        /\ retiring' # None => ~Told(retiring.id)'
    BY <2>1, <2>2, <2>3 DEF ToldOnce, Told
  <2>7. QED
    BY <2>1, <2>5, <2>6 DEF ToldOnce
<1>7. CASE RefuseSpawn
  <2>1. OwnersOnlyCleared /\ pc = "commands"
    BY <1>7 DEF RefuseSpawn, Command, OwnersOnlyCleared
  <2>2. QED
    BY <1>7, <2>1, ToldSame DEF RefuseSpawn
<1>8. CASE Spawn
  <2>1. /\ pc = "commands" /\ pc' = pc
        /\ UNCHANGED <<published, gone, retiring>>
    BY <1>8 DEF Spawn, Command
  <2>2. spawned \in Entity /\ owners' = [owners EXCEPT ![spawned] = Head(batch).edge]
    BY <1>8, SpawnEffect
  <2>3. ~Marked(spawned)
    <3>1. spawned \notin Announced
      BY <2>2, EntityIds DEF OnlySpawnedAnnounced
    <3>2. ~Told(spawned)
      BY <2>2, <3>1 DEF Announced, Told
    <3>3. \A g \in gone : g.id # spawned
      BY <2>2, EntityIds DEF DeadStayDead
    <3>4. QED
      BY <2>1, <3>2, <3>3 DEF Marked
  <2>4. \A e : Told(e)' <=> Told(e)
    BY <2>1 DEF Told
  <2>5. \A e : Marked(e)' <=> Marked(e)
    BY <2>1, <2>4 DEF Marked
  <2>6. \A e \in Entity : Marked(e)' => owners'[e] = UNOWNED
    BY <1>o, <2>2, <2>3, <2>5 DEF ToldOnce
  <2>7. /\ \A g \in gone' : g.edge # None => ~Told(g.id)'
        /\ \A g, h \in gone' : g.id = h.id /\ g.edge # None /\ h.edge # None => g = h
        /\ retiring' # None => ~Told(retiring.id)'
    BY <2>1, <2>4 DEF ToldOnce, Told
  <2>8. QED
    BY <2>1, <2>6, <2>7 DEF ToldOnce
<1>9. CASE SpawnUnclaimed
  <2>1. OwnersOnlyCleared /\ pc = "commands"
    BY <1>9 DEF SpawnUnclaimed, Command, OwnersOnlyCleared
  <2>2. QED
    BY <1>9, <2>1, ToldSame DEF SpawnUnclaimed
<1>10. CASE RefuseDespawn
  <2>1. OwnersOnlyCleared /\ pc = "commands"
    BY <1>10 DEF RefuseDespawn, Command, OwnersOnlyCleared
  <2>2. QED
    BY <1>10, <2>1, ToldSame DEF RefuseDespawn
<1>11. CASE CheckDespawn
  <2>1. /\ pc = "commands" /\ pc' = "despawn" /\ batch # <<>> /\ batch' = batch
        /\ UNCHANGED <<owners, published, gone, retiring>>
        /\ owners[Head(batch).id] = Head(batch).edge
    BY <1>11 DEF CheckDespawn, Command, Manages, EdgeFor
  <2>2. Head(batch).id \in Entity /\ Head(batch).edge \in EdgeId
    BY <2>1, HeadOfBatch
  <2>3. ~Marked(Head(batch).id)
    BY <2>1, <2>2, ConstantFacts DEF ToldOnce
  <2>4. \A e : Told(e)' <=> Told(e)
    BY <2>1 DEF Told
  <2>5. \A e : Marked(e)' <=> Marked(e)
    BY <2>1, <2>4 DEF Marked
  <2>6. ~Marked(Head(batch).id)'
    BY <2>1, <2>3, <2>4 DEF Marked, Told
  <2>7. /\ \A g \in gone' : g.edge # None => ~Told(g.id)'
        /\ \A g, h \in gone' : g.id = h.id /\ g.edge # None /\ h.edge # None => g = h
        /\ retiring' # None => ~Told(retiring.id)'
    BY <2>1, <2>4 DEF ToldOnce, Told
  <2>8. QED
    BY <2>1, <2>5, <2>6, <2>7 DEF ToldOnce
<1>12. CASE Despawn
  <2> DEFINE H == Head(batch)
  <2> DEFINE r == [edge |-> H.edge, id |-> H.id]
  <2>1. batch # <<>> /\ pc = "despawn" /\ pc' = "commands" /\ retiring = None
    BY <1>12 DEF Despawn, PhasesInOrder
  <2>2. H.id \in Entity /\ H.edge \in EdgeId /\ ~Marked(H.id)
    BY <2>1, HeadOfBatch DEF ToldOnce
  <2>3. owners' = [owners EXCEPT ![H.id] = UNOWNED]
    BY <1>12, <2>2, ReleaseEffect DEF Despawn
  <2>4. UNCHANGED <<published, retiring>> /\ gone' = gone \cup {r}
    BY <1>12 DEF Despawn
  <2>5. r.id = H.id /\ r.edge = H.edge
    OBVIOUS
  <2> HIDE DEF H, r
  <2>6. \A e : Told(e)' <=> Told(e)
    BY <2>4 DEF Told
  <2>7. \A e : Marked(e)' => Marked(e) \/ e = H.id
    BY <2>1, <2>4, <2>5, <2>6 DEF Marked
  <2>8. \A e \in Entity : Marked(e)' => owners'[e] = UNOWNED
    BY <1>o, <2>2, <2>3, <2>7 DEF ToldOnce
  <2>9. \A g \in gone' : g.edge # None => ~Told(g.id)'
    BY <2>2, <2>4, <2>5, <2>6 DEF ToldOnce, Marked
  <2>10. \A g \in gone : g.edge # None => g.id # H.id
    BY <2>2 DEF Marked
  <2>11. \A g, h \in gone' : g.id = h.id /\ g.edge # None /\ h.edge # None => g = h
    BY <2>4, <2>5, <2>10 DEF ToldOnce
  <2>12. QED
    BY <2>1, <2>4, <2>8, <2>9, <2>11 DEF ToldOnce
<1>13. CASE RefuseMove
  <2>1. OwnersOnlyCleared /\ pc = "commands"
    BY <1>13 DEF RefuseMove, Command, OwnersOnlyCleared
  <2>2. QED
    BY <1>13, <2>1, ToldSame DEF RefuseMove
<1>14. CASE Move
  <2>1. OwnersOnlyCleared /\ pc = "commands"
    BY <1>14 DEF Move, Command, OwnersOnlyCleared
  <2>2. QED
    BY <1>14, <2>1, ToldSame DEF Move
<1>15. CASE FinishStep
  <2>1. OwnersOnlyCleared
    BY <1>15 DEF FinishStep, OwnersOnlyCleared
  <2>2. QED
    BY <1>15, <2>1, ToldSame DEF FinishStep
<1>16. CASE RetireGone
  <2>1. pc = "settle" /\ retiring = None /\ UNCHANGED <<owners, pc, retiring>>
    BY <1>16 DEF RetireGone, PhasesInOrder
  <2>2. PICK g \in gone : /\ g.id \in Entity
                          /\ gone' = gone \ {g}
                          /\ Says(g.id, "Removed")
                          /\ g.edge = None => published' = published
    BY <1>16, RetireGoneEffect
  <2>3. \A x \in Entity : Told(x)' => Told(x) \/ (x = g.id /\ g.edge # None)
    <3>1. CASE g.edge = None
      BY <2>2, <3>1 DEF Told
    <3>2. CASE g.edge # None
      BY <2>2, <3>2, SaysEffect
    <3>3. QED
      BY <3>1, <3>2
  <2>4. \A x \in Entity : Marked(x)' => Marked(x)
    BY <2>1, <2>2, <2>3 DEF Marked
  <2>5. \A x \in Entity : Marked(x)' => owners'[x] = UNOWNED
    BY <2>1, <2>4 DEF ToldOnce
  <2>6. \A h \in gone' : h.edge # None => ~Told(h.id)'
    <3> SUFFICES ASSUME NEW h \in gone, h # g, h.edge # None PROVE ~Told(h.id)'
      BY <2>2
    <3>1. h.id \in Entity /\ ~Told(h.id)
      BY <1>o DEF ToldOnce
    <3>2. g.edge # None => h.id # g.id
      BY DEF ToldOnce
    <3>3. QED
      BY <2>3, <3>1, <3>2
  <2>7. \A h, k \in gone' : h.id = k.id /\ h.edge # None /\ k.edge # None => h = k
    BY <2>2 DEF ToldOnce
  <2>8. QED
    BY <2>1, <2>5, <2>6, <2>7 DEF ToldOnce
<1>17. CASE Reconcile
  <2>1. PICK e \in despawned :
            IF EdgeFor(e) = UNOWNED
            THEN UNCHANGED <<retiring, pc>>
            ELSE /\ retiring' = [edge |-> EdgeFor(e), id |-> e]
                 /\ pc' = "release"
    BY <1>17 DEF Reconcile
  <2>2. pc = "settle" /\ UNCHANGED <<owners, published, gone>>
    BY <1>17 DEF Reconcile
  <2>3. OwnersOnlyCleared
    BY <2>2 DEF OwnersOnlyCleared
  <2>4. CASE UNCHANGED <<retiring, pc>>
    BY <2>2, <2>3, <2>4, ToldSame
  <2>5. CASE owners[e] # UNOWNED /\ pc' = "release" /\ retiring'.id = e
    <3>1. ~Told(e)
      BY <2>5, AliveExist DEF ToldOnce, Marked
    <3>2. \A x : Told(x)' <=> Told(x)
      BY <2>2 DEF Told
    <3>3. \A x : Marked(x)' => Marked(x)
      BY <2>2, <2>5, <3>2 DEF Marked
    <3>4. /\ \A x \in Entity : Marked(x)' => owners'[x] = UNOWNED
          /\ \A g \in gone' : g.edge # None => ~Told(g.id)'
          /\ \A g, h \in gone' : g.id = h.id /\ g.edge # None /\ h.edge # None => g = h
      BY <2>2, <3>2, <3>3 DEF ToldOnce
    <3>5. ~Told(retiring.id)'
      BY <2>2, <2>5, <3>1 DEF Told
    <3>6. QED
      BY <2>5, <3>4, <3>5 DEF ToldOnce
  <2>6. QED
    BY <2>1, <2>4, <2>5 DEF EdgeFor
<1>18. CASE ReconcileRelease
  <2>1. /\ pc = "release" /\ pc' = "retire" /\ retiring # None
        /\ UNCHANGED <<published, gone, retiring>>
    BY <1>18 DEF ReconcileRelease, PhasesInOrder
  <2>2. retiring.id \in Entity
    BY <2>1 DEF TypeOK, RetiringType
  <2>3. owners' = [owners EXCEPT ![retiring.id] = UNOWNED]
    BY <1>18, <2>2, ReleaseEffect DEF ReconcileRelease
  <2>4. \A x : Told(x)' <=> Told(x)
    BY <2>1 DEF Told
  <2>5. \A x : Marked(x)' => Marked(x) \/ x = retiring.id
    BY <2>1, <2>4 DEF Marked
  <2>6. \A x \in Entity : Marked(x)' => owners'[x] = UNOWNED
    BY <1>o, <2>2, <2>3, <2>5 DEF ToldOnce
  <2>7. /\ \A g \in gone' : g.edge # None => ~Told(g.id)'
        /\ \A g, h \in gone' : g.id = h.id /\ g.edge # None /\ h.edge # None => g = h
        /\ retiring' # None => ~Told(retiring.id)'
    BY <2>1, <2>4 DEF ToldOnce, Told
  <2>8. QED
    BY <2>1, <2>6, <2>7 DEF ToldOnce
<1>19. CASE ReconcileRetire
  <2>1. /\ pc = "retire" /\ pc' = "settle" /\ retiring' = None /\ gone = {}
        /\ UNCHANGED <<owners, gone>>
    BY <1>19 DEF ReconcileRetire, PhasesInOrder
  <2>2. retiring # None /\ retiring.id \in Entity /\ Says(retiring.id, "Removed")
    BY <1>19, ReconcileRetireEffect
  <2>3. \A x \in Entity : Told(x)' => Told(x) \/ x = retiring.id
    BY <2>2, SaysEffect
  <2>4. \A x \in Entity : Marked(x)' => Marked(x)
    BY <2>1, <2>3 DEF Marked
  <2>5. \A x \in Entity : Marked(x)' => owners'[x] = UNOWNED
    BY <2>1, <2>4 DEF ToldOnce
  <2>6. QED
    BY <2>1, <2>5 DEF ToldOnce
<1>20. CASE Answer
  <2>1. pc = "settle" /\ retiring = None /\ UNCHANGED <<owners, pc, retiring, gone>>
    BY <1>20 DEF Answer, PhasesInOrder
  <2>2. Head(fresh).id \in Entity /\ Says(Head(fresh).id, "Added")
    BY <1>20, AnswerEffect
  <2>3. \A x \in Entity : Told(x)' => Told(x)
    BY <2>2, SaysEffect
  <2>4. \A x \in Entity : Marked(x)' => Marked(x)
    BY <2>1, <2>3 DEF Marked
  <2>5. \A x \in Entity : Marked(x)' => owners'[x] = UNOWNED
    BY <2>1, <2>4 DEF ToldOnce
  <2>6. \A g \in gone' : g.edge # None => ~Told(g.id)'
    BY <1>o, <2>1, <2>3 DEF ToldOnce
  <2>7. QED
    BY <2>1, <2>5, <2>6 DEF ToldOnce
<1>21. CASE EndTick
  <2>1. OwnersOnlyCleared
    BY <1>21 DEF EndTick, OwnersOnlyCleared
  <2>2. QED
    BY <1>21, <2>1, ToldSame DEF EndTick
<1>22. CASE UNCHANGED vars
  <2>1. OwnersOnlyCleared
    BY <1>22 DEF vars, OwnersOnlyCleared
  <2>2. QED
    BY <1>22, <2>1, ToldSame DEF vars
<1>23. QED
  BY <1>1, <1>2, <1>3, <1>4, <1>5, <1>6, <1>7, <1>8, <1>9, <1>10, <1>11, <1>12,
     <1>13, <1>14, <1>15, <1>16, <1>17, <1>18, <1>19, <1>20, <1>21, <1>22
  DEF Next, Tick

-----------------------------------------------------------------------------
(* If the game leaves alone what apply has spawned in the same step, what  *)
(* waits to be answered is alive, and nothing has been said of it.         *)
SaidInOrder == FreshWait /\ RemovedIsLast

LEMMA RemovedComesLast ==
  ASSUME TypeOK, RemovedIsLast, NEW e \in Entity, ~Told(e), Says(e, "Removed")
  PROVE  RemovedIsLast'
<1>1. CASE published' = published
  BY <1>1 DEF RemovedIsLast
<1>2. ASSUME NEW m \in PresenceType, m.what = "Removed",
             published' = [published EXCEPT ![e] = Append(published[e], m)]
      PROVE  RemovedIsLast'
  <2>1. published \in [Entity -> Seq(PresenceType)]
    BY DEF TypeOK
  <2> DEFINE s == published[e]
  <2>2. /\ published'[e] = Append(s, m)
        /\ \A x \in Entity : x # e => published'[x] = published[x]
    BY <1>2, <2>1
  <2>3. /\ s \in Seq(PresenceType) /\ Len(s) \in Nat /\ DOMAIN s = 1 .. Len(s)
        /\ \A k \in DOMAIN s : s[k] \in PresenceType
        /\ \A k \in DOMAIN Append(s, m) :
                \/ k \in DOMAIN s /\ Append(s, m)[k] = s[k]
                \/ k = Len(s) + 1 /\ k \notin DOMAIN s /\ Append(s, m)[k] = m
    BY <2>1, AppendElements, LenProperties, ElementOfSeq
  <2>4. \A k \in DOMAIN s : s[k].what = "Added"
    BY <2>3 DEF Told, PresenceType, s
  <2>5. \A j, k \in DOMAIN s : ~(j < k)
    BY <2>4 DEF RemovedIsLast, s
  <2> HIDE DEF s
  <2>6. \A j, k \in DOMAIN Append(s, m) :
            j < k => Append(s, m)[j].what = "Added" /\ Append(s, m)[k].what = "Removed"
    <3> SUFFICES ASSUME NEW j \in DOMAIN Append(s, m), NEW k \in DOMAIN Append(s, m), j < k
                 PROVE  Append(s, m)[j].what = "Added" /\ Append(s, m)[k].what = "Removed"
      OBVIOUS
    <3>1. CASE k \in DOMAIN s
      <4>1. j \in DOMAIN s
        BY <2>3, <3>1
      <4>2. QED
        BY <2>5, <3>1, <4>1
    <3>2. CASE k = Len(s) + 1 /\ Append(s, m)[k] = m
      <4>1. j \in DOMAIN s /\ Append(s, m)[j] = s[j]
        BY <2>3, <3>2
      <4>2. QED
        BY <1>2, <2>4, <3>2, <4>1
    <3>3. QED
      BY <2>3, <3>1, <3>2
  <2>7. QED
    BY <2>2, <2>6 DEF RemovedIsLast
<1>3. QED
  BY <1>1, <1>2 DEF Says

LEMMA AddedComesFirst ==
  ASSUME TypeOK, RemovedIsLast, NEW e \in Entity, e \notin Announced, Says(e, "Added")
  PROVE  RemovedIsLast'
<1>1. CASE published' = published
  BY <1>1 DEF RemovedIsLast
<1>2. ASSUME NEW m \in PresenceType,
             published' = [published EXCEPT ![e] = Append(published[e], m)]
      PROVE  RemovedIsLast'
  <2>1. published \in [Entity -> Seq(PresenceType)] /\ published[e] = <<>>
    BY DEF TypeOK, Announced
  <2>2. /\ published'[e] = Append(<<>>, m)
        /\ \A x \in Entity : x # e => published'[x] = published[x]
    BY <1>2, <2>1
  <2>3. DOMAIN Append(<<>>, m) = {1}
    BY AppendProperties, LenProperties, EmptySeq
  <2>4. QED
    BY <2>2, <2>3 DEF RemovedIsLast
<1>3. QED
  BY <1>1, <1>2 DEF Says

LEMMA SaidStep ==
    GameIsPatient /\ TypeOK /\ TokensRise /\ PhasesInOrder /\ DeadStayDead
        /\ OnlySpawnedAnnounced /\ CommandsHonest /\ ToldOnce /\ SaidInOrder /\ [Next]_vars
        => SaidInOrder'
<1> SUFFICES ASSUME GameIsPatient, TypeOK, TokensRise, PhasesInOrder, DeadStayDead,
                    OnlySpawnedAnnounced, CommandsHonest, ToldOnce, SaidInOrder, [Next]_vars
             PROVE  SaidInOrder'
  OBVIOUS
<1> USE DEF registry, reader, applying, world, session, SaidInOrder
<1>0. ASSUME UNCHANGED <<published, fresh>>,
             \A k \in DOMAIN fresh : fresh[k].id \in alive'
      PROVE  SaidInOrder'
  BY <1>0 DEF FreshWait, RemovedIsLast, Announced
<1>s. ASSUME UNCHANGED <<published, fresh, alive>>
      PROVE  SaidInOrder'
  BY <1>s DEF FreshWait, RemovedIsLast, Announced
<1>1. ASSUME NEW n \in EdgeName, NEW i \in EdgeId, NEW c, Receive(n, i, c)
      PROVE  SaidInOrder'
  BY <1>s, <1>1 DEF Receive
<1>2. CASE Accept
  BY <1>s, <1>2 DEF Accept
<1>3. CASE Silence
  BY <1>s, <1>3 DEF Silence
<1>4. CASE Sweep
  BY <1>s, <1>4 DEF Sweep
<1>5. CASE BeginStep
  <2>1. fresh = <<>> /\ UNCHANGED <<published, fresh>>
    BY <1>5 DEF BeginStep, PhasesInOrder
  <2>2. QED
    BY <1>0, <2>1, EmptyElements
<1>6. CASE TakeOrphans
  <2>1. fresh = <<>> /\ UNCHANGED <<published, fresh>>
    BY <1>6 DEF TakeOrphans, PhasesInOrder
  <2>2. QED
    BY <1>0, <2>1, EmptyElements
<1>7. CASE RefuseSpawn
  BY <1>s, <1>7 DEF RefuseSpawn
<1>8. CASE Spawn
  <2>1. /\ published' = published
        /\ alive' = alive \cup {spawned}
    BY <1>8 DEF Spawn
  <2>2. PICK f : /\ f.id = spawned
                 /\ \A k \in DOMAIN fresh' :
                        \/ k \in DOMAIN fresh /\ fresh'[k] = fresh[k]
                        \/ k = Len(fresh) + 1 /\ k \notin DOMAIN fresh /\ fresh'[k] = f
    BY <1>8, SpawnEffect
  <2>3. spawned \notin Announced
    BY DEF OnlySpawnedAnnounced, TypeOK
  <2>4. Announced' = Announced
    BY <2>1 DEF Announced
  <2>5. FreshWait'
    BY <2>1, <2>2, <2>3, <2>4 DEF FreshWait
  <2>6. QED
    BY <2>1, <2>5 DEF RemovedIsLast
<1>9. CASE SpawnUnclaimed
  BY <1>s, <1>9 DEF SpawnUnclaimed
<1>10. CASE RefuseDespawn
  BY <1>s, <1>10 DEF RefuseDespawn
<1>11. CASE CheckDespawn
  BY <1>s, <1>11 DEF CheckDespawn
<1>12. CASE Despawn
  <2>1. batch # <<>> /\ Head(batch).kind = "Despawn"
    BY <1>12 DEF Despawn, PhasesInOrder
  <2>2. Head(batch).id \in Announced
    BY <2>1, HeadOfBatch DEF CommandsHonest
  <2>3. UNCHANGED <<published, fresh>> /\ alive' = alive \ {Head(batch).id}
    BY <1>12 DEF Despawn
  <2>4. \A k \in DOMAIN fresh : fresh[k].id \in alive'
    BY <2>2, <2>3 DEF FreshWait
  <2>5. QED
    BY <1>0, <2>3, <2>4
<1>13. CASE RefuseMove
  BY <1>s, <1>13 DEF RefuseMove
<1>14. CASE Move
  BY <1>s, <1>14 DEF Move
<1>15. CASE FinishStep
  <2>1. UNCHANGED <<published, fresh>> /\ \E S \in SUBSET Killable : alive' = alive \ S
    BY <1>15 DEF FinishStep
  <2>2. \A k \in DOMAIN fresh : fresh[k].id \notin Killable
    BY SessionAssumption DEF Killable, GameIsPatient
  <2>3. \A k \in DOMAIN fresh : fresh[k].id \in alive'
    BY <2>1, <2>2 DEF FreshWait
  <2>4. QED
    BY <1>0, <2>1, <2>3
<1>16. CASE RetireGone
  <2>1. UNCHANGED <<fresh, alive>>
    BY <1>16 DEF RetireGone
  <2>2. PICK g \in gone : /\ g.id \in Entity
                          /\ Says(g.id, "Removed")
                          /\ g.edge = None => published' = published
    BY <1>16, RetireGoneEffect
  <2>3. CASE g.edge = None
    BY <1>s, <2>1, <2>2, <2>3
  <2>4. CASE g.edge # None
    <3>1. RemovedIsLast'
      BY <2>2, <2>4, RemovedComesLast DEF ToldOnce
    <3>2. Announced' \subseteq Announced \cup {g.id} /\ g.id \notin alive
      BY <2>2, SaysEffect DEF DeadStayDead
    <3>3. FreshWait'
      BY <2>1, <3>2 DEF FreshWait
    <3>4. QED
      BY <3>1, <3>3
  <2>5. QED
    BY <2>3, <2>4
<1>17. CASE Reconcile
  BY <1>s, <1>17 DEF Reconcile
<1>18. CASE ReconcileRelease
  BY <1>s, <1>18 DEF ReconcileRelease
<1>19. CASE ReconcileRetire
  <2>1. UNCHANGED <<fresh, alive>>
    BY <1>19 DEF ReconcileRetire
  <2>2. retiring # None /\ retiring.id \in Entity /\ Says(retiring.id, "Removed")
    BY <1>19, ReconcileRetireEffect
  <2>3. RemovedIsLast'
    BY <2>2, RemovedComesLast DEF ToldOnce
  <2>4. Announced' \subseteq Announced \cup {retiring.id} /\ retiring.id \notin alive
    BY <2>2, SaysEffect DEF DeadStayDead
  <2>5. FreshWait'
    BY <2>1, <2>4 DEF FreshWait
  <2>6. QED
    BY <2>3, <2>5
<1>20. CASE Answer
  <2>1. alive' = alive
    BY <1>20 DEF Answer
  <2>2. /\ 1 \in DOMAIN fresh /\ Head(fresh) = fresh[1] /\ Head(fresh).id \in Entity
        /\ Says(Head(fresh).id, "Added")
        /\ \A k \in DOMAIN fresh' :
                k + 1 \in DOMAIN fresh /\ fresh'[k] = fresh[k + 1] /\ k + 1 # 1 /\ k \in Nat
    BY <1>20, AnswerEffect
  <2>3. fresh[1].id \notin Announced
    BY <2>2 DEF FreshWait
  <2>4. RemovedIsLast'
    BY <2>2, <2>3, AddedComesFirst
  <2>5. Announced' \subseteq Announced \cup {fresh[1].id}
    BY <2>2, SaysEffect
  <2>6. \A k \in DOMAIN fresh' : fresh'[k].id # fresh[1].id
    BY <2>2 DEF OnlySpawnedAnnounced
  <2>7. \A k \in DOMAIN fresh' : fresh'[k].id \in alive /\ fresh'[k].id \notin Announced
    BY <2>2 DEF FreshWait
  <2>8. FreshWait'
    BY <2>1, <2>5, <2>6, <2>7 DEF FreshWait
  <2>9. QED
    BY <2>4, <2>8
<1>21. CASE EndTick
  BY <1>s, <1>21 DEF EndTick
<1>22. CASE UNCHANGED vars
  BY <1>s, <1>22 DEF vars
<1>23. QED
  BY <1>1, <1>2, <1>3, <1>4, <1>5, <1>6, <1>7, <1>8, <1>9, <1>10, <1>11, <1>12,
     <1>13, <1>14, <1>15, <1>16, <1>17, <1>18, <1>19, <1>20, <1>21, <1>22
  DEF Next, Tick

-----------------------------------------------------------------------------
LEMMA InitIInv == Init => IInv
<1> SUFFICES ASSUME Init PROVE IInv
  OBVIOUS
<1>1. RegistryAgrees /\ TypeOK /\ TokensRise
  BY RegistryStarts, TypesInit, TokensInit DEF Init
<1>2. Waiting = {} /\ Announced = {} /\ DOMAIN fresh = {}
  BY EmptyElements DEF Init, Waiting, Announced, Elements
<1>3. \A e \in Entity : ~Told(e) /\ ~Marked(e)
  BY EmptyElements DEF Init, Told, Marked
<1>4. PhasesInOrder
  BY DEF Init, PhasesInOrder
<1>5. AliveAreManaged /\ OwnedAccounted /\ DeadStayDead
  BY DEF Init, RegistryInit, AliveAreManaged, OwnedAccounted, DeadStayDead
<1>6. ToldOnce
  BY <1>3 DEF Init, ToldOnce
<1>7. OnlySpawnedAnnounced /\ CommandsHonest /\ FreshWait
  BY <1>2 DEF OnlySpawnedAnnounced, CommandsHonest, FreshWait
<1>8. RemovedIsLast
  BY EmptyElements DEF Init, RemovedIsLast
<1>9. QED
  BY <1>1, <1>4, <1>5, <1>6, <1>7, <1>8 DEF IInv

LEMMA StepIInv == IInv /\ [Next]_vars => IInv'
<1> SUFFICES ASSUME IInv, [Next]_vars PROVE IInv'
  OBVIOUS
<1>1. RegistryAgrees'
  BY StepIsEdges, RegistryStep DEF IInv
<1>2. TypeOK' /\ TokensRise' /\ PhasesInOrder'
  BY <1>1, TypesStep, TokensStep, PhasesStep DEF IInv
<1>3. AliveAreManaged' /\ OwnedAccounted' /\ DeadStayDead'
  BY LivesStep DEF IInv, LivesInOrder
<1>4. OnlySpawnedAnnounced' /\ CommandsHonest' /\ ToldOnce'
  BY AnnouncedStep, HonestStep, ToldStep DEF IInv
<1>5. GameIsPatient => FreshWait' /\ RemovedIsLast'
  BY SaidStep DEF IInv, SaidInOrder
<1>6. QED
  BY <1>1, <1>2, <1>3, <1>4, <1>5 DEF IInv, GameIsPatient

(* The invariant of the session holds in every reachable state.            *)
THEOREM IInvInvariant == Spec => []IInv
  BY InitIInv, StepIInv, PTL DEF Spec

-----------------------------------------------------------------------------
(* The session is well formed in every reachable state; in particular      *)
(* there is an id left for every spawn an edge may still have waiting.     *)
THEOREM SessionTypeCorrect == Spec => []TypeOK
<1>1. IInv => TypeOK
  BY DEF IInv
<1>2. QED
  BY <1>1, IInvInvariant, PTL

(* Nothing that is alive is lost by both the registry and the tick loop.   *)
THEOREM AliveAlwaysManaged == Spec => []AliveAreManaged
<1>1. IInv => AliveAreManaged
  BY DEF IInv
<1>2. QED
  BY <1>1, IInvInvariant, PTL

(* Between ticks no edge manages an entity that is dead, whatever the game *)
(* despawned and whichever edges were dropped during the tick.             *)
THEOREM OwnedAlwaysAlive == Spec => []OwnedAreAlive
<1>1. IInv => OwnedAreAlive
  BY DEF IInv, OwnedAreAlive, OwnedAccounted, PhasesInOrder
<1>2. QED
  BY <1>1, IInvInvariant, PTL

(* An edge hears of the end of an entity last, and once: if the game does  *)
(* not kill what apply has spawned in the same step.                       *)
THEOREM RemovedAlwaysLast == GameIsPatient => (Spec => []RemovedIsLast)
<1> SUFFICES ASSUME GameIsPatient PROVE Spec => []RemovedIsLast
  OBVIOUS
<1>1. IInv => RemovedIsLast
  BY DEF IInv
<1>2. QED
  BY <1>1, IInvInvariant, PTL

(* The session, the registry and the world agree in every reachable state, *)
(* for any number of edges, slots, entities and commands.                  *)
THEOREM SessionAlwaysAgrees == GameIsPatient => (Spec => []SessionAgrees)
<1> SUFFICES ASSUME GameIsPatient PROVE Spec => []SessionAgrees
  OBVIOUS
<1>1. IInv => SessionAgrees
  BY DEF IInv, SessionAgrees, OwnedAreAlive, OwnedAccounted, PhasesInOrder
<1>2. QED
  BY <1>1, IInvInvariant, PTL

-----------------------------------------------------------------------------
(* The session uses the registry as the registry may be used: every step   *)
(* of its three threads is a step of Edges, or leaves the registry alone.  *)
LEMMA SessionUsesRegistry == Spec => RegistrySpec
<1>1. Init => RegistryInit
  BY DEF Init
<1>2. IInv /\ [Next]_vars => [RegistryNext]_registry
  BY StepIsEdges DEF IInv
<1>3. QED
  BY <1>1, <1>2, IInvInvariant, PTL DEF Spec, RegistrySpec

-----------------------------------------------------------------------------
(* The steps that say something say it last.                               *)
LEMMA SaysLast ==
  ASSUME TypeOK, NEW e \in Entity, NEW what, Says(e, what),
         NEW x \in Entity, published'[x] # published[x]
  PROVE  x = e /\ published'[x][Len(published'[x])].what = what
<1>1. PICK m \in PresenceType :
            m.what = what /\ published' = [published EXCEPT ![e] = Append(published[e], m)]
  BY DEF Says
<1>2. published \in [Entity -> Seq(PresenceType)]
  BY DEF TypeOK
<1>3. x = e /\ published'[x] = Append(published[e], m)
  BY <1>1, <1>2
<1>4. Append(published[e], m)[Len(Append(published[e], m))] = m
  BY <1>2, AppendProperties
<1>5. QED
  BY <1>1, <1>3, <1>4

LEMMA WhoSays ==
  ASSUME [Next]_vars, published' # published
  PROVE  RetireGone \/ ReconcileRetire \/ Answer
<1> USE DEF session
<1>1. ~(\E n \in EdgeName, i \in EdgeId : \E c \in Commands(n) : Receive(n, i, c))
  BY DEF Receive
<1>2. ~(Accept \/ Silence \/ Sweep)
  BY DEF Accept, Silence, Sweep
<1>3. ~(BeginStep \/ TakeOrphans \/ RefuseSpawn \/ Spawn \/ SpawnUnclaimed)
  BY DEF BeginStep, TakeOrphans, RefuseSpawn, Spawn, SpawnUnclaimed
<1>4. ~(RefuseDespawn \/ CheckDespawn \/ Despawn \/ RefuseMove \/ Move \/ FinishStep)
  BY DEF RefuseDespawn, CheckDespawn, Despawn, RefuseMove, Move, FinishStep
<1>5. ~(Reconcile \/ ReconcileRelease \/ EndTick \/ UNCHANGED vars)
  BY DEF Reconcile, ReconcileRelease, EndTick, vars
<1>6. QED
  BY <1>1, <1>2, <1>3, <1>4, <1>5 DEF Next, Tick

(* What an edge is told it has is alive when it is told.                   *)
LEMMA AddedStep ==
  ASSUME IInv, GameIsPatient, [Next]_vars, NEW e \in Entity,
         published'[e] # published[e],
         published'[e][Len(published'[e])].what = "Added"
  PROVE  e \in alive
<1>1. RetireGone \/ ReconcileRetire \/ Answer
  BY WhoSays
<1>2. CASE RetireGone
  <2>1. PICK g \in gone : g.id \in Entity /\ Says(g.id, "Removed")
    BY <1>2, RetireGoneEffect DEF IInv
  <2>2. QED
    BY <2>1, SaysLast DEF IInv
<1>3. CASE ReconcileRetire
  <2>1. retiring.id \in Entity /\ Says(retiring.id, "Removed")
    BY <1>3, ReconcileRetireEffect DEF IInv
  <2>2. QED
    BY <2>1, SaysLast DEF IInv
<1>4. CASE Answer
  <2>1. /\ Head(fresh) = fresh[1] /\ 1 \in DOMAIN fresh /\ Head(fresh).id \in Entity
        /\ Says(Head(fresh).id, "Added")
    BY <1>4, AnswerEffect DEF IInv
  <2>2. e = fresh[1].id
    BY <2>1, SaysLast DEF IInv
  <2>3. QED
    BY <2>1, <2>2 DEF IInv, FreshWait
<1>5. QED
  BY <1>1, <1>2, <1>3, <1>4

(* An edge is told of nothing that is not alive, if the game does not kill *)
(* what apply has spawned in the same step.                                *)
THEOREM AddedAlwaysExists == GameIsPatient => (Spec => AddedExists)
<1> SUFFICES ASSUME GameIsPatient PROVE Spec => AddedExists
  OBVIOUS
<1>1. IInv /\ [Next]_vars =>
        [\A e \in Entity :
            /\ published'[e] # published[e]
            /\ published'[e][Len(published'[e])].what = "Added"
            => e \in alive]_vars
  BY AddedStep
<1>2. QED
  BY <1>1, IInvInvariant, PTL DEF Spec, AddedExists

(* The manager of what a command names, if the command is to be carried    *)
(* out, is its sender.                                                     *)
LEMMA SenderManages ==
  ASSUME IInv, batch # <<>>, Head(batch).kind \in {"Despawn", "Move"},
         Manages(Head(batch))
  PROVE  ManagerOf(Head(batch).id) = Head(batch).from
<1>1. /\ Head(batch) \in Waiting /\ Head(batch).edge \in EdgeId
      /\ Head(batch).id \in Entity
  BY HeadOfBatch DEF IInv
<1>2. owners[Head(batch).id] = Head(batch).edge
  BY DEF Manages, EdgeFor
<1>3. slots[Head(batch).edge].name = Head(batch).from
  BY <1>1, <1>2 DEF IInv, CommandsHonest
<1>4. owners[Head(batch).id] # UNOWNED
  BY <1>1, <1>2, ConstantFacts
<1>5. slots[Head(batch).edge] # None
  BY <1>1, <1>2, <1>4 DEF IInv, RegistryAgrees, OwnersAgree, Attached
<1>6. Names[Head(batch).edge] = Head(batch).from
  BY <1>1, <1>3, <1>5 DEF Names
<1>7. QED
  BY <1>2, <1>4, <1>6 DEF ManagerOf

LEMMA WhoActs ==
  ASSUME [Next]_vars
  PROVE  /\ writes' \subseteq writes \/ Move
         /\ pc' = "despawn" /\ pc # "despawn" => CheckDespawn
<1> USE DEF applying
<1>1. ASSUME NEW n \in EdgeName, NEW i \in EdgeId, NEW c, Receive(n, i, c)
      PROVE  writes' = writes /\ pc' = pc
  BY <1>1 DEF Receive
<1>2. ASSUME Accept \/ Silence \/ Sweep
      PROVE  writes' = writes /\ pc' = pc
  BY <1>2 DEF Accept, Silence, Sweep
<1>3. ASSUME BeginStep \/ TakeOrphans \/ FinishStep
      PROVE  writes' \subseteq writes /\ pc' # "despawn"
  BY <1>3 DEF BeginStep, TakeOrphans, FinishStep
<1>4. ASSUME RefuseSpawn \/ Spawn \/ SpawnUnclaimed \/ RefuseDespawn \/ RefuseMove
      PROVE  writes' = writes /\ pc' = pc
  BY <1>4 DEF RefuseSpawn, Spawn, SpawnUnclaimed, RefuseDespawn, RefuseMove
<1>5. ASSUME CheckDespawn PROVE writes' = writes
  BY <1>5 DEF CheckDespawn
<1>6. ASSUME Despawn PROVE writes' = writes /\ pc' # "despawn"
  BY <1>6 DEF Despawn
<1>7. ASSUME Move PROVE pc' = pc
  BY <1>7 DEF Move
<1>8. ASSUME RetireGone \/ Reconcile \/ ReconcileRelease \/ ReconcileRetire
      PROVE  writes' = writes /\ (pc' = pc \/ pc' # "despawn")
  BY <1>8 DEF RetireGone, Reconcile, ReconcileRelease, ReconcileRetire
<1>9. ASSUME Answer \/ EndTick \/ UNCHANGED vars
      PROVE  writes' = writes /\ (pc' = pc \/ pc' # "despawn")
  BY <1>9 DEF Answer, EndTick, vars
<1>10. QED
  BY <1>1, <1>2, <1>3, <1>4, <1>5, <1>6, <1>7, <1>8, <1>9 DEF Next, Tick

(* Only the edge that manages an entity moves or despawns it, by the name  *)
(* of the edge, though slots are reused while commands wait.               *)
THEOREM OnlyManagerEverActs == Spec => OnlyManagerActs
<1> DEFINE Act ==
        /\ \A w \in writes' \ writes : ManagerOf(w.id) = w.from
        /\ pc' = "despawn" /\ pc # "despawn" =>
              ManagerOf(Head(batch).id) = Head(batch).from
<1>1. IInv /\ [Next]_vars => [Act]_vars
  <2> SUFFICES ASSUME IInv, [Next]_vars PROVE Act
    OBVIOUS
  <2>1. \A w \in writes' \ writes : ManagerOf(w.id) = w.from
    <3>1. CASE writes' \subseteq writes
      BY <3>1
    <3>2. CASE Move
      <4>1. ManagerOf(Head(batch).id) = Head(batch).from
        BY <3>2, SenderManages DEF Move, Command
      <4>2. writes' = writes \cup {[id |-> Head(batch).id, from |-> Head(batch).from]}
        BY <3>2 DEF Move
      <4>3. QED
        BY <4>1, <4>2
    <3>3. QED
      BY <3>1, <3>2, WhoActs
  <2>2. ASSUME CheckDespawn PROVE ManagerOf(Head(batch).id) = Head(batch).from
    BY <2>2, SenderManages DEF CheckDespawn, Command
  <2>3. QED
    BY <2>1, <2>2, WhoActs
<1>2. QED
  BY <1>1, IInvInvariant, PTL DEF Spec, OnlyManagerActs

(* What the session answers is true when it is said, and what it carries   *)
(* out was asked by whoever manages the entity then.                       *)
THEOREM AnswersAlwaysTrue == GameIsPatient => (Spec => AnswersTrue)
  BY AddedAlwaysExists, OnlyManagerEverActs, PTL DEF AnswersTrue

-----------------------------------------------------------------------------
(* And so the session as a whole keeps the promise of Ownership: whatever  *)
(* its threads do, an entity has one manager at most, and none is lost.    *)
THEOREM SessionKeepsOwnership == Spec => ImplementsOwnership
  BY SessionUsesRegistry, EdgesImplementOwnership, PTL

-----------------------------------------------------------------------------
(* The sink (EdgeSink), over the same registry.  What the registry names   *)
(* changes with the generation, but for the moment between the emptying of *)
(* a slot and the publication of its orphans, when the edge that had it is *)
(* still being dropped.  So a table that bears the generation is current   *)
(* (IsCurrent), and one being filled is, if it will bear it.               *)
IsCurrent(names) ==
    /\ dropping = None => names = Names
    /\ \A i \in EdgeId : names[i] \in NameAt(slots, i) \cup Leaving \cup {None}

TableCurrent ==
    /\ subjects.generation <= generation
    /\ subjects.generation = generation => IsCurrent(subjects.names)
    /\ \A t \in Thread :
        /\ call[t].generation <= generation
        /\ At(t, "label") /\ call[t].generation = generation => IsCurrent(subjects.names)

(* The table bears the generation t has read, or is about to.              *)
WillHit(t) ==
    \/ subjects.generation = call[t].generation
    \/ \E u \in Thread : At(u, "label") /\ call[u].generation = call[t].generation

CallsMeet ==
    \A t \in Thread :
        LET c == call[t] IN
        /\ At(t, "route") => c.avatar \in Entity
        /\ c.pc \in {"check", "refill", "label"} => NameAt(slots, c.edge) \subseteq c.met
        /\ At(t, "check") /\ WillHit(t) => subjects.names[c.edge] \in c.met \cup {None}
        /\ At(t, "label") => subjects.names[c.edge] \in c.met \cup {None}

SinkInv ==
    /\ RegistryAgrees
    /\ SinkTypeOK
    /\ TableCurrent
    /\ CallsMeet
    /\ SubjectMet

(* What the registry names changes with the generation, except as a slot   *)
(* is emptied, whose edge is then being dropped.                           *)
NamesQuiet ==
    \/ UNCHANGED <<Names, Leaving, dropping>> /\ \A i \in EdgeId : UNCHANGED NameAt(slots, i)
    \/ /\ dropping = None /\ dropping' # None
       /\ \A i \in EdgeId : NameAt(slots, i) \subseteq NameAt(slots', i) \cup Leaving'

LEMMA NamesSame ==
  ASSUME UNCHANGED dropping,
         \A i \in EdgeId : slots'[i] = None <=> slots[i] = None,
         \A i \in EdgeId : slots[i] # None => slots'[i].name = slots[i].name
  PROVE  NamesQuiet
<1>1. \A i \in EdgeId : NameAt(slots', i) = NameAt(slots, i)
  BY DEF NameAt
<1>2. Names' = Names
  BY DEF Names
<1>3. Leaving' = Leaving
  BY DEF Leaving
<1>4. \A i \in EdgeId : UNCHANGED NameAt(slots, i)
  BY <1>1 DEF NameAt
<1>5. QED
  BY <1>2, <1>3, <1>4 DEF NamesQuiet

LEMMA RegistryMoves ==
  ASSUME RegistryAgrees, [RegistryNext]_registry
  PROVE  generation' = generation + 1 \/ (generation' = generation /\ NamesQuiet)
<1> USE DEF RegistryAgrees, RegistryTypeOK, EdgeRecord
<1>1. ASSUME NEW n \in EdgeName, NEW i \in EdgeId, Refresh(n, i)
      PROVE  generation' = generation /\ NamesQuiet
  <2>1. UNCHANGED dropping /\ generation' = generation
    BY <1>1 DEF Refresh, sweepVars
  <2>2. \A j \in EdgeId : slots'[j] = None <=> slots[j] = None
    BY <1>1, EdgesAssumption DEF Refresh, Attached
  <2>3. \A j \in EdgeId : slots[j] # None => slots'[j].name = slots[j].name
    BY <1>1 DEF Refresh, Attached
  <2>4. QED
    BY <2>1, <2>2, <2>3, NamesSame
<1>2. ASSUME NEW n \in EdgeName, NEW i \in EdgeId, AdmitNew(n, i)
      PROVE  generation' = generation + 1
  BY <1>2 DEF AdmitNew
<1>3. ASSUME NEW i \in EdgeId, NEW e \in Entity, Claim(i, e)
      PROVE  generation' = generation /\ NamesQuiet
  <2>1. UNCHANGED dropping /\ generation' = generation
    BY <1>3 DEF Claim, sweepVars
  <2>2. \A j \in EdgeId : slots'[j] = None <=> slots[j] = None
    BY <1>3, EdgesAssumption DEF Claim
  <2>3. \A j \in EdgeId : slots[j] # None => slots'[j].name = slots[j].name
    BY <1>3 DEF Claim
  <2>4. QED
    BY <2>1, <2>2, <2>3, NamesSame
<1>4. ASSUME NEW e \in Entity, Release(e)
      PROVE  generation' = generation /\ NamesQuiet
  <2>1. UNCHANGED dropping /\ generation' = generation
    BY <1>4 DEF Release, sweepVars
  <2>2. \A j \in EdgeId : slots'[j] = None <=> slots[j] = None
    BY <1>4, EdgesAssumption DEF Release
  <2>3. \A j \in EdgeId : slots[j] # None => slots'[j].name = slots[j].name
    BY <1>4 DEF Release
  <2>4. QED
    BY <2>1, <2>2, <2>3, NamesSame
<1>5. CASE TakeDetached
  BY <1>5, NamesSame DEF TakeDetached, sweepVars
<1>6. ASSUME NEW i \in EdgeId, GoSilent(i)
      PROVE  generation' = generation /\ NamesQuiet
  <2>1. UNCHANGED dropping /\ generation' = generation
    BY <1>6 DEF GoSilent, sweepVars
  <2>2. \A j \in EdgeId : slots'[j] = None <=> slots[j] = None
    BY <1>6, EdgesAssumption DEF GoSilent, Attached
  <2>3. \A j \in EdgeId : slots[j] # None => slots'[j].name = slots[j].name
    BY <1>6 DEF GoSilent, Attached
  <2>4. QED
    BY <2>1, <2>2, <2>3, NamesSame
<1>7. CASE ExpireScan
  BY <1>7, NamesSame DEF ExpireScan, edgeVars
<1>8. ASSUME NEW i \in EdgeId, DetachOwners(i)
      PROVE  generation' = generation /\ NamesQuiet
  <2>1. /\ generation' = generation
        /\ dropping = None /\ dropping' = slots[i] /\ dropping' # None
    BY <1>8 DEF DetachOwners, SlotsFree
  <2>2. Leaving' = {slots[i].name}
    BY <2>1 DEF Leaving
  <2>3. \A j \in EdgeId : j # i => slots'[j] = slots[j]
    BY <1>8 DEF DetachOwners
  <2>4. \A j \in EdgeId : NameAt(slots, j) \subseteq NameAt(slots', j) \cup Leaving'
    BY <2>2, <2>3 DEF NameAt
  <2>5. QED
    BY <2>1, <2>4 DEF NamesQuiet
<1>9. CASE DetachPublish
  BY <1>9 DEF DetachPublish
<1>10. CASE UNCHANGED registry
  BY <1>10, NamesSame DEF registry
<1>11. QED
  BY <1>1, <1>2, <1>3, <1>4, <1>5, <1>6, <1>7, <1>8, <1>9, <1>10
  DEF RegistryNext, Admit, Expire

(* So a table that is current stays so until the generation moves.         *)
LEMMA CurrentKept ==
  ASSUME RegistryAgrees, [RegistryNext]_registry, generation' = generation,
         IsCurrent(subjects.names), UNCHANGED subjects
  PROVE  IsCurrent(subjects.names)'
<1>1. NamesQuiet
  BY RegistryMoves DEF RegistryAgrees, RegistryTypeOK
<1>2. CASE UNCHANGED <<Names, Leaving, dropping>> /\ \A i \in EdgeId : UNCHANGED NameAt(slots, i)
  BY <1>2 DEF IsCurrent
<1>3. CASE /\ dropping = None /\ dropping' # None
           /\ \A i \in EdgeId : NameAt(slots, i) \subseteq NameAt(slots', i) \cup Leaving'
  <2>1. Leaving = {}
    BY <1>3 DEF Leaving
  <2>2. \A i \in EdgeId :
            subjects.names[i] \in NameAt(slots', i) \cup Leaving' \cup {None}
    BY <2>1, <1>3 DEF IsCurrent
  <2>3. \A i \in EdgeId : NameAt(slots, i)' = NameAt(slots', i)
    BY DEF NameAt
  <2>4. QED
    BY <1>3, <2>2, <2>3 DEF IsCurrent
<1>4. QED
  BY <1>1, <1>2, <1>3 DEF NamesQuiet

LEMMA SinkConstants ==
    /\ 0 \in EdgeId
    /\ None \notin Entity /\ None \notin Thread /\ "tick" \in Thread
    /\ Sender \subseteq Thread
    /\ NoCall \in CallType
<1>1. 0 \in EdgeId
  BY EdgesAssumption DEF EdgeId
<1>2. QED
  BY <1>1, SinkAssumption DEF Thread, NoCall, CallType

LEMMA BecomesEffect ==
  ASSUME SinkTypeOK, NEW t \in Thread, NEW c, Becomes(t, c)
  PROVE  /\ c \in CallType => call' \in [Thread -> CallType]
         /\ call'[t] = c
         /\ \A u \in Thread : u # t => call'[u] = call[u]
  BY DEF SinkTypeOK, Becomes

LEMMA AnsweredType ==
  ASSUME SinkTypeOK, NEW t \in Thread
  PROVE  /\ Answered(t) \in CallType
         /\ Answered(t).generation \in {0, call[t].generation}
         /\ Answered(t).pc \in {"idle", "publish"}
         /\ Answered(t).pc = "publish" =>
                /\ Answered(t).to = subjects.names[call[t].edge]
                /\ Answered(t).to # None
                /\ Answered(t).met = call[t].met
<1>1. call[t] \in CallType /\ subjects.names[call[t].edge] \in EdgeName \cup {None}
  BY DEF SinkTypeOK, CallType
<1>2. CASE subjects.names[call[t].edge] = None
  BY <1>2, SinkConstants DEF Answered, NoCall
<1>3. CASE subjects.names[call[t].edge] # None
  BY <1>1, <1>3 DEF Answered, CallType
<1>4. QED
  BY <1>2, <1>3

LEMMA RouteEffect ==
  ASSUME SinkTypeOK, NEW t \in Sender, Route(t)
  PROVE  /\ call'[t].generation \in {0, call[t].generation}
         /\ call'[t].pc \in {"idle", "subject"}
         /\ \A u \in Thread : u # t => call'[u] = call[u]
<1>1. t \in Thread /\ call[t] \in CallType
  BY SinkConstants DEF SinkTypeOK
<1>2. CASE EdgeFor(call[t].avatar) = UNOWNED
  <2>1. Becomes(t, NoCall)
    BY <1>2 DEF Route
  <2>2. QED
    BY <1>1, <2>1, BecomesEffect DEF NoCall
<1>3. CASE EdgeFor(call[t].avatar) # UNOWNED
  <2>1. Becomes(t, [call[t] EXCEPT !.pc = "subject", !.edge = EdgeFor(call[t].avatar),
                                   !.asked = slots[EdgeFor(call[t].avatar)].name])
    BY <1>3 DEF Route
  <2>2. /\ call'[t] = [call[t] EXCEPT !.pc = "subject", !.edge = EdgeFor(call[t].avatar),
                                      !.asked = slots[EdgeFor(call[t].avatar)].name]
        /\ \A u \in Thread : u # t => call'[u] = call[u]
    BY <1>1, <2>1, BecomesEffect
  <2>3. call'[t].generation = call[t].generation /\ call'[t].pc = "subject"
    BY <1>1, <2>2 DEF CallType
  <2>4. QED
    BY <2>2, <2>3
<1>4. QED
  BY <1>2, <1>3

LEMMA MeetEffect ==
  ASSUME SinkTypeOK, RegistryTypeOK', Meet
  PROVE  /\ call' \in [Thread -> CallType]
         /\ \A t \in Thread :
                /\ call'[t].pc = call[t].pc /\ call'[t].avatar = call[t].avatar
                /\ call'[t].edge = call[t].edge /\ call'[t].to = call[t].to
                /\ call'[t].generation = call[t].generation
                /\ call[t].met \subseteq call'[t].met
                /\ call[t].pc \in {"check", "refill", "label"} =>
                        NameAt(slots', call[t].edge) \subseteq call'[t].met
<1>1. \A i \in EdgeId : NameAt(slots', i) \subseteq EdgeName
  BY DEF RegistryTypeOK, NameAt, EdgeRecord
<1>2. ASSUME NEW t \in Thread
      PROVE  /\ call'[t] \in CallType
             /\ call'[t].pc = call[t].pc /\ call'[t].avatar = call[t].avatar
             /\ call'[t].edge = call[t].edge /\ call'[t].to = call[t].to
             /\ call'[t].generation = call[t].generation
             /\ call[t].met \subseteq call'[t].met
             /\ call[t].pc \in {"check", "refill", "label"} =>
                    NameAt(slots', call[t].edge) \subseteq call'[t].met
  <2>1. call[t] \in CallType /\ call[t].edge \in EdgeId
    BY DEF SinkTypeOK, CallType
  <2>2. CASE call[t].pc \in {"check", "refill", "label"}
    <3>1. call'[t] = [call[t] EXCEPT !.met = @ \cup NameAt(slots', call[t].edge)]
      BY <2>2 DEF Meet
    <3>2. call[t].met \cup NameAt(slots', call[t].edge) \subseteq EdgeName
      BY <1>1, <2>1 DEF CallType
    <3>3. QED
      BY <2>1, <3>1, <3>2 DEF CallType
  <2>3. CASE call[t].pc \notin {"check", "refill", "label"}
    BY <2>1, <2>3 DEF Meet
  <2>4. QED
    BY <2>2, <2>3
<1>3. QED
  BY <1>2 DEF Meet

LEMMA SinkIsEdges == SinkTypeOK /\ [SinkNext]_sinkVars => [RegistryNext]_registry
<1> SUFFICES ASSUME SinkTypeOK, [SinkNext]_sinkVars PROVE [RegistryNext]_registry
  OBVIOUS
<1>1. CASE Registry
  BY <1>1 DEF Registry, RegistryNext
<1>2. ASSUME NEW v \in ViewerId, Unbind(v) \/ Serve(v) \/ \E e \in Entity : Bind(v, e)
      PROVE  UNCHANGED registry
  BY <1>2 DEF Unbind, Serve, Bind
<1>3. ASSUME NEW i \in EdgeId, NEW e \in Entity, Announce(i, e) PROVE UNCHANGED registry
  BY <1>3 DEF Announce
<1>4. ASSUME NEW t \in Sender, Route(t) \/ \E v \in ViewerId : Send(t, v)
      PROVE  UNCHANGED registry
  BY <1>4 DEF Route, Send
<1>5. ASSUME NEW t \in Thread, Subject(t) PROVE UNCHANGED registry
  BY <1>5 DEF Subject, ReadGeneration, Hit, Miss, Refill, Label, Publish
<1>6. QED
  BY <1>1, <1>2, <1>3, <1>4, <1>5 DEF SinkNext, sinkVars

LEMMA SinkTypeStep ==
  ASSUME RegistryAgrees, RegistryAgrees', SinkTypeOK, CallsMeet, [SinkNext]_sinkVars
  PROVE  SinkTypeOK'
<1> USE SinkConstants
<1>0. RegistryTypeOK /\ RegistryTypeOK'
  BY DEF RegistryAgrees
<1>1. ASSUME NEW v \in ViewerId, NEW e \in Entity, Bind(v, e) PROVE SinkTypeOK'
  BY <1>0, <1>1 DEF Bind, SinkTypeOK
<1>2. ASSUME NEW v \in ViewerId, Unbind(v) PROVE SinkTypeOK'
  BY <1>0, <1>2 DEF Unbind, SinkTypeOK
<1>3. ASSUME NEW v \in ViewerId, Serve(v) PROVE SinkTypeOK'
  BY <1>0, <1>3 DEF Serve, SinkTypeOK
<1>4. ASSUME NEW i \in EdgeId, NEW e \in Entity, Announce(i, e) PROVE SinkTypeOK'
  <2>1. [NoCall EXCEPT !.pc = "subject", !.avatar = e, !.edge = i] \in CallType
    BY DEF NoCall, CallType
  <2>2. QED
    BY <1>0, <1>4, <2>1, BecomesEffect DEF Announce, SinkTypeOK
<1>5. ASSUME NEW t \in Sender, NEW v \in ViewerId, Send(t, v) PROVE SinkTypeOK'
  <2>1. box' \in [ViewerId -> Entity \cup {None}]
    BY <1>5 DEF Send, SinkTypeOK
  <2>2. [NoCall EXCEPT !.pc = "route", !.of = box[v], !.avatar = avatars[v]] \in CallType
    BY DEF NoCall, CallType, SinkTypeOK
  <2>3. call' \in [Thread -> CallType]
    BY <1>5, <2>2, BecomesEffect DEF Send, SinkTypeOK
  <2>4. UNCHANGED <<avatars, subjects, writer>>
    BY <1>5 DEF Send
  <2>5. QED
    BY <1>0, <2>1, <2>3, <2>4 DEF SinkTypeOK
<1>6. ASSUME NEW t \in Sender, Route(t) PROVE SinkTypeOK'
  <2>1. call[t] \in CallType /\ call[t].avatar \in Entity
    BY <1>6 DEF Route, CallsMeet, SinkTypeOK
  <2>2. CASE EdgeFor(call[t].avatar) = UNOWNED
    BY <1>0, <1>6, <2>2, BecomesEffect DEF Route, SinkTypeOK
  <2>3. CASE EdgeFor(call[t].avatar) # UNOWNED
    <3>1. /\ EdgeFor(call[t].avatar) \in EdgeId
          /\ slots[EdgeFor(call[t].avatar)] \in EdgeRecord
      BY <1>0, <2>1, <2>3 DEF EdgeFor, RegistryTypeOK, RegistryAgrees, OwnersAgree, Attached
    <3>2. [call[t] EXCEPT !.pc = "subject", !.edge = EdgeFor(call[t].avatar),
                          !.asked = slots[EdgeFor(call[t].avatar)].name] \in CallType
      BY <2>1, <3>1 DEF CallType, EdgeRecord
    <3>3. QED
      BY <1>0, <1>6, <2>3, <3>2, BecomesEffect DEF Route, SinkTypeOK
  <2>4. QED
    BY <2>2, <2>3
<1>7. ASSUME NEW t \in Thread, ReadGeneration(t) PROVE SinkTypeOK'
  <2>1. call[t] \in CallType /\ call[t].edge \in EdgeId
    BY DEF SinkTypeOK, CallType
  <2>2. NameAt(slots, call[t].edge) \cup Leaving \subseteq EdgeName
    BY <1>0, <2>1 DEF RegistryTypeOK, NameAt, Leaving, EdgeRecord
  <2>3. [call[t] EXCEPT !.pc = "check", !.generation = generation,
                        !.met = NameAt(slots, call[t].edge) \cup Leaving] \in CallType
    <3>1. generation \in Int
      BY <1>0 DEF RegistryTypeOK
    <3>2. ASSUME NEW S \in SUBSET EdgeName
          PROVE  [call[t] EXCEPT !.pc = "check", !.generation = generation, !.met = S]
                    \in CallType
      BY <2>1, <3>1 DEF CallType
    <3>3. QED
      BY <2>2, <3>2, Zenon
  <2>4. QED
    BY <1>0, <1>7, <2>3, BecomesEffect DEF ReadGeneration, SinkTypeOK
<1>8. ASSUME NEW t \in Thread, Hit(t) PROVE SinkTypeOK'
  BY <1>0, <1>8, AnsweredType, BecomesEffect DEF Hit, SinkTypeOK
<1>9. ASSUME NEW t \in Thread, Miss(t) PROVE SinkTypeOK'
  <2>1. [call[t] EXCEPT !.pc = "refill"] \in CallType
    BY DEF SinkTypeOK, CallType
  <2>2. QED
    BY <1>0, <1>9, <2>1, BecomesEffect DEF Miss, SinkTypeOK
<1>10. ASSUME NEW t \in Thread, Refill(t) PROVE SinkTypeOK'
  <2>1. [call[t] EXCEPT !.pc = "label"] \in CallType
    BY DEF SinkTypeOK, CallType
  <2>2. Names \in [EdgeId -> EdgeName \cup {None}]
    BY <1>0 DEF RegistryTypeOK, Names, EdgeRecord
  <2>3. subjects' \in [generation : Int, names : [EdgeId -> EdgeName \cup {None}]]
    BY <1>10, <2>2 DEF Refill, SinkTypeOK
  <2>4. QED
    BY <1>0, <1>10, <2>1, <2>3, BecomesEffect DEF Refill, SinkTypeOK
<1>11. ASSUME NEW t \in Thread, Label(t) PROVE SinkTypeOK'
  <2>1. call[t].generation \in Int
    BY DEF SinkTypeOK, CallType
  <2>2. subjects' \in [generation : Int, names : [EdgeId -> EdgeName \cup {None}]]
    BY <1>11, <2>1 DEF Label, SinkTypeOK
  <2>3. QED
    BY <1>0, <1>11, <2>2, AnsweredType, BecomesEffect DEF Label, SinkTypeOK
<1>12. ASSUME NEW t \in Thread, Publish(t) PROVE SinkTypeOK'
  BY <1>0, <1>12, BecomesEffect DEF Publish, SinkTypeOK
<1>13. CASE Registry
  BY <1>0, <1>13, MeetEffect DEF Registry, SinkTypeOK
<1>14. CASE UNCHANGED sinkVars
  BY <1>0, <1>14 DEF sinkVars, SinkTypeOK
<1>15. QED
  BY <1>1, <1>2, <1>3, <1>4, <1>5, <1>6, <1>7, <1>8, <1>9, <1>10, <1>11, <1>12,
     <1>13, <1>14
  DEF SinkNext, Subject

(* A table that bears the generation is current, whoever stops where.      *)
LEMMA TableStep ==
  ASSUME RegistryAgrees, RegistryAgrees', SinkTypeOK, TableCurrent, [SinkNext]_sinkVars
  PROVE  TableCurrent'
<1> USE SinkConstants
<1>0. generation \in Nat /\ subjects.generation \in Int /\ \A t \in Thread : call[t].generation \in Int
  BY DEF RegistryAgrees, RegistryTypeOK, SinkTypeOK, CallType
<1>k. ASSUME UNCHANGED registry, UNCHANGED subjects,
             \A t \in Thread : \/ call'[t].generation = call[t].generation
                                  /\ (At(t, "label")' => At(t, "label"))
                               \/ call'[t].generation \in {0, generation} /\ ~At(t, "label")'
      PROVE  TableCurrent'
  <2>1. generation' = generation /\ IsCurrent(subjects.names)' = IsCurrent(subjects.names)
    BY <1>k DEF registry, IsCurrent, Names, NameAt, Leaving
  <2>2. QED
    BY <1>0, <1>k, <2>1 DEF TableCurrent
<1>1. ASSUME NEW v \in ViewerId, Unbind(v) \/ Serve(v) \/ \E e \in Entity : Bind(v, e)
      PROVE  TableCurrent'
  BY <1>1, <1>k DEF Unbind, Serve, Bind, At
<1>4. ASSUME NEW i \in EdgeId, NEW e \in Entity, Announce(i, e) PROVE TableCurrent'
  <2>1. call'["tick"].generation = 0 /\ call'["tick"].pc = "subject"
    BY <1>4 DEF Announce, Becomes, SinkTypeOK, NoCall
  <2>2. \A u \in Thread : u # "tick" => call'[u] = call[u]
    BY <1>4 DEF Announce, Becomes, SinkTypeOK
  <2>3. UNCHANGED registry /\ UNCHANGED subjects
    BY <1>4 DEF Announce
  <2>4. QED
    BY <1>k, <2>1, <2>2, <2>3 DEF At
<1>5. ASSUME NEW t \in Sender, NEW v \in ViewerId, Send(t, v) PROVE TableCurrent'
  <2>1. UNCHANGED registry /\ UNCHANGED subjects
    BY <1>5 DEF Send
  <2>2. CASE avatars[v] = None
    BY <1>5, <1>k, <2>1, <2>2 DEF Send, At
  <2>3. CASE avatars[v] # None
    <3>0. /\ call'[t] = [NoCall EXCEPT !.pc = "route", !.of = box[v], !.avatar = avatars[v]]
          /\ \A u \in Thread : u # t => call'[u] = call[u]
      BY <1>5, <2>3, BecomesEffect DEF Send
    <3>1. call'[t].generation = 0 /\ call'[t].pc = "route"
      BY <3>0 DEF NoCall
    <3>2. \A u \in Thread : u # t => call'[u] = call[u]
      BY <3>0
    <3>3. QED
      BY <1>k, <2>1, <3>1, <3>2 DEF At
  <2>4. QED
    BY <2>2, <2>3
<1>6. ASSUME NEW t \in Sender, Route(t) PROVE TableCurrent'
  <2>1. /\ call'[t].generation \in {0, call[t].generation}
        /\ call'[t].pc # "label"
        /\ \A u \in Thread : u # t => call'[u] = call[u]
    BY <1>6, RouteEffect
  <2>2. UNCHANGED registry /\ UNCHANGED subjects /\ t \in Thread
    BY <1>6 DEF Route
  <2>3. QED
    BY <1>k, <2>1, <2>2 DEF At
<1>7. ASSUME NEW t \in Thread, ReadGeneration(t) PROVE TableCurrent'
  <2>1. /\ call'[t] = [call[t] EXCEPT !.pc = "check", !.generation = generation,
                                      !.met = NameAt(slots, call[t].edge) \cup Leaving]
        /\ \A u \in Thread : u # t => call'[u] = call[u]
    BY <1>7, BecomesEffect DEF ReadGeneration
  <2>2. call[t] \in CallType
    BY DEF SinkTypeOK
  <2>3. call'[t].generation = generation /\ call'[t].pc = "check"
    BY <2>1, <2>2 DEF CallType
  <2>4. UNCHANGED registry /\ UNCHANGED subjects
    BY <1>7 DEF ReadGeneration
  <2>5. QED
    BY <1>k, <2>1, <2>3, <2>4 DEF At
<1>8. ASSUME NEW t \in Thread, Hit(t) PROVE TableCurrent'
  BY <1>8, <1>k, AnsweredType, BecomesEffect DEF Hit, At
<1>9. ASSUME NEW t \in Thread, Miss(t) PROVE TableCurrent'
  BY <1>9, <1>k DEF Miss, Becomes, SinkTypeOK, At
<1>10. ASSUME NEW t \in Thread, Refill(t) PROVE TableCurrent'
  <2>1. /\ subjects'.names = Names /\ subjects'.generation = subjects.generation
        /\ UNCHANGED registry /\ dropping = None
    BY <1>10 DEF Refill, SinkTypeOK, SlotsFree
  <2>2. IsCurrent(subjects.names)'
    BY <2>1 DEF registry, IsCurrent, Names, NameAt, Leaving
  <2>3. \A u \in Thread : call'[u].generation = call[u].generation
    BY <1>10 DEF Refill, Becomes, SinkTypeOK
  <2>4. QED
    BY <2>1, <2>2, <2>3 DEF TableCurrent, registry
<1>11. ASSUME NEW t \in Thread, Label(t) PROVE TableCurrent'
  <2>1. /\ subjects'.names = subjects.names
        /\ subjects'.generation = call[t].generation
        /\ UNCHANGED registry
    BY <1>11 DEF Label, SinkTypeOK
  <2>2. IsCurrent(subjects.names)' = IsCurrent(subjects.names) /\ generation' = generation
    BY <2>1 DEF registry, IsCurrent, Names, NameAt, Leaving
  <2>3. At(t, "label") /\ call[t].generation <= generation
    BY <1>11 DEF Label, TableCurrent
  <2>4. \A u \in Thread :
            /\ call'[u].generation \in {0, call[u].generation}
            /\ At(u, "label")' => call'[u] = call[u]
    BY <1>11, AnsweredType, BecomesEffect DEF Label, At
  <2>5. QED
    BY <1>0, <2>1, <2>2, <2>3, <2>4 DEF TableCurrent, At
<1>12. ASSUME NEW t \in Thread, Publish(t) PROVE TableCurrent'
  BY <1>12, <1>k DEF Publish, Becomes, SinkTypeOK, At, NoCall
<1>13. CASE Registry
  <2>1. UNCHANGED subjects
    BY <1>13 DEF Registry
  <2>2. \A t \in Thread : /\ call'[t].generation = call[t].generation
                          /\ At(t, "label")' = At(t, "label")
    BY <1>13, MeetEffect DEF Registry, At, RegistryAgrees
  <2>3. [RegistryNext]_registry
    BY <1>13, SinkIsEdges DEF SinkNext
  <2>4. CASE generation' = generation
    <3>1. IsCurrent(subjects.names) => IsCurrent(subjects.names)'
      BY <2>1, <2>3, <2>4, CurrentKept
    <3>2. QED
      BY <2>1, <2>2, <2>4, <3>1 DEF TableCurrent
  <2>5. CASE generation' = generation + 1
    BY <1>0, <2>1, <2>2, <2>5 DEF TableCurrent
  <2>6. QED
    BY <2>3, <2>4, <2>5, RegistryMoves
<1>14. CASE UNCHANGED sinkVars
  BY <1>14, <1>k DEF sinkVars, At
<1>15. QED
  BY <1>1, <1>4, <1>5, <1>6, <1>7, <1>8, <1>9, <1>10, <1>11, <1>12, <1>13, <1>14
  DEF SinkNext, Subject

(* What a call will take from the table has been met by the call.          *)
LEMMA MeetStep ==
  ASSUME RegistryAgrees, RegistryAgrees', SinkTypeOK, TableCurrent, CallsMeet,
         SubjectMet, [SinkNext]_sinkVars
  PROVE  CallsMeet' /\ SubjectMet'
<1> USE SinkConstants
<1> DEFINE Good(t) ==
        /\ At(t, "route") => call[t].avatar \in Entity
        /\ call[t].pc \in {"check", "refill", "label"} =>
                NameAt(slots, call[t].edge) \subseteq call[t].met
        /\ At(t, "check") /\ WillHit(t) =>
                subjects.names[call[t].edge] \in call[t].met \cup {None}
        /\ At(t, "label") => subjects.names[call[t].edge] \in call[t].met \cup {None}
        /\ At(t, "publish") => call[t].to \in call[t].met
<1>0. (CallsMeet /\ SubjectMet <=> \A t \in Thread : Good(t))
      /\ (CallsMeet' /\ SubjectMet' <=> \A t \in Thread : Good(t)')
  BY DEF CallsMeet, SubjectMet
<1>g. \A t \in Thread : Good(t)
  BY <1>0
<1>c. \A t \in Thread : call[t] \in CallType /\ call[t].edge \in EdgeId
  BY DEF SinkTypeOK, CallType
<1> HIDE DEF Good
\* A step of one thread that leaves registry and table alone and goes to
\* none of the places the others look at.
<1>k. ASSUME UNCHANGED registry, UNCHANGED subjects,
             NEW t \in Thread, \A u \in Thread : u # t => call'[u] = call[u],
             call'[t].pc # "label", Good(t)'
      PROVE  \A u \in Thread : Good(u)'
  <2>1. \A u \in Thread : At(u, "label")' => At(u, "label") /\ call'[u] = call[u]
    BY <1>k DEF At
  <2>2. UNCHANGED <<slots, subjects>>
    BY <1>k DEF registry
  <2>3. ASSUME NEW u \in Thread, u # t PROVE Good(u)'
    <3>1. call'[u] = call[u]
      BY <1>k, <2>3
    <3>2. WillHit(u)' => WillHit(u)
      BY <2>1, <2>2, <3>1 DEF WillHit
    <3>3. NameAt(slots, call[u].edge)' = NameAt(slots, call[u].edge)
      BY <2>2, <3>1 DEF NameAt
    <3>4. QED
      BY <1>g, <2>2, <3>1, <3>2, <3>3 DEF Good, At
  <2>4. QED
    BY <1>k, <2>3
<1>1. ASSUME NEW v \in ViewerId, Unbind(v) \/ Serve(v) \/ \E e \in Entity : Bind(v, e)
      PROVE  \A u \in Thread : Good(u)'
  <2>1. UNCHANGED <<registry, subjects, call>>
    BY <1>1 DEF Unbind, Serve, Bind
  <2>2. QED
    BY <1>g, <2>1 DEF Good, At, WillHit, NameAt, registry
<1>2. ASSUME NEW i \in EdgeId, NEW e \in Entity, Announce(i, e)
      PROVE  \A u \in Thread : Good(u)'
  <2>1. /\ call'["tick"] = [NoCall EXCEPT !.pc = "subject", !.avatar = e, !.edge = i]
        /\ \A u \in Thread : u # "tick" => call'[u] = call[u]
    BY <1>2, BecomesEffect DEF Announce
  <2>2. call'["tick"].pc = "subject"
    BY <2>1 DEF NoCall
  <2>3. Good("tick")'
    BY <2>2 DEF Good, At
  <2>4. QED
    BY <1>2, <1>k, <2>1, <2>2, <2>3 DEF Announce
<1>3. ASSUME NEW t \in Sender, NEW v \in ViewerId, Send(t, v)
      PROVE  \A u \in Thread : Good(u)'
  <2>0. UNCHANGED <<registry, subjects>>
    BY <1>3 DEF Send
  <2>1. CASE avatars[v] = None
    <3>1. UNCHANGED call
      BY <1>3, <2>1 DEF Send
    <3>2. QED
      BY <1>g, <2>0, <3>1 DEF Good, At, WillHit, NameAt, registry
  <2>2. CASE avatars[v] # None
    <3>1. /\ call'[t] = [NoCall EXCEPT !.pc = "route", !.of = box[v], !.avatar = avatars[v]]
          /\ \A u \in Thread : u # t => call'[u] = call[u]
      BY <1>3, <2>2, BecomesEffect DEF Send
    <3>2. call'[t].pc = "route" /\ call'[t].avatar = avatars[v] /\ avatars[v] \in Entity
      BY <2>2, <3>1 DEF NoCall, SinkTypeOK
    <3>3. Good(t)'
      BY <3>2 DEF Good, At
    <3>4. QED
      BY <1>k, <2>0, <3>1, <3>2, <3>3
  <2>3. QED
    BY <2>1, <2>2
<1>4. ASSUME NEW t \in Sender, Route(t) PROVE \A u \in Thread : Good(u)'
  <2>1. /\ call'[t].pc \in {"idle", "subject"}
        /\ \A u \in Thread : u # t => call'[u] = call[u]
    BY <1>4, RouteEffect
  <2>2. Good(t)'
    BY <2>1 DEF Good, At
  <2>3. QED
    BY <1>4, <1>k, <2>1, <2>2 DEF Route
<1>5. ASSUME NEW t \in Thread, ReadGeneration(t) PROVE \A u \in Thread : Good(u)'
  <2>1. /\ call'[t] = [call[t] EXCEPT !.pc = "check", !.generation = generation,
                                      !.met = NameAt(slots, call[t].edge) \cup Leaving]
        /\ \A u \in Thread : u # t => call'[u] = call[u]
        /\ UNCHANGED <<registry, subjects>>
    BY <1>5, BecomesEffect DEF ReadGeneration
  <2>2. /\ call'[t].pc = "check" /\ call'[t].generation = generation
        /\ call'[t].edge = call[t].edge
        /\ call'[t].met = NameAt(slots, call[t].edge) \cup Leaving
    BY <1>c, <2>1 DEF CallType
  <2>3. WillHit(t)' => IsCurrent(subjects.names)
    <3>1. ASSUME NEW u \in Thread, At(u, "label")', call'[u].generation = call'[t].generation
          PROVE  IsCurrent(subjects.names)
      BY <2>1, <2>2, <3>1 DEF At, TableCurrent
    <3>2. subjects'.generation = call'[t].generation => IsCurrent(subjects.names)
      BY <2>1, <2>2 DEF TableCurrent
    <3>3. QED
      BY <3>1, <3>2 DEF WillHit
  <2>4. IsCurrent(subjects.names) =>
            subjects.names[call[t].edge] \in NameAt(slots, call[t].edge) \cup Leaving \cup {None}
    BY <1>c DEF IsCurrent
  <2>5. NameAt(slots, call[t].edge)' = NameAt(slots, call[t].edge) /\ subjects' = subjects
    BY <2>1, <2>2 DEF NameAt, registry
  <2>6. Good(t)'
    BY <2>2, <2>3, <2>4, <2>5 DEF Good, At
  <2>7. QED
    BY <1>k, <2>1, <2>2, <2>6
<1>6. ASSUME NEW t \in Thread, Hit(t) PROVE \A u \in Thread : Good(u)'
  <2>1. /\ call'[t] = Answered(t) /\ \A u \in Thread : u # t => call'[u] = call[u]
        /\ UNCHANGED <<registry, subjects>>
    BY <1>6, BecomesEffect, AnsweredType DEF Hit
  <2>2. subjects.names[call[t].edge] \in call[t].met \cup {None}
    BY <1>6, <1>g DEF Hit, Good, WillHit
  <2>3. Good(t)'
    BY <2>1, <2>2, AnsweredType DEF Good, At
  <2>4. QED
    BY <1>k, <2>1, <2>3, AnsweredType
<1>7. ASSUME NEW t \in Thread, Miss(t) PROVE \A u \in Thread : Good(u)'
  <2>1. /\ call'[t] = [call[t] EXCEPT !.pc = "refill"]
        /\ \A u \in Thread : u # t => call'[u] = call[u]
        /\ UNCHANGED <<registry, subjects>> /\ call[t].pc = "check"
    BY <1>7, BecomesEffect DEF Miss, At
  <2>2. call'[t].pc = "refill" /\ call'[t].edge = call[t].edge /\ call'[t].met = call[t].met
    BY <1>c, <2>1 DEF CallType
  <2>3. NameAt(slots, call[t].edge)' = NameAt(slots, call[t].edge)
    BY <2>1, <2>2 DEF NameAt, registry
  <2>4. Good(t)'
    BY <1>g, <2>1, <2>2, <2>3 DEF Good, At
  <2>5. QED
    BY <1>k, <2>1, <2>2, <2>4
<1>8. ASSUME NEW t \in Thread, Refill(t) PROVE \A u \in Thread : Good(u)'
  <2>1. /\ call'[t] = [call[t] EXCEPT !.pc = "label"]
        /\ \A u \in Thread : u # t => call'[u] = call[u]
        /\ UNCHANGED registry /\ subjects'.names = Names /\ call[t].pc = "refill"
    BY <1>8, BecomesEffect DEF Refill, At, SinkTypeOK
  <2>2. call'[t].pc = "label" /\ call'[t].edge = call[t].edge /\ call'[t].met = call[t].met
    BY <1>c, <2>1 DEF CallType
  <2>3. ASSUME NEW u \in Thread PROVE Good(u)'
    <3>1. /\ call'[u].edge = call[u].edge /\ call'[u].met = call[u].met
          /\ u # t => call'[u] = call[u]
      BY <2>1, <2>2
    <3>2. NameAt(slots, call[u].edge)' = NameAt(slots, call[u].edge)
      BY <2>1, <3>1 DEF NameAt, registry
    <3>3. subjects'.names[call'[u].edge] \in NameAt(slots, call[u].edge) \cup {None}
      BY <1>c, <2>1, <3>1 DEF Names, NameAt
    <3>4. CASE u = t
      BY <1>g, <2>1, <2>2, <3>1, <3>2, <3>3, <3>4 DEF Good, At
    <3>5. CASE u # t
      BY <1>g, <3>1, <3>2, <3>3, <3>5 DEF Good, At
    <3>6. QED
      BY <3>4, <3>5
  <2>4. QED
    BY <2>3
<1>9. ASSUME NEW t \in Thread, Label(t) PROVE \A u \in Thread : Good(u)'
  <2>1. /\ call'[t] = Answered(t) /\ \A u \in Thread : u # t => call'[u] = call[u]
        /\ UNCHANGED registry /\ At(t, "label")
        /\ subjects'.names = subjects.names /\ subjects'.generation = call[t].generation
    BY <1>9, BecomesEffect, AnsweredType DEF Label, SinkTypeOK
  <2>2. Good(t)'
    BY <1>g, <2>1, AnsweredType DEF Good, At
  <2>3. ASSUME NEW u \in Thread, u # t PROVE Good(u)'
    <3>1. call'[u] = call[u]
      BY <2>1, <2>3
    <3>2. NameAt(slots, call[u].edge)' = NameAt(slots, call[u].edge)
      BY <2>1, <3>1 DEF NameAt, registry
    <3>3. \A w \in Thread : At(w, "label")' => At(w, "label") /\ call'[w] = call[w]
      BY <2>1, AnsweredType DEF At
    <3>4. WillHit(u)' => WillHit(u)
      BY <2>1, <3>1, <3>3 DEF WillHit
    <3>5. QED
      BY <1>g, <2>1, <3>1, <3>2, <3>4 DEF Good, At
  <2>4. QED
    BY <2>2, <2>3
<1>10. ASSUME NEW t \in Thread, Publish(t) PROVE \A u \in Thread : Good(u)'
  <2>1. /\ call'[t] = NoCall /\ \A u \in Thread : u # t => call'[u] = call[u]
        /\ UNCHANGED <<registry, subjects>>
    BY <1>10, BecomesEffect DEF Publish
  <2>2. call'[t].pc = "idle"
    BY <2>1 DEF NoCall
  <2>3. Good(t)'
    BY <2>2 DEF Good, At
  <2>4. QED
    BY <1>k, <2>1, <2>2, <2>3
<1>11. ASSUME Registry PROVE \A u \in Thread : Good(u)'
  <2>1. UNCHANGED subjects /\ Meet
    BY <1>11 DEF Registry
  <2>2. ASSUME NEW t \in Thread PROVE Good(t)'
    <3>1. /\ call'[t].pc = call[t].pc /\ call'[t].avatar = call[t].avatar
          /\ call'[t].edge = call[t].edge /\ call'[t].to = call[t].to
          /\ call[t].met \subseteq call'[t].met
          /\ call[t].pc \in {"check", "refill", "label"} =>
                NameAt(slots', call[t].edge) \subseteq call'[t].met
      BY <2>1, MeetEffect DEF RegistryAgrees
    <3>2. \A u \in Thread : /\ call'[u].generation = call[u].generation
                            /\ At(u, "label")' = At(u, "label")
      BY <2>1, MeetEffect DEF RegistryAgrees, At
    <3>3. WillHit(t)' = WillHit(t)
      BY <2>1, <3>2 DEF WillHit
    <3>4. NameAt(slots, call[t].edge)' = NameAt(slots', call[t].edge)
      BY <3>1 DEF NameAt
    <3>5. QED
      BY <1>g, <2>1, <3>1, <3>3, <3>4 DEF Good, At
  <2>3. QED
    BY <2>2
<1>12. ASSUME UNCHANGED sinkVars PROVE \A u \in Thread : Good(u)'
  BY <1>g, <1>12 DEF sinkVars, Good, At, WillHit, NameAt, registry
<1>13. QED
  BY <1>0, <1>1, <1>2, <1>3, <1>4, <1>5, <1>6, <1>7, <1>8, <1>9, <1>10, <1>11, <1>12
  DEF SinkNext, Subject

LEMMA SinkStarts == SinkInit => SinkInv
<1> SUFFICES ASSUME SinkInit PROVE SinkInv
  OBVIOUS
<1>1. RegistryAgrees /\ RegistryTypeOK
  BY RegistryStarts DEF SinkInit, RegistryAgrees
<1>2. \A t \in Thread : call[t].pc = "idle" /\ call[t].generation = 0
  BY DEF SinkInit, NoCall
<1>3. SinkTypeOK
  BY <1>1, SinkConstants DEF SinkInit, SinkTypeOK
<1>4. TableCurrent
  BY <1>2 DEF SinkInit, RegistryInit, TableCurrent, At
<1>5. CallsMeet /\ SubjectMet
  BY <1>2 DEF CallsMeet, SubjectMet, At
<1>6. QED
  BY <1>1, <1>3, <1>4, <1>5 DEF SinkInv

LEMMA SinkStep == SinkInv /\ [SinkNext]_sinkVars => SinkInv'
<1> SUFFICES ASSUME SinkInv, [SinkNext]_sinkVars PROVE SinkInv'
  OBVIOUS
<1>1. RegistryAgrees'
  BY SinkIsEdges, RegistryStep DEF SinkInv
<1>2. QED
  BY <1>1, SinkTypeStep, TableStep, MeetStep DEF SinkInv

THEOREM SinkInvInvariant == SinkSpec => []SinkInv
  BY SinkStarts, SinkStep, PTL DEF SinkSpec

(* Whoever looks for a subject does so with the id of an edge.             *)
THEOREM SinkTypeCorrect == SinkSpec => []SinkTypeOK
<1>1. SinkInv => SinkTypeOK
  BY DEF SinkInv
<1>2. QED
  BY <1>1, SinkInvInvariant, PTL

(* A table of subjects that bears the registry's generation is the         *)
(* registry's, for any number of threads that share it.                    *)
THEOREM SubjectsAlwaysCurrent == SinkSpec => []SubjectsCurrent
<1>1. SinkInv => SubjectsCurrent
  BY DEF SinkInv, TableCurrent, IsCurrent, SubjectsCurrent
<1>2. QED
  BY <1>1, SinkInvInvariant, PTL

(* Nobody is addressed who had left before the call of subject.            *)
THEOREM SubjectAlwaysMet == SinkSpec => []SubjectMet
<1>1. SinkInv => SubjectMet
  BY DEF SinkInv
<1>2. QED
  BY <1>1, SinkInvInvariant, PTL

=============================================================================
