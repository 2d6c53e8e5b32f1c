------------------------------- MODULE Edges -------------------------------
(***************************************************************************)
(* The edges relaying for one region and the entities each one manages:    *)
(* `Edges` of net/region/edges.rs.                                         *)
(*                                                                         *)
(* Three threads use it.  The command task of an edge calls admit, the     *)
(* tick thread calls claim, release and take_detached, and the sweep task  *)
(* calls expire.  Every method but edge_for and take_detached runs under   *)
(* the lock of `slots`, so it is one action here, with one exception:      *)
(* expire lets go of the lock between finding the silent edges and         *)
(* dropping each of them, and a drop clears the owners before it publishes *)
(* the orphans, which edge_for and take_detached can see.                  *)
(***************************************************************************)
EXTENDS Integers, FiniteSets

CONSTANTS
    EdgeName,       \* the names edges give themselves
    Entity,         \* entity ids of this region
    MaxSlots,       \* slots there can be: bounds the ids of edges
    MaxAccepted,    \* admissions there can be: bounds the counters
    None            \* a free slot

EdgeId == 0 .. (MaxSlots - 1)

(* Edge ids are dense from zero, so the top of the range is unreachable.   *)
UNOWNED == MaxSlots

(* `silent` is heard.elapsed() > after: the only thing read from a clock.  *)
EdgeRecord == [name : EdgeName, silent : BOOLEAN, entities : SUBSET Entity]

ASSUME EdgesAssumption ==
    /\ MaxSlots \in Nat \ {0}
    /\ MaxAccepted \in Nat
    /\ None \notin EdgeRecord
    /\ None \notin EdgeName

VARIABLES
    slots,          \* slots[i] is the record of edge i, or None
    owners,         \* owners[e] is the id of the edge managing e, or UNOWNED
    detached,       \* orphans waiting for the tick loop
    live,           \* edges attached
    accepted,       \* edges admitted so far
    generation,     \* changes to the set of edges so far
    stale,          \* the sweep: silent edges found and not dropped yet
    dropping        \* the sweep, holding the lock of slots: the record taken
                    \* out of its slot, whose orphans are not published yet

edgeVars == <<slots, owners, detached, live, accepted, generation>>
sweepVars == <<stale, dropping>>
registry == <<slots, owners, detached, live, accepted, generation, stale, dropping>>

-----------------------------------------------------------------------------
Attached == {i \in EdgeId : slots[i] # None}

SlotsFree == dropping = None

(* view: what the sink takes from it, the name of each edge.               *)
Names == [i \in EdgeId |-> IF slots[i] = None THEN None ELSE slots[i].name]

Orphaned == IF dropping = None THEN {} ELSE dropping.entities

(* edge_for: takes the lock of owners only, so it never waits for a drop.  *)
EdgeFor(e) == owners[e]

RegistryInit ==
    /\ slots = [i \in EdgeId |-> None]
    /\ owners = [e \in Entity |-> UNOWNED]
    /\ detached = {}
    /\ live = 0
    /\ accepted = 0
    /\ generation = 0
    /\ stale = {}
    /\ dropping = None

-----------------------------------------------------------------------------
(* admit, of an edge already known: the command shows that it is alive.    *)
Refresh(n, i) ==
    /\ SlotsFree
    /\ i \in Attached
    /\ slots[i].name = n
    /\ slots' = [slots EXCEPT ![i].silent = FALSE]
    /\ UNCHANGED <<owners, detached, live, accepted, generation, sweepVars>>

(* Mutants of AdmitNew: the search for the name is left out; the set is    *)
(* not known to have changed.                                              *)
AdmitUnchecked(n, i) ==
    /\ SlotsFree
    /\ accepted < MaxAccepted
    /\ i \in EdgeId \ Attached
    /\ slots' = [slots EXCEPT ![i] = [name |-> n, silent |-> FALSE, entities |-> {}]]
    /\ live' = live + 1
    /\ accepted' = accepted + 1
    /\ generation' = generation + 1
    /\ UNCHANGED <<owners, detached, sweepVars>>

AdmitQuietly(n, i) ==
    /\ SlotsFree
    /\ accepted < MaxAccepted
    /\ \A j \in Attached : slots[j].name # n
    /\ i \in EdgeId \ Attached
    /\ slots' = [slots EXCEPT ![i] = [name |-> n, silent |-> FALSE, entities |-> {}]]
    /\ live' = live + 1
    /\ accepted' = accepted + 1
    /\ UNCHANGED <<owners, detached, generation, sweepVars>>

(* admit, of an edge this region does not know: it takes the first free    *)
(* slot, which past the end of the vector is a slot pushed.                *)
AdmitNew(n, i) ==
    /\ SlotsFree
    /\ accepted < MaxAccepted
    /\ \A j \in Attached : slots[j].name # n
    /\ i \in EdgeId \ Attached
    /\ \A j \in EdgeId \ Attached : i <= j
    /\ slots' = [slots EXCEPT ![i] = [name |-> n, silent |-> FALSE, entities |-> {}]]
    /\ live' = live + 1
    /\ accepted' = accepted + 1
    /\ generation' = generation + 1
    /\ UNCHANGED <<owners, detached, sweepVars>>

(* admit returns i for the edge called n.                                  *)
Admit(n, i) == Refresh(n, i) \/ AdmitNew(n, i)

(* claim.  Repeating one's own claim is Ok and changes nothing.            *)
ClaimOk(i, e) == slots[i] # None /\ owners[e] \in {i, UNOWNED}

Claim(i, e) ==
    /\ SlotsFree
    /\ slots[i] # None
    /\ owners[e] = UNOWNED
    /\ owners' = [owners EXCEPT ![e] = i]
    /\ slots' = [slots EXCEPT ![i].entities = @ \cup {e}]
    /\ UNCHANGED <<detached, live, accepted, generation, sweepVars>>

(* Mutant of Release: the record of the edge keeps the entity.             *)
ReleaseOwnerOnly(e) ==
    /\ SlotsFree
    /\ owners[e] # UNOWNED
    /\ owners' = [owners EXCEPT ![e] = UNOWNED]
    /\ UNCHANGED <<slots, detached, live, accepted, generation, sweepVars>>

(* release: whichever edge held it.                                        *)
Release(e) ==
    /\ SlotsFree
    /\ owners[e] # UNOWNED
    /\ owners' = [owners EXCEPT ![e] = UNOWNED]
    /\ slots' = IF slots[owners[e]] = None
                THEN slots
                ELSE [slots EXCEPT ![owners[e]].entities = @ \ {e}]
    /\ UNCHANGED <<detached, live, accepted, generation, sweepVars>>

(* take_detached: under the lock of detached only.                         *)
TakeDetached ==
    /\ detached' = {}
    /\ UNCHANGED <<slots, owners, live, accepted, generation, sweepVars>>

-----------------------------------------------------------------------------
(* An edge says nothing for longer than the expiry.                        *)
GoSilent(i) ==
    /\ i \in Attached
    /\ ~slots[i].silent
    /\ slots' = [slots EXCEPT ![i].silent = TRUE]
    /\ UNCHANGED <<owners, detached, live, accepted, generation, sweepVars>>

(* Mutants of ExpireScan: slots counted from one; edges that manage        *)
(* nothing passed over.                                                    *)
ScanFromOne ==
    /\ SlotsFree
    /\ stale = {}
    /\ stale' = {i + 1 : i \in {j \in Attached : slots[j].silent}}
    /\ stale' # {}
    /\ UNCHANGED <<edgeVars, dropping>>

ScanManaging ==
    /\ SlotsFree
    /\ stale = {}
    /\ stale' = {i \in Attached : slots[i].silent /\ slots[i].entities # {}}
    /\ stale' # {}
    /\ UNCHANGED <<edgeVars, dropping>>

(* expire, first half: the silent edges, found under the lock of slots,    *)
(* which is then let go of.                                                *)
ExpireScan ==
    /\ SlotsFree
    /\ stale = {}
    /\ stale' = {i \in Attached : slots[i].silent}
    /\ stale' # {}
    /\ UNCHANGED <<edgeVars, dropping>>

(* Mutants of DetachOwners: the edge stays on the list; what it owned      *)
(* stays its own.                                                          *)
DetachStaysListed(i) ==
    /\ SlotsFree
    /\ i \in stale
    /\ slots[i] # None
    /\ dropping' = slots[i]
    /\ slots' = [slots EXCEPT ![i] = None]
    /\ owners' = [e \in Entity |-> IF owners[e] = i THEN UNOWNED ELSE owners[e]]
    /\ UNCHANGED <<detached, live, accepted, generation, stale>>

DetachKeepsOwners(i) ==
    /\ SlotsFree
    /\ i \in stale
    /\ slots[i] # None
    /\ dropping' = slots[i]
    /\ slots' = [slots EXCEPT ![i] = None]
    /\ stale' = stale \ {i}
    /\ UNCHANGED <<owners, detached, live, accepted, generation>>

(* detach, up to the release of the lock of owners.  The slot is in use:   *)
(* only the sweep empties slots (StaleAttached), so detach's early return  *)
(* is never taken.  Only what this edge still holds is cleared.            *)
DetachOwners(i) ==
    /\ SlotsFree
    /\ i \in stale
    /\ \A j \in stale : i <= j
    /\ slots[i] # None
    /\ dropping' = slots[i]
    /\ slots' = [slots EXCEPT ![i] = None]
    /\ owners' = [e \in Entity |->
                    IF e \in slots[i].entities /\ owners[e] = i
                    THEN UNOWNED ELSE owners[e]]
    /\ stale' = stale \ {i}
    /\ UNCHANGED <<detached, live, accepted, generation>>

(* Mutant of DetachPublish: the orphans are not handed over.               *)
DetachForgets ==
    /\ dropping # None
    /\ live' = live - 1
    /\ generation' = generation + 1
    /\ dropping' = None
    /\ UNCHANGED <<slots, owners, detached, accepted, stale>>

(* detach, the rest, still under the lock of slots.                        *)
DetachPublish ==
    /\ dropping # None
    /\ detached' = detached \cup dropping.entities
    /\ live' = live - 1
    /\ generation' = generation + 1
    /\ dropping' = None
    /\ UNCHANGED <<slots, owners, accepted, stale>>

Expire ==
    \/ ExpireScan
    \/ \E i \in EdgeId : DetachOwners(i)
    \/ DetachPublish

-----------------------------------------------------------------------------
RegistryNext ==
    \/ \E n \in EdgeName, i \in EdgeId : Admit(n, i)
    \/ \E i \in EdgeId, e \in Entity : Claim(i, e)
    \/ \E e \in Entity : Release(e)
    \/ TakeDetached
    \/ \E i \in EdgeId : GoSilent(i)
    \/ Expire

RegistrySpec == RegistryInit /\ [][RegistryNext]_registry

(* The sweep task runs every SWEEP for as long as the region does, and a   *)
(* lock somebody holds is let go of.                                       *)
RegistryFairSpec == RegistrySpec /\ WF_registry(Expire)
-----------------------------------------------------------------------------
(* The state is well formed.                                               *)
RegistryTypeOK ==
    /\ slots \in [EdgeId -> EdgeRecord \cup {None}]
    /\ owners \in [Entity -> EdgeId \cup {UNOWNED}]
    /\ detached \subseteq Entity
    /\ live \in Int
    /\ accepted \in Nat
    /\ generation \in Nat
    /\ stale \subseteq EdgeId
    /\ dropping \in EdgeRecord \cup {None}

(* The two indexes say the same thing, at every step of a drop too: the    *)
(* owner of an entity is an attached edge whose set has it, and no set has *)
(* an entity whose owner is another.  The router (EdgeSink) reads one and  *)
(* the sweep the other.                                                    *)
OwnersAgree ==
    /\ \A e \in Entity : owners[e] # UNOWNED => owners[e] \in Attached
    /\ \A i \in Attached : slots[i].entities = {e \in Entity : owners[e] = i}

(* No edge is in two slots, whatever the order of admissions and drops: an *)
(* edge admitted twice would be sent one viewer's packets twice.           *)
NamesDistinct ==
    \A i, j \in Attached : slots[i].name = slots[j].name => i = j

(* What expire found is still attached when it comes to drop it.  It does  *)
(* not check again, and a slot reused meanwhile would lose its new edge.   *)
StaleAttached == stale \subseteq Attached

(* The registry is in order at every step of an admission, a claim and a   *)
(* drop: well formed, its two indexes in agreement, no edge in two slots,  *)
(* and nothing dropped that has been dropped already.                      *)
RegistryAgrees == RegistryTypeOK /\ OwnersAgree /\ NamesDistinct /\ StaleAttached

(* The counters read without the lock count the set they are about, except *)
(* that an edge being dropped is counted until its orphans are published.  *)
CountersAgree ==
    /\ live = Cardinality(Attached) + (IF dropping = None THEN 0 ELSE 1)
    /\ generation + live = 2 * accepted

(* The registry keeps the promise of Ownership.  An entity is held by the  *)
(* edge its owner's slot names, so a slot reused before its owners were    *)
(* cleared would show as an entity changing hands without a claim; and an  *)
(* entity is lost from the moment its owner is cleared.                    *)
Holder == [e \in Entity |->
            IF owners[e] = UNOWNED THEN None ELSE slots[owners[e]].name]

O == INSTANCE Ownership WITH
        Manager <- EdgeName, Nobody <- None,
        holder <- Holder, lost <- Orphaned, orphans <- detached

ImplementsOwnership == O!Spec

(* An edge silent for good is dropped: silence is the only sign that an    *)
(* edge has gone, and its entities stand in the world until it is seen.    *)
SilentDropped ==
    \A n \in EdgeName :
        []<>~(\E i \in Attached : slots[i].name = n /\ slots[i].silent)

(* expire: "Drops every edge silent for longer than `after`".  An edge     *)
(* heard from between the scan and its drop is no longer one of those.     *)
OnlySilentDropped ==
    [][\A i \in Attached : slots'[i] = None => slots[i].silent]_registry
=============================================================================
