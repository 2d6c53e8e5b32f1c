---------------------------- MODULE GhostTable ----------------------------
(***************************************************************************)
(* Ghost records for one viewer: `GhostTable` of ghost.rs.  Open           *)
(* addressing with linear probing, held at or below half full, deletion by *)
(* backward shift, and an eviction that deletes while it scans once.       *)
(*                                                                         *)
(* One thread uses a table at a time.  An operation that loops is one      *)
(* action per turn of its loop, so that what holds in the middle of it can *)
(* be stated; nothing else is enabled until it is done.                    *)
(***************************************************************************)
EXTENDS Integers, FiniteSets

CONSTANTS
    HashRange,      \* 2^32 in the code: the products of an id and the multiplier
    Id,             \* entities.  Multiplying by an odd number modulo HashRange
                    \* is one to one, so an entity is named by its product.
    Mark,           \* odometer readings and ticks at which a ghost was sent
    MinSlots,       \* MIN_SLOTS, the smallest table that is allocated
    MaxSlots,       \* how far a table grows: bounds what a client can hold
    None            \* nothing

ASSUME GhostAssumption ==
    /\ HashRange \in Nat \ {0}
    /\ Id \subseteq 0 .. (HashRange - 1)
    /\ MinSlots \in Nat /\ MinSlots >= 2
    /\ MaxSlots \in Nat /\ MaxSlots >= MinSlots
    /\ None \notin Mark
    /\ None \notin Id
    /\ None \notin [id : Id, mark : Mark]

(* `due` is tick - last_seen > grace, which is all an eviction asks of the *)
(* two ticks; a mark stands for the reading and the tick of the last send. *)
Ghost == [id : Id, mark : Mark, due : BOOLEAN]

(* Ghost::VACANT.                                                          *)
Vacant == [id |-> None, mark |-> None, due |-> FALSE]

NoSlots == [i \in 0 .. -1 |-> Vacant]

VARIABLES
    cap,        \* slots allocated
    slots,      \* slots[i] is a ghost or Vacant, for i in 0 .. cap - 1
    len,        \* ghosts held
    departed,   \* entities this eviction has reported
    pc,         \* which loop is under way
    pending,    \* sent: what to record once the table has grown
    old,        \* rehash: the slots before it
    at,         \* rehash, evict: the slot the scan is at
    hole,       \* remove_at: the slot to fill
    probe       \* remove_at: the slot looked at (j)

tableVars == <<cap, slots, len>>
loopVars == <<pending, old, at, hole, probe>>
vars == <<cap, slots, len, departed, pc, pending, old, at, hole, probe>>

Slot == 0 .. (cap - 1)

(* reserve_one: room is made before it is known whether the entity is new. *)
Full == (len + 1) * 2 > cap

(* home: the high bits, as many as a table of n slots has.                 *)
Home(id, n) == (id * n) \div HashRange

(* Mutant of After: the table does not wrap.                               *)
AfterNoWrap(i) == i + 1

(* (i + 1) & mask.                                                         *)
After(i) == IF i + 1 = cap THEN 0 ELSE i + 1

(* (j - i) & mask: steps of a probe from slot i to slot j.                 *)
Steps(i, j) == IF i <= j THEN j - i ELSE j - i + cap

Taken(i) == slots[i] # Vacant

(* The slots a probe for id looks at before slot i.                        *)
Before(id, i) == {k \in Slot : Steps(Home(id, cap), k) < Steps(Home(id, cap), i)}

(* find: the first slot from home that has the entity or is vacant.        *)
Finds(id, i) ==
    /\ i \in Slot
    /\ slots[i].id = id \/ ~Taken(i)
    /\ \A k \in Before(id, i) : Taken(k) /\ slots[k].id # id

-----------------------------------------------------------------------------
Init ==
    /\ cap \in {0, MinSlots}
    /\ slots = [i \in Slot |-> Vacant]
    /\ len = 0
    /\ departed = {}
    /\ pc = "idle"
    /\ pending = Vacant
    /\ old = NoSlots
    /\ at = 0
    /\ hole = 0
    /\ probe = 0

(* sent, with reserve_one: the table grows by one doubling at most, as it  *)
(* was at most half full before.                                           *)
Grown == IF cap = 0 THEN MinSlots ELSE 2 * cap

Sent(id, m) ==
    /\ pc = "idle"
    /\ pending' = [id |-> id, mark |-> m, due |-> FALSE]
    /\ \/ /\ ~Full
          /\ pc' = "place"
          /\ UNCHANGED <<cap, slots, old, at>>
       \/ /\ Full
          /\ Grown <= MaxSlots
          /\ pc' = "rehash"
          /\ old' = slots
          /\ at' = 0
          /\ cap' = Grown
          /\ slots' = [i \in 0 .. (Grown - 1) |-> Vacant]
    /\ UNCHANGED <<len, departed, hole, probe>>

(* rehash: the old slots one after another, each ghost to the first vacant *)
(* slot from its new home.                                                 *)
Rehash ==
    /\ pc = "rehash"
    /\ at \in DOMAIN old
    /\ \/ old[at] = Vacant /\ UNCHANGED slots
       \/ \E i \in Slot :
            /\ old[at] # Vacant
            /\ ~Taken(i)
            /\ \A k \in Before(old[at].id, i) : Taken(k)
            /\ slots' = [slots EXCEPT ![i] = old[at]]
    /\ at' = at + 1
    /\ UNCHANGED <<cap, len, departed, pc, pending, old, hole, probe>>

(* Mutant of Rehashed: the last slot is left out.                          *)
RehashedEarly ==
    /\ pc = "rehash"
    /\ at + 1 \notin DOMAIN old
    /\ pc' = "place"
    /\ old' = NoSlots
    /\ at' = 0
    /\ UNCHANGED <<tableVars, departed, pending, hole, probe>>

Rehashed ==
    /\ pc = "rehash"
    /\ at \notin DOMAIN old
    /\ pc' = "place"
    /\ old' = NoSlots
    /\ at' = 0
    /\ UNCHANGED <<tableVars, departed, pending, hole, probe>>

(* Mutant of Place: a ghost sent again is counted again.                   *)
PlaceCounts ==
    /\ pc = "place"
    /\ \E i \in Slot :
         /\ Finds(pending.id, i)
         /\ slots' = [slots EXCEPT ![i] = pending]
         /\ len' = len + 1
    /\ pc' = "idle"
    /\ pending' = Vacant
    /\ UNCHANGED <<cap, departed, old, at, hole, probe>>

(* sent, the rest: the ghost is written where find stops.                  *)
Place ==
    /\ pc = "place"
    /\ \E i \in Slot :
         /\ Finds(pending.id, i)
         /\ slots' = [slots EXCEPT ![i] = pending]
         /\ len' = IF Taken(i) THEN len ELSE len + 1
    /\ pc' = "idle"
    /\ pending' = Vacant
    /\ UNCHANGED <<cap, departed, old, at, hole, probe>>

(* seen: nothing is created for a candidate that is not held.              *)
Seen(id) ==
    /\ pc = "idle"
    /\ \E i \in Slot :
         /\ Finds(id, i)
         /\ Taken(i)
         /\ slots' = [slots EXCEPT ![i].due = FALSE]
    /\ UNCHANGED <<cap, len, departed, pc, loopVars>>

(* The grace of a ghost passes.  The tick does not change in an eviction.  *)
Pass(i) ==
    /\ pc = "idle"
    /\ Taken(i)
    /\ slots' = [slots EXCEPT ![i].due = TRUE]
    /\ UNCHANGED <<cap, len, departed, pc, loopVars>>

(* evict; the caller hands in an empty list.                               *)
Evict ==
    /\ pc = "idle"
    /\ pc' = "evict"
    /\ UNCHANGED <<tableVars, departed, loopVars>>

Keep ==
    /\ pc = "evict"
    /\ at \in Slot
    /\ ~slots[at].due
    /\ at' = at + 1
    /\ UNCHANGED <<tableVars, departed, pc, pending, old, hole, probe>>

(* Mutant of Remove: the scan goes on behind the slot it emptied.          *)
RemoveGoesOn ==
    /\ pc = "evict"
    /\ at \in Slot
    /\ slots[at].due
    /\ departed' = departed \cup {slots[at].id}
    /\ slots' = [slots EXCEPT ![at] = Vacant]
    /\ len' = len - 1
    /\ hole' = at
    /\ probe' = After(at)
    /\ at' = at + 1
    /\ pc' = "shift"
    /\ UNCHANGED <<cap, pending, old>>

(* evict pushes the id and calls remove_at.  The scan stays where it is,   *)
(* as remove_at may shift an entry into the slot.                          *)
Remove ==
    /\ pc = "evict"
    /\ at \in Slot
    /\ slots[at].due
    /\ departed' = departed \cup {slots[at].id}
    /\ slots' = [slots EXCEPT ![at] = Vacant]
    /\ len' = len - 1
    /\ hole' = at
    /\ probe' = After(at)
    /\ pc' = "shift"
    /\ UNCHANGED <<cap, pending, old, at>>

(* Mutant of OnPath: a path that wraps is taken for one that does not.     *)
OnPathUnwrapped ==
    LET h == Home(slots[probe].id, cap) IN h <= hole /\ hole <= probe

(* The hole lies on the path from home to the entry looked at.             *)
OnPath ==
    Steps(Home(slots[probe].id, cap), probe) >= Steps(hole, probe)

(* remove_at, a turn of its loop: the entry fills the hole and leaves one, *)
Fill ==
    /\ pc = "shift"
    /\ Taken(probe)
    /\ OnPath
    /\ slots' = [slots EXCEPT ![hole] = slots[probe], ![probe] = Vacant]
    /\ hole' = probe
    /\ probe' = After(probe)
    /\ UNCHANGED <<cap, len, departed, pc, pending, old, at>>

(* Mutant of Skip: a `continue` that passes over the end of the loop.      *)
SkipContinues ==
    /\ pc = "shift"
    /\ Taken(probe)
    /\ ~OnPath
    /\ UNCHANGED vars

(* ... or stays.                                                           *)
Skip ==
    /\ pc = "shift"
    /\ Taken(probe)
    /\ ~OnPath
    /\ probe' = After(probe)
    /\ UNCHANGED <<tableVars, departed, pc, pending, old, at, hole>>

Shifted ==
    /\ pc = "shift"
    /\ ~Taken(probe)
    /\ pc' = "evict"
    /\ hole' = 0
    /\ probe' = 0
    /\ UNCHANGED <<tableVars, departed, pending, old, at>>

(* The caller takes what was reported.                                     *)
Evicted ==
    /\ pc = "evict"
    /\ at \notin Slot
    /\ pc' = "idle"
    /\ at' = 0
    /\ departed' = {}
    /\ UNCHANGED <<tableVars, pending, old, hole, probe>>

(* clear: the allocation stays.                                            *)
Clear ==
    /\ pc = "idle"
    /\ slots' = [i \in Slot |-> Vacant]
    /\ len' = 0
    /\ UNCHANGED <<cap, departed, pc, loopVars>>

-----------------------------------------------------------------------------
(* The rest of an operation.                                               *)
Loop ==
    \/ Rehash
    \/ Rehashed
    \/ Place
    \/ Keep
    \/ Remove
    \/ Fill
    \/ Skip
    \/ Shifted
    \/ Evicted

Next ==
    \/ \E id \in Id, m \in Mark : Sent(id, m)
    \/ \E id \in Id : Seen(id)
    \/ \E i \in Slot : Pass(i)
    \/ Evict
    \/ Clear
    \/ Loop

Spec == Init /\ [][Next]_vars

(* An operation that was called runs.                                      *)
FairSpec == Spec /\ WF_vars(Loop)

-----------------------------------------------------------------------------
(* The state is well formed.                                               *)
TypeOK ==
    /\ cap \in {0} \cup MinSlots .. MaxSlots
    /\ slots \in [Slot -> Ghost \cup {Vacant}]
    /\ len \in 0 .. MaxSlots
    /\ departed \subseteq Id
    /\ pc \in {"idle", "rehash", "place", "evict", "shift"}
    /\ pending \in Ghost \cup {Vacant}
    /\ \E n \in 0 .. MaxSlots : old \in [0 .. (n - 1) -> Ghost \cup {Vacant}]
    /\ at \in 0 .. MaxSlots
    /\ hole \in 0 .. MaxSlots
    /\ probe \in 0 .. MaxSlots
    /\ pc = "shift" => {at, hole, probe} \subseteq Slot

(* Every ghost is where a probe for it stops, whenever one can be made: an *)
(* entry behind a vacant slot of its path would be taken for unknown, sent *)
(* as new, and be in the table twice.                                      *)
Findable ==
    pc \in {"idle", "place", "evict"} =>
        \A i \in Slot : Taken(i) => Finds(slots[i].id, i)

(* find: "Terminates because the table is never more than half full."  So  *)
(* it is, and len, by which it is known, counts the ghosts there are.      *)
HalfFull ==
    /\ 2 * len <= cap
    /\ pc # "rehash" => len = Cardinality({i \in Slot : Taken(i)})

(* evict: "One forward pass suffices."  What the scan has passed, it would *)
(* keep again, whatever remove_at has moved meanwhile.                     *)
PassedStay ==
    pc \in {"evict", "shift"} => \A i \in Slot : i < at => ~slots[i].due

(* The table is sound between any two steps of its loops: every ghost can  *)
(* be found, there is room to stop a probe, and one pass of an eviction is *)
(* enough.                                                                 *)
TableSound == TypeOK /\ Findable /\ HalfFull /\ PassedStay

(* The table is a map, an eviction takes what is due, all of it and        *)
(* nothing else, and reports it.                                           *)
Copies ==
    {g \in {slots[i] : i \in Slot}
           \cup {old[k] : k \in {n \in DOMAIN old : at <= n}} : g # Vacant}

Held == [id \in Id |->
           IF \E g \in Copies : g.id = id
           THEN (CHOOSE g \in Copies : g.id = id).mark ELSE None]

Away == {g.id : g \in {c \in Copies : c.due}}

G == INSTANCE Ghosts WITH
        held <- Held, away <- Away, evicting <- pc \in {"evict", "shift"}

ImplementsGhosts == G!Spec

(* Every operation returns: probes, shifts and scans come to an end.       *)
OperationsEnd == [](pc # "idle" => <>(pc = "idle"))
=============================================================================
