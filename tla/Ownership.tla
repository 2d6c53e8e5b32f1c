----------------------------- MODULE Ownership -----------------------------
(***************************************************************************)
(* What one region's edge registry promises, without its slots, locks or   *)
(* sweep: every entity has at most one edge managing it; an edge that goes *)
(* away loses all of its entities in one step; and all of what it lost is  *)
(* handed to the tick loop, which alone takes it.                          *)
(*                                                                         *)
(* Edges implements this specification (Edges!ImplementsOwnership).        *)
(***************************************************************************)
CONSTANTS
    Entity,     \* entities a region has ever spawned
    Manager,    \* whatever an entity can be managed by
    Nobody      \* the manager of an entity nobody manages

VARIABLES
    holder,     \* holder[e] is the manager of entity e, or Nobody
    lost,       \* entities of a manager that is going away
    orphans     \* entities of managers that are gone, waiting for the tick loop

vars == <<holder, lost, orphans>>

HeldBy(m) == {e \in Entity : holder[e] = m}

Init ==
    /\ holder = [e \in Entity |-> Nobody]
    /\ lost = {}
    /\ orphans = {}

(* A manager takes an entity nobody manages.                               *)
Claim(m, e) ==
    /\ holder[e] = Nobody
    /\ holder' = [holder EXCEPT ![e] = m]
    /\ UNCHANGED <<lost, orphans>>

(* An entity is given up, whichever manager had it.                        *)
GiveUp(e) ==
    /\ holder[e] # Nobody
    /\ holder' = [holder EXCEPT ![e] = Nobody]
    /\ UNCHANGED <<lost, orphans>>

(* A manager goes away: nothing of what it had stays with it, *)
Lose(m) ==
    /\ holder' = [e \in Entity |-> IF holder[e] = m THEN Nobody ELSE holder[e]]
    /\ lost' = lost \cup HeldBy(m)
    /\ UNCHANGED orphans

(* ... and nothing of what it had is forgotten.                            *)
Orphan ==
    /\ orphans' = orphans \cup lost
    /\ lost' = {}
    /\ UNCHANGED holder

(* The tick loop takes the orphans, all of them.                           *)
Collect ==
    /\ orphans' = {}
    /\ UNCHANGED <<holder, lost>>

Next ==
    \/ \E m \in Manager, e \in Entity : Claim(m, e)
    \/ \E e \in Entity : GiveUp(e)
    \/ \E m \in Manager : Lose(m)
    \/ Orphan
    \/ Collect

Spec == Init /\ [][Next]_vars
=============================================================================
