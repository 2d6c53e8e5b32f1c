------------------------------- MODULE Ghosts -------------------------------
(***************************************************************************)
(* What a ghost table promises, without its slots and probes: a map from   *)
(* entities to what was last sent of each, from which an eviction takes    *)
(* those that have been away for longer than the grace, all of them and no *)
(* others, and reports each.                                               *)
(*                                                                         *)
(* GhostTable implements this specification (GhostTable!ImplementsGhosts). *)
(***************************************************************************)
CONSTANTS
    Id,         \* entities
    Mark,       \* what can have been sent of one
    None        \* not held

VARIABLES
    held,       \* held[id] is what was last sent of entity id, or None
    away,       \* entities held that were no candidate within the grace
    departed,   \* entities the eviction under way has reported
    evicting    \* an eviction is under way

ghostVars == <<held, away, departed, evicting>>

Init ==
    /\ held = [id \in Id |-> None]
    /\ away = {}
    /\ departed = {}
    /\ evicting = FALSE

(* An entity is sent, which makes it held.                                 *)
Sent(id, m) ==
    /\ ~evicting
    /\ held' = [held EXCEPT ![id] = m]
    /\ away' = away \ {id}
    /\ UNCHANGED <<departed, evicting>>

(* A candidate that is not sent is only looked at.                         *)
Seen(id) ==
    /\ ~evicting
    /\ away' = away \ {id}
    /\ UNCHANGED <<held, departed, evicting>>

(* The grace of an entity held passes.                                     *)
GoAway(id) ==
    /\ ~evicting
    /\ held[id] # None
    /\ away' = away \cup {id}
    /\ UNCHANGED <<held, departed, evicting>>

Evict ==
    /\ ~evicting
    /\ evicting' = TRUE
    /\ UNCHANGED <<held, away, departed>>

(* Nothing leaves unreported, *)
Depart(id) ==
    /\ evicting
    /\ id \in away
    /\ held' = [held EXCEPT ![id] = None]
    /\ away' = away \ {id}
    /\ departed' = departed \cup {id}
    /\ UNCHANGED evicting

(* ... and nothing that is due stays.                                      *)
Evicted ==
    /\ evicting
    /\ away = {}
    /\ evicting' = FALSE
    /\ departed' = {}
    /\ UNCHANGED <<held, away>>

Clear ==
    /\ ~evicting
    /\ held' = [id \in Id |-> None]
    /\ away' = {}
    /\ UNCHANGED <<departed, evicting>>

Next ==
    \/ \E id \in Id, m \in Mark : Sent(id, m)
    \/ \E id \in Id : Seen(id) \/ GoAway(id) \/ Depart(id)
    \/ Evict
    \/ Evicted
    \/ Clear

Spec == Init /\ [][Next]_ghostVars
=============================================================================
