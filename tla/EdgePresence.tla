---------------------------- MODULE EdgePresence ----------------------------
(***************************************************************************)
(* The reader of an edge server: what it makes of what the regions report, *)
(* with the second half of a teleport (on_presence and complete_teleport   *)
(* of net/edge/handle.rs).                                                 *)
(***************************************************************************)
EXTENDS EdgeState

(* The reader: on_presence.                                                *)
Reads(r, what) ==
    /\ At("reader", "idle")
    /\ presence[r] # <<>>
    /\ presence[r][1].what = what
    /\ presence' = [presence EXCEPT ![r] = Tail(@)]
    /\ UNCHANGED <<inbox, alive, heard, events>>

(* Added, for what the edge no longer holds: given back.                   *)
AddedUnknown(r) ==
    LET k == presence[r][1].key IN
    /\ Reads(r, "added")
    /\ ~Held(k)
    /\ Send(<<Despawning(r, k)>>)
    /\ UNCHANGED <<edge, job, aside>>

(* Added: the entity has its id, and if it replaces another, a teleport is *)
(* to complete.                                                            *)
Added(r) ==
    LET k == presence[r][1].key IN
    /\ Reads(r, "added")
    /\ Held(k)
    /\ ent' = [ent EXCEPT ![k].id = TRUE, ![k].replaces = None]
    /\ byId' = byId \cup {k}
    /\ Then("reader",
            [pc |-> IF ent[k].replaces = None THEN "greet" ELSE "remap",
             key |-> k, other |-> ent[k].replaces, client |-> ent[k].client,
             handle |-> ent[k].handle, dest |-> r, shadow |-> ent[k].shadowOf # None])
    /\ UNCHANGED <<clients, minted, transits, carried, outbound, aside>>

(* Its client is told, then the game, of a shadow neither.                 *)
Tell(c, h, what) ==
    shown' = IF c # None /\ h # None /\ clients[c] # None
             THEN [shown EXCEPT ![<<c, h>>] = what] ELSE shown

Greet ==
    LET j == job["reader"] IN
    /\ At("reader", "greet")
    /\ Tell(j.client, j.handle, "spawned")
    /\ IF j.shadow THEN UNCHANGED late ELSE Call(j.client)
    /\ Rest("reader")
    /\ UNCHANGED <<edge, outbound, regions, given, talk, ended, panicked>>

(* complete_teleport, the entity that left gone meanwhile: the copy goes   *)
(* too.                                                                    *)
CopyOrphaned ==
    LET j == job["reader"] IN
    /\ At("reader", "remap")
    /\ ~Held(j.other)
    /\ Send(<<Despawning(j.dest, j.key)>>)
    /\ Then("reader", [pc |-> "forget", victim |-> j.key, next |-> "landed", other |-> None])
    /\ UNCHANGED <<edge, world>>

(* Mutant of Remapped: the handle is not moved.                            *)
RemappedBare(k, old) == [ent EXCEPT ![old] = None]

(* Else the handle is moved onto the copy, and the old record goes.  The   *)
(* copy not being there is a panic, with the lock of entities held.        *)
Remapped(k, old) ==
    LET h == ent[old].handle IN
    IF h = None THEN [ent EXCEPT ![old] = None]
    ELSE [ent EXCEPT ![old] = None, ![k].handle = h]

Remap ==
    LET j == job["reader"]
        k == j.key
        old == j.other
        h == ent[old].handle IN
    /\ At("reader", "remap")
    /\ Held(old)
    /\ h = None \/ Held(k)
    /\ ent' = Remapped(k, old)
    /\ byId' = byId \ {old}
    /\ Then("reader",
            [pc |-> "todo", todo |-> ent[old].shadows, after |-> "landed", handle |-> h,
             word |-> ent[old].standing, words |-> ent[old].held,
             reach |-> IF ent[old].id THEN {ent[old].region} ELSE {}])
    /\ OnlyHeld

Panic ==
    LET j == job["reader"] IN
    /\ At("reader", "remap")
    /\ Held(j.other) /\ ent[j.other].handle # None /\ ~Held(j.key)
    /\ panicked' = TRUE
    /\ UNCHANGED <<edge, outbound, job, regions, shown, given, talk, calls>>

(* Either way the teleport is no longer in flight, *)
Landed ==
    LET j == job["reader"] IN
    /\ At("reader", "landed")
    /\ transits' = {x \in transits : x[2] # j.key}
    /\ IF j.other = None THEN Rest("reader") ELSE Then("reader", [pc |-> "rehandle"])
    /\ OnlyTransits

(* Mutant of Rehandled: the handle still leads to the old entity.          *)
RehandledKeys(c, h, k, old) ==
    IF c = None \/ h = None \/ clients[c] = None THEN clients
    ELSE [clients EXCEPT ![c].keys = @ \ {old}]

(* ... the client's handle leads to the copy, *)
Rehandled(c, h, k, old) ==
    IF c = None \/ h = None \/ clients[c] = None THEN clients
    ELSE [clients EXCEPT ![c].handles[h] = k, ![c].keys = @ \ {old}]

Rehandle ==
    LET j == job["reader"] IN
    /\ At("reader", "rehandle")
    /\ clients' = Rehandled(j.client, j.handle, j.key, j.other)
    /\ Then("reader", [pc |-> "resend"])
    /\ OnlyClients

(* Mutant of Leaves: the origin is not told.                               *)
LeavesNothing(reach, old) == <<>>

(* ... the old entity is despawned where it is, *)
Leaves(reach, old) ==
    IF reach = {} THEN <<>> ELSE <<Despawning(CHOOSE r \in reach : TRUE, old)>>

(* Mutant of Repeats: what was held is left out.                           *)
RepeatsStanding(word, hold) == IF word = 0 THEN <<>> ELSE <<word>>

(* ... the destination told what it was told last, then what was held, *)
Repeats(word, hold) == (IF word = 0 THEN <<>> ELSE <<word>>) \o hold

Resend ==
    LET j == job["reader"] IN
    /\ At("reader", "resend")
    /\ Send(Leaves(j.reach, j.other) \o Messages(j.dest, j.key, Repeats(j.word, j.words)))
    /\ Then("reader", [pc |-> "stand"])
    /\ UNCHANGED <<edge, world>>

(* ... the copy keeps what stands, *)
Stand ==
    LET j == job["reader"] IN
    /\ At("reader", "stand")
    /\ ent' = IF j.word # 0 /\ Held(j.key) THEN [ent EXCEPT ![j.key].standing = j.word] ELSE ent
    /\ Then("reader", [pc |-> "arrive"])
    /\ OnlyEnt

(* ... and client and game are told.                                       *)
Arrive ==
    LET j == job["reader"] IN
    /\ At("reader", "arrive")
    /\ Tell(j.client, j.handle, "spawned")
    /\ carried' = carried \ {j.key}
    /\ Call(j.client)
    /\ Rest("reader")
    /\ UNCHANGED <<held, clients, minted, transits, outbound, regions, given, talk, ended, panicked>>

(* Removed: nothing, unless the region's name for it is known; *)
RemovedUnknown(r) ==
    /\ Reads(r, "removed")
    /\ presence[r][1].key \notin byId
    /\ UNCHANGED <<edge, outbound, job, aside>>

(* ... else it is forgotten; *)
Removed(r) ==
    LET k == presence[r][1].key IN
    /\ Reads(r, "removed")
    /\ k \in byId
    /\ Drop(k)
    /\ Then("reader",
            [pc |-> "unbind", victim |-> k, of |-> <<ent[k].client, ent[k].handle>>,
             client |-> ent[k].client, handle |-> ent[k].handle,
             other |-> ent[k].shadowOf, todo |-> ent[k].shadows,
             next |-> IF ent[k].shadowOf = None THEN "todo" ELSE "unlist",
             after |-> "notify"])
    /\ UNCHANGED <<clients, minted, transits, carried, outbound, aside>>

(* Mutant of Unlisted: the shadow stays on the list.                       *)
UnlistedNot(owner, k) == ent

(* ... a shadow comes off its owner's list, and that is all; *)
Unlisted(owner, k) ==
    IF Held(owner) THEN [ent EXCEPT ![owner].shadows = @ \ {k}] ELSE ent

Unlist ==
    LET j == job["reader"] IN
    /\ At("reader", "unlist")
    /\ ent' = Unlisted(j.other, j.victim)
    /\ Rest("reader")
    /\ OnlyEnt

(* Mutant of Notify: a leaving client is not looked at.                    *)
NotifyOnly ==
    LET j == job["reader"] IN
    /\ At("reader", "notify")
    /\ Tell(j.client, j.handle, "no")
    /\ Call(j.client)
    /\ Rest("reader")
    /\ UNCHANGED <<edge, outbound, regions, given, talk, ended, panicked>>

(* ... of any other, once its shadows are released, client and game are    *)
(* told, and a leaving client may have gone.                               *)
Notify ==
    LET j == job["reader"] IN
    /\ At("reader", "notify")
    /\ Tell(j.client, j.handle, "no")
    /\ Call(j.client)
    /\ IF j.client = None THEN Rest("reader") ELSE Then("reader", [pc |-> "finish"])
    /\ UNCHANGED <<edge, outbound, regions, given, talk, ended, panicked>>

(* BoundaryCollision: the entity crosses, by a teleport.                   *)
Boundary(r) ==
    LET k == presence[r][1].key
        crosses == k \in byId /\ ent[k].shadowOf = None /\ ~ent[k].doomed /\ ent[k].to = None IN
    /\ Reads(r, "cross")
    /\ IF crosses
       THEN \E d \in presence[r][1].to : Then("reader", [pc |-> "begin", key |-> k, dest |-> d])
       ELSE UNCHANGED job
    /\ UNCHANGED <<edge, outbound, aside>>

(* ViewCollision: a shadow is to stand in each region of the view.         *)
ViewCollision(r) ==
    LET k == presence[r][1].key IN
    /\ Reads(r, "view")
    /\ IF k \in byId /\ ent[k].shadowOf = None
       THEN Then("reader", [pc |-> "view", key |-> k, client |-> ent[k].client,
                            reach |-> presence[r][1].to,
                            had |-> {<<s, ent[s].region>> : s \in {x \in ent[k].shadows : Held(x)}}])
       ELSE UNCHANGED job
    /\ UNCHANGED <<edge, outbound, aside>>

(* One that stands there already is kept, *)
KeepShadow ==
    LET j == job["reader"] IN
    /\ At("reader", "view")
    /\ \E x \in j.had :
        /\ x[2] \in j.reach
        /\ Then("reader", [reach |-> j.reach \ {x[2]}, keep |-> j.keep \cup {x[1]}])
    /\ OnlyJob

(* ... one that does not is asked for.                                     *)
AskShadow ==
    LET j == job["reader"] IN
    /\ At("reader", "view")
    /\ \E d \in j.reach :
        /\ \A x \in j.had : x[2] # d
        /\ Record(j.client, None, d, j.key)
        /\ Then("reader", [pc |-> "ask", other |-> minted, dest |-> d,
                           reach |-> j.reach \ {d}, keep |-> j.keep \cup {minted},
                           next |-> "view"])
    /\ OnlyAsked

(* The others are released, and the owner has the new list.                *)
ViewSeen ==
    LET j == job["reader"] IN
    /\ At("reader", "view")
    /\ j.reach = {}
    /\ Then("reader", [pc |-> "todo", todo |-> {x[1] : x \in j.had} \ j.keep, after |-> "list"])
    /\ OnlyJob

List ==
    LET j == job["reader"] IN
    /\ At("reader", "list")
    /\ ent' = IF Held(j.key) THEN [ent EXCEPT ![j.key].shadows = j.keep] ELSE ent
    /\ Rest("reader")
    /\ OnlyEnt

(* ViewCleared: all of them are released.                                  *)
ViewCleared(r) ==
    LET k == presence[r][1].key IN
    /\ Reads(r, "cleared")
    /\ IF k \in byId
       THEN /\ ent' = [ent EXCEPT ![k].shadows = {}]
            /\ Then("reader", [pc |-> "todo", todo |-> ent[k].shadows])
       ELSE UNCHANGED <<ent, job>>
    /\ UNCHANGED <<byId, clients, minted, transits, carried, outbound, aside>>
=============================================================================
