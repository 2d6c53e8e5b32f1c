--------------------------- MODULE RegionSession ---------------------------
(***************************************************************************)
(* What a region does with the commands of its edges: `Inbound` of         *)
(* net/region/session.rs, the command task of net/region/server.rs, the    *)
(* entities and viewers of sim/world.rs, all over the registry of Edges.   *)
(*                                                                         *)
(* Three threads.  The reader admits the sender of a command and queues    *)
(* it.  The sweep drops silent edges (Edges).  The tick thread runs        *)
(* Game::step, in which Inbound::apply takes the orphans and the queued    *)
(* commands, and then, between ticks, Inbound::settle, which drops and     *)
(* registers viewers and answers the edges.  What only the tick thread     *)
(* touches is one step with the access to the registry next to it; two     *)
(* accesses to the registry are two steps.                                 *)
(*                                                                         *)
(* A command that names several entities is a run of commands here: apply  *)
(* handles the elements of one one by one.  Positions, names, tags and the *)
(* collisions a tick reports are left out.                                 *)
(***************************************************************************)
EXTENDS Edges, Sequences

CONSTANTS
    MaxEntities,    \* spawns the edges may ask for: bounds the entity ids
    MaxCommands,    \* commands the edges may send
    GameDespawns    \* what the game despawns of its own accord: "nothing",
                    \* entities of "earlier" steps, or "anything" alive

Viewer == Entity            \* no more viewers at a time than entities
NO_WATCHER == MaxEntities   \* reserved: no viewer
NO_AVATAR == MaxEntities    \* reserved: no entity

VARIABLES
    reading,        \* the reader: a command whose sender is admitted, or None
    queue,          \* commands waiting for the tick
    sent,           \* commands sent by the edges so far
    asked,          \* spawns asked for so far: the next request token
    pc,             \* where the tick thread is
    batch,          \* apply: commands taken and not handled yet
    writes,         \* apply: moves to make once the commands are handled
    alive,          \* the entities alive
    spawned,        \* entities spawned so far: the next id
    despawned,      \* despawned this tick, as settle has yet to look at
    fresh,          \* spawned by apply, not answered yet
    gone,           \* despawned by apply, not retired yet
    retiring,       \* settle: what its current step is about, or None
    viewers,        \* viewers[v] is the avatar of v, or NO_AVATAR if v is free
    watchers,       \* watchers[e] is the viewer of e, or NO_WATCHER
    cached,         \* the names of the edges as the sink last read them
    published       \* published[e]: the presence messages about e, in order

reader == <<reading, queue, sent, asked>>
applying == <<batch, writes>>
world == <<alive, spawned, despawned>>
session == <<fresh, gone, retiring, viewers, watchers, cached, published>>
vars == <<registry, reader, pc, applying, world, session>>

Spawns == {"SpawnObserver", "SpawnUnattended", "SpawnOutside"}

(* A command whose sender has been admitted as edge `edge`.                *)
CommandType ==
    [kind : {"Despawn", "Move"} \cup Spawns \cup {"Keepalive"}, from : EdgeName,
     id : Entity, edge : EdgeId]

RetiringType == [edge : EdgeId, id : Entity]

PresenceType ==
    [what : {"Added", "Removed"}, to : EdgeName, asker : EdgeName \cup {None}]

(* Entity ids are dense from zero.  None is told from all it stands beside. *)
ASSUME SessionAssumption ==
    /\ MaxEntities \in Nat \ {0}
    /\ Entity = 0 .. (MaxEntities - 1)
    /\ MaxCommands \in Nat
    /\ GameDespawns \in {"nothing", "earlier", "anything"}
    /\ None \notin EdgeId /\ None \notin CommandType /\ None \notin RetiringType

(* Entity ids the edges know of: any they were told, their own or not.     *)
Announced == {e \in Entity : published[e] # <<>>}

(* The commands edge n may send now.  A spawn carries a request token in   *)
(* place of an id.  `from` is who really sent it: apply sees an edge id.   *)
Commands(n) ==
    {[kind |-> k, from |-> n, id |-> e] : k \in {"Despawn", "Move"}, e \in Announced}
    \cup {[kind |-> "Keepalive", from |-> n, id |-> 0]}
    \cup {[kind |-> k, from |-> n, id |-> asked] :
            k \in IF asked < MaxEntities THEN Spawns ELSE {}}

Init ==
    /\ RegistryInit
    /\ reading = None
    /\ queue = <<>>
    /\ sent = 0
    /\ asked = 0
    /\ pc = "between"
    /\ batch = <<>>
    /\ writes = {}
    /\ alive = {}
    /\ spawned = 0
    /\ despawned = {}
    /\ fresh = <<>>
    /\ gone = {}
    /\ retiring = None
    /\ viewers = [v \in Viewer |-> NO_AVATAR]
    /\ watchers = [e \in Entity |-> NO_WATCHER]
    /\ cached = [generation |-> -1, names |-> [i \in EdgeId |-> None]]
    /\ published = [e \in Entity |-> <<>>]

-----------------------------------------------------------------------------
(* The reader (serve_commands).  A command arrives and its sender is       *)
(* admitted.                                                               *)
Receive(n, i, c) ==
    /\ reading = None
    /\ sent < MaxCommands
    /\ c \in Commands(n)
    /\ Admit(n, i)
    /\ reading' = [kind |-> c.kind, from |-> n, id |-> c.id, edge |-> i]
    /\ sent' = sent + 1
    /\ asked' = IF c.kind \in Spawns THEN asked + 1 ELSE asked
    /\ UNCHANGED <<queue, pc, applying, world, session>>

(* Inbound::accept: a keepalive has done what it is for.                   *)
Accept ==
    /\ reading # None
    /\ queue' = IF reading.kind = "Keepalive" THEN queue ELSE Append(queue, reading)
    /\ reading' = None
    /\ UNCHANGED <<registry, sent, asked, pc, applying, world, session>>

(* The registry's own steps: an edge falls silent, the sweep comes round.  *)
Silence ==
    /\ \E i \in EdgeId : GoSilent(i)
    /\ UNCHANGED <<reader, pc, applying, world, session>>

Sweep ==
    /\ Expire
    /\ UNCHANGED <<reader, pc, applying, world, session>>

-----------------------------------------------------------------------------
(* The tick thread.  Game::step may despawn what it likes, before it calls *)
(* apply or after.                                                         *)
Killable ==
    CASE GameDespawns = "nothing" -> {}
      [] GameDespawns = "earlier" -> alive \ {fresh[k].id : k \in DOMAIN fresh}
      [] GameDespawns = "anything" -> alive

(* tick_with clears the reports of the tick before and calls Game::step,   *)
(* and apply takes the queue.                                              *)
BeginStep ==
    /\ pc = "between"
    /\ \E S \in SUBSET Killable :
        /\ alive' = alive \ S
        /\ despawned' = S
    /\ batch' = queue
    /\ queue' = <<>>
    /\ pc' = "orphans"
    /\ UNCHANGED <<registry, reading, sent, asked, writes, spawned, session>>

(* Mutant of TakeOrphans: their viewers are seen to, and they stand on.     *)
OrphansStand ==
    /\ pc = "orphans"
    /\ TakeDetached
    /\ gone' = gone \cup {[edge |-> None, id |-> e] : e \in detached \cap alive}
    /\ pc' = "commands"
    /\ UNCHANGED <<reader, applying, alive, despawned, spawned, fresh, retiring, viewers,
                   watchers, cached, published>>

(* Inbound::apply.  The orphans first, so that a stale command later in    *)
(* this same batch cannot move an entity whose edge has already gone,      *)
TakeOrphans ==
    /\ pc = "orphans"
    /\ TakeDetached
    /\ alive' = alive \ detached
    /\ despawned' = despawned \cup (detached \cap alive)
    /\ gone' = gone \cup {[edge |-> None, id |-> e] : e \in detached \cap alive}
    /\ pc' = "commands"
    /\ UNCHANGED <<reader, applying, spawned, fresh, retiring, viewers, watchers,
                   cached, published>>

Command(kinds) ==
    /\ pc = "commands"
    /\ batch # <<>>
    /\ Head(batch).kind \in kinds

Done == batch' = Tail(batch)

(* ... then each command.  A position outside the region is refused.       *)
RefuseSpawn ==
    /\ Command({"SpawnOutside"})
    /\ Done
    /\ UNCHANGED <<registry, reader, pc, writes, world, session>>

(* Mutant of Spawn: the id is not used up.                                 *)
SpawnReusesId ==
    LET c == Head(batch) IN
    /\ Command({"SpawnObserver", "SpawnUnattended"})
    /\ Claim(c.edge, spawned)
    /\ alive' = alive \cup {spawned}
    /\ Done
    /\ UNCHANGED <<reader, pc, writes, spawned, despawned, session>>

(* The id is new.  Spawned, then claimed for the sender.                   *)
Spawn ==
    LET c == Head(batch)
        e == spawned IN
    /\ Command({"SpawnObserver", "SpawnUnattended"})
    /\ Claim(c.edge, e)
    /\ spawned' = spawned + 1
    /\ alive' = alive \cup {e}
    /\ fresh' = Append(fresh, [edge |-> c.edge, id |-> e, from |-> c.from,
                               observes |-> c.kind = "SpawnObserver"])
    /\ Done
    /\ UNCHANGED <<reader, pc, writes, despawned, gone, retiring, viewers, watchers,
                   cached, published>>

(* Mutants of SpawnUnclaimed: the entity is left standing; the edge is     *)
(* answered all the same.                                                  *)
UnclaimedStands ==
    LET c == Head(batch) IN
    /\ Command({"SpawnObserver", "SpawnUnattended"})
    /\ SlotsFree
    /\ ~ClaimOk(c.edge, spawned)
    /\ spawned' = spawned + 1
    /\ alive' = alive \cup {spawned}
    /\ Done
    /\ UNCHANGED <<registry, reader, pc, writes, despawned, session>>

UnclaimedAnswered ==
    LET c == Head(batch) IN
    /\ Command({"SpawnObserver", "SpawnUnattended"})
    /\ SlotsFree
    /\ ~ClaimOk(c.edge, spawned)
    /\ spawned' = spawned + 1
    /\ despawned' = despawned \cup {spawned}
    /\ fresh' = Append(fresh, [edge |-> c.edge, id |-> spawned, from |-> c.from,
                               observes |-> FALSE])
    /\ Done
    /\ UNCHANGED <<registry, reader, pc, writes, alive, gone, retiring, viewers,
                   watchers, cached, published>>

(* The edge went away between sending and now: spawned, and despawned.     *)
SpawnUnclaimed ==
    LET c == Head(batch)
        e == spawned IN
    /\ Command({"SpawnObserver", "SpawnUnattended"})
    /\ SlotsFree
    /\ ~ClaimOk(c.edge, e)
    /\ spawned' = spawned + 1
    /\ despawned' = despawned \cup {e}
    /\ Done
    /\ UNCHANGED <<registry, reader, pc, writes, alive, session>>

(* Mutant of Manages: any edge will do.                                    *)
Managed(c) == EdgeFor(c.id) # UNOWNED


Manages(c) == EdgeFor(c.id) = c.edge

RefuseDespawn ==
    /\ Command({"Despawn"})
    /\ ~Manages(Head(batch))
    /\ Done
    /\ UNCHANGED <<registry, reader, pc, writes, world, session>>

(* The sender manages the entity as far as edge_for can see; *)
CheckDespawn ==
    /\ Command({"Despawn"})
    /\ Manages(Head(batch))
    /\ pc' = "despawn"
    /\ UNCHANGED <<registry, reader, applying, world, session>>

(* Mutant of ReleaseIfHeld: nothing is released.                           *)
ReleaseNothing(e) == SlotsFree /\ UNCHANGED registry

(* release of an entity nobody holds any more gives up nothing.            *)
ReleaseIfHeld(e) ==
    \/ Release(e)
    \/ /\ SlotsFree
       /\ owners[e] = UNOWNED
       /\ UNCHANGED registry

(* ... released, despawned and noted.                                      *)
Despawn ==
    LET c == Head(batch) IN
    /\ pc = "despawn"
    /\ ReleaseIfHeld(c.id)
    /\ alive' = alive \ {c.id}
    /\ despawned' = despawned \cup ({c.id} \cap alive)
    /\ gone' = gone \cup {[edge |-> c.edge, id |-> c.id]}
    /\ Done
    /\ pc' = "commands"
    /\ UNCHANGED <<reader, writes, spawned, fresh, retiring, viewers, watchers,
                   cached, published>>

RefuseMove ==
    LET c == Head(batch) IN
    /\ Command({"Move"})
    /\ ~Manages(c) \/ c.id \notin alive
    /\ Done
    /\ UNCHANGED <<registry, reader, pc, writes, world, session>>

Move ==
    LET c == Head(batch) IN
    /\ Command({"Move"})
    /\ Manages(c)
    /\ c.id \in alive
    /\ writes' = writes \cup {[id |-> c.id, from |-> c.from]}
    /\ Done
    /\ UNCHANGED <<registry, reader, pc, world, session>>

(* ... then the moves, which pass over what has been despawned since, and  *)
(* back in Game::step, which may despawn again.                            *)
FinishStep ==
    /\ pc = "commands"
    /\ batch = <<>>
    /\ writes' = {}
    /\ \E S \in SUBSET Killable :
        /\ alive' = alive \ S
        /\ despawned' = despawned \cup S
    /\ pc' = "settle"
    /\ UNCHANGED <<registry, reader, batch, spawned, session>>

-----------------------------------------------------------------------------
(* EdgeSink::presence, to the edge in slot i, if the names the sink has    *)
(* read since the set last changed know one.  The sink reads them again    *)
(* when the generation has moved, which needs the lock of slots.  That     *)
(* this can be taken for one step is what the module EdgeSink is about.    *)
Presence(i, e, what, asker) ==
    LET hit == cached.generation = generation
        names == IF hit THEN cached.names ELSE Names IN
    /\ hit \/ SlotsFree
    /\ cached' = [generation |-> generation, names |-> names]
    /\ published' =
        IF names[i] = None THEN published
        ELSE [published EXCEPT ![e] =
                Append(@, [what |-> what, to |-> names[i], asker |-> asker])]

(* retire: the viewer goes, and its edge, if it had one, is told.          *)
Retire(i, e) ==
    /\ watchers' = [watchers EXCEPT ![e] = NO_WATCHER]
    /\ viewers' = [v \in Viewer |-> IF v = watchers[e] THEN NO_AVATAR ELSE viewers[v]]
    /\ IF i = None THEN UNCHANGED <<cached, published>>
                   ELSE Presence(i, e, "Removed", None)

(* Inbound::settle.  What apply despawned first, since viewer ids are      *)
(* reused.  The order within the list is of no account.                    *)
RetireGone ==
    /\ pc = "settle"
    /\ \E g \in gone :
        /\ Retire(g.edge, g.id)
        /\ gone' = gone \ {g}
    /\ UNCHANGED <<registry, reader, pc, applying, world, fresh, retiring>>

(* Then everything despawned this tick that still has an edge: what the    *)
(* game despawned.  Looked up, *)
Reconcile ==
    /\ pc = "settle"
    /\ gone = {}
    /\ \E e \in despawned :
        /\ despawned' = despawned \ {e}
        /\ IF EdgeFor(e) = UNOWNED
           THEN UNCHANGED <<retiring, pc>>
           ELSE /\ retiring' = [edge |-> EdgeFor(e), id |-> e]
                /\ pc' = "release"
    /\ UNCHANGED <<registry, reader, applying, alive, spawned, fresh, gone, viewers,
                   watchers, cached, published>>

(* ... released, *)
ReconcileRelease ==
    /\ pc = "release"
    /\ ReleaseIfHeld(retiring.id)
    /\ pc' = "retire"
    /\ UNCHANGED <<reader, applying, world, session>>

(* ... and retired.                                                        *)
ReconcileRetire ==
    /\ pc = "retire"
    /\ Retire(retiring.edge, retiring.id)
    /\ retiring' = None
    /\ pc' = "settle"
    /\ UNCHANGED <<registry, reader, applying, world, fresh, gone>>

(* Last, what was spawned: an observer gets a viewer, with any id that is  *)
(* free, and the edge is told of every one.                                *)
Answer ==
    LET f == Head(fresh) IN
    /\ pc = "settle"
    /\ gone = {} /\ despawned = {} /\ fresh # <<>>
    /\ IF f.observes
       THEN \E v \in {u \in Viewer : viewers[u] = NO_AVATAR} :
                /\ viewers' = [viewers EXCEPT ![v] = f.id]
                /\ watchers' = [watchers EXCEPT ![f.id] = v]
       ELSE UNCHANGED <<viewers, watchers>>
    /\ Presence(f.edge, f.id, "Added", f.from)
    /\ fresh' = Tail(fresh)
    /\ UNCHANGED <<registry, reader, pc, applying, world, gone, retiring>>

EndTick ==
    /\ pc = "settle"
    /\ gone = {} /\ despawned = {} /\ fresh = <<>>
    /\ pc' = "between"
    /\ UNCHANGED <<registry, reader, applying, world, session>>

-----------------------------------------------------------------------------
Tick ==
    \/ BeginStep \/ TakeOrphans
    \/ RefuseSpawn \/ Spawn \/ SpawnUnclaimed
    \/ RefuseDespawn \/ CheckDespawn \/ Despawn
    \/ RefuseMove \/ Move \/ FinishStep
    \/ RetireGone
    \/ Reconcile \/ ReconcileRelease \/ ReconcileRetire
    \/ Answer \/ EndTick

Next ==
    \/ \E n \in EdgeName, i \in EdgeId : \E c \in Commands(n) : Receive(n, i, c)
    \/ Accept
    \/ Silence
    \/ Sweep
    \/ Tick

Spec == Init /\ [][Next]_vars

(* The tick loop goes on, the reader gets to what it has read and the      *)
(* sweep wakes every SWEEP.                                                *)
FairSpec ==
    Spec /\ WF_vars(Tick) /\ WF_vars(Accept) /\ WF_vars(Sweep)

-----------------------------------------------------------------------------
(* The state is well formed.                                               *)
TypeOK ==
    /\ RegistryTypeOK
    /\ reading \in CommandType \cup {None}
    /\ queue \in Seq(CommandType)
    /\ sent \in 0 .. MaxCommands
    /\ asked \in 0 .. MaxEntities
    /\ pc \in {"between", "orphans", "commands", "despawn", "settle", "release", "retire"}
    /\ batch \in Seq(CommandType)
    /\ writes \subseteq [id : Entity, from : EdgeName]
    /\ alive \subseteq 0 .. (spawned - 1)
    /\ spawned \in 0 .. MaxEntities
    /\ despawned \subseteq 0 .. (spawned - 1)
    /\ fresh \in Seq([edge : EdgeId, id : Entity, from : EdgeName, observes : BOOLEAN])
    /\ gone \subseteq [edge : EdgeId \cup {None}, id : Entity]
    /\ retiring \in RetiringType \cup {None}
    /\ viewers \in [Viewer -> Entity \cup {NO_AVATAR}]
    /\ watchers \in [Entity -> Viewer \cup {NO_WATCHER}]
    /\ cached \in [generation : Int, names : [EdgeId -> EdgeName \cup {None}]]
    /\ published \in [Entity -> Seq(PresenceType)]

(* An entity that is alive can still be got rid of: an edge manages it, or *)
(* it is on its way to the tick loop as an orphan.  Lost by both, it would *)
(* stand in the world for as long as the region runs.                      *)
AliveAreManaged ==
    \A e \in alive : owners[e] # UNOWNED \/ e \in detached \cup Orphaned

(* settle: left alone "the ownership record would outlive the entity" when *)
(* the game despawns one.  Between ticks no owned entity is dead.          *)
OwnedAreAlive ==
    pc = "between" => \A e \in Entity : owners[e] # UNOWNED => e \in alive

(* settle: "its viewer would never be dropped".  Between ticks no viewer   *)
(* watches from an entity that is gone.                                    *)
ViewersWatchAlive ==
    pc = "between" => \A v \in Viewer : viewers[v] # NO_AVATAR => viewers[v] \in alive

(* An edge hears that an entity is there once at most, and that it is gone *)
(* once at most and after that: Removed is the last thing said of it.      *)
RemovedIsLast ==
    \A e \in Entity : \A j, k \in DOMAIN published[e] :
        j < k => published[e][j].what = "Added" /\ published[e][k].what = "Removed"

(* Presence::Added: "Now exists".  What an edge is told it has is alive.   *)
AddedExists ==
    [][\A e \in Entity :
        /\ published'[e] # published[e]
        /\ published'[e][Len(published'[e])].what = "Added"
        => e \in alive]_vars

(* A command that is carried out was sent by the edge managing the entity, *)
(* by name: ids of edges are reused, and a command waits in a queue with   *)
(* the id its sender had when it came.                                     *)
ManagerOf(e) == IF owners[e] = UNOWNED THEN None ELSE Names[owners[e]]

OnlyManagerActs ==
    [][/\ \A w \in writes' \ writes : ManagerOf(w.id) = w.from
       /\ pc' = "despawn" /\ pc # "despawn" =>
            ManagerOf(Head(batch).id) = Head(batch).from]_vars

(* serve_commands: "a message cannot claim to be from an edge other than   *)
(* the one that published it".  Of a spawn: the edge told of the entity is *)
(* the edge that asked for it.                                             *)
AnsweredToAsker ==
    \A e \in Entity : \A k \in DOMAIN published[e] :
        published[e][k].what = "Added" => published[e][k].to = published[e][k].asker

(* take_detached: "the tick loop despawns them".  The orphans of a dropped  *)
(* edge leave the world, whatever the game and the other edges do.         *)
OrphansLeave == \A e \in Entity : e \in detached ~> e \notin alive

(* Between ticks the session, the registry and the world agree: every      *)
(* entity alive can be got rid of, every owned one is alive, and an edge   *)
(* hears of the end of one last.                                           *)
SessionAgrees == TypeOK /\ AliveAreManaged /\ OwnedAreAlive /\ RemovedIsLast

(* What the session answers is true when it is said, and what it carries   *)
(* out was asked by whoever manages the entity then, ids reused or not.    *)
AnswersTrue == AddedExists /\ OnlyManagerActs
=============================================================================
