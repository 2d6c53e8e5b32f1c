------------------------------- MODULE World -------------------------------
(***************************************************************************)
(* One region's simulation, `WorldSimulation` of sim/world.rs: the arrays  *)
(* a game changes during its step, the odometer and the snapshot the tick  *)
(* rebuilds from them, and the viewers the workers serve against it.  What *)
(* a served viewer is sent is Replication.tla's.                           *)
(*                                                                         *)
(* An array indexed by entity id is a function on 0 .. slots - 1.  Workers *)
(* claim viewers as they finish, so they are served in any order.          *)
(***************************************************************************)
EXTENDS CellSnapshot

CONSTANTS
    Targets,        \* where a move may ask an entity to go
    Strides,        \* how far a translate may ask an entity to go
    Homes,          \* where an entity may be spawned
    Tags, Names, Region,
    Periods,        \* send periods a client may declare
    WalkCap,        \* walk_cap
    TagBump,        \* unseen_drift, what a changed tag adds to a reading
    ReadingMod, TickMod,                    \* 2^32 in the code
    MaxSlots, MaxViewers, MaxOps            \* bounds of the instance

Coords == 0 .. (cfg.grid.cells_per_axis - 1)
CellCoords == [x : Coords, y : Coords]
Boxes == [x0 : Coords, x1 : Coords, y0 : Coords, y1 : Coords]

(* Coordinates are of the code's width, the sizes `build` derives from     *)
(* them are too, and nothing is no cell and no subscription.               *)
ASSUME WorldAssumption ==
    /\ Targets \cup Strides \cup Homes \subseteq Pos3
    /\ Periods \subseteq Nat
    /\ {TickMod, ReadingMod} \subseteq Nat \ {0}
    /\ {TagBump, MaxSlots, MaxViewers, MaxOps} \subseteq Nat
    /\ {cfg.authored.region_size, cfg.authored.vertical_extent,
        cfg.grid.cell_size, cfg.grid.cells_per_axis} \subseteq 1 .. IntMax
    /\ cfg.grid.cell_radius \in Nat
    /\ None \notin CellCoords /\ None \notin Boxes

VARIABLES
    phase,          \* "between" ticks, in the game's "step", or in "serve"
    ops,            \* operations of the game so far, bounded by MaxOps
    tick,
    slots,          \* entity ids handed out: the length of the arrays
    pos, tags, names, atWall,
    live, shown,    \* LiveSets: every entity, and every one but the shadows
    collisions,     \* boundary collisions of this tick, in order
    despawned,      \* entities despawned this tick
    prevTags, total, prev,                  \* the odometer and its memory
    snap,
    viewers,        \* a function on viewer ids
    free,           \* viewer ids to hand out again, the last one first
    waiting,        \* viewers this tick has yet to serve
    viewCollisions, viewCleared,            \* what this tick tells the edge
    known           \* history: what the edge knows of each viewer's view

stepVars == <<slots, pos, tags, names, atWall, live, shown, collisions,
              despawned>>
tickVars == <<prevTags, total, prev, snap>>
viewVars == <<viewers, free, known>>
serveVars == <<waiting, viewCollisions, viewCleared>>
vars == <<phase, ops, tick, stepVars, tickVars, viewVars, serveVars>>

Entities == 0 .. (slots - 1)
\* What an edge knows of a view before it is told, and the square it knows
\* this region to fill, which squares_in_view counts from.
NoView == [cell |-> None, squares |-> {}]
Origin == Square(0, 0)

Init ==
    /\ phase = "between" /\ ops = 0 /\ tick = 0 /\ slots = 0
    /\ pos = <<>> /\ tags = <<>> /\ names = <<>> /\ atWall = <<>>
    /\ live = {} /\ shown = {} /\ collisions = <<>> /\ despawned = {}
    /\ prevTags = <<>> /\ total = <<>> /\ prev = <<>>
    /\ snap = EmptySnapshot
    /\ viewers = <<>> /\ free = <<>> /\ known = <<>>
    /\ waiting = {} /\ viewCollisions = {} /\ viewCleared = {}

(* An array with one more slot, and an array with one slot written.        *)
Push(array, value) == [i \in DOMAIN array \cup {slots} |->
                          IF i = slots THEN value ELSE array[i]]

(***************************************************************************)
(* The game's step.                                                        *)
(***************************************************************************)
InStep == /\ phase = "step" /\ ops < MaxOps
          /\ ops' = ops + 1
          /\ UNCHANGED <<phase, tick, tickVars, viewVars, serveVars>>

(* Step::move_to: a target outside is held to the box and reported, once   *)
(* until a move lands inside.                                              *)
MoveTo(id, target) ==
    /\ pos' = [pos EXCEPT ![id] = Clamp(cfg, target)]
    /\ atWall' = [atWall EXCEPT ![id] = ~Inside(cfg, target)]
    /\ collisions' = IF Inside(cfg, target) \/ atWall[id] THEN collisions
                     ELSE Append(collisions, <<id, target>>)
    /\ UNCHANGED <<slots, tags, names, live, shown, despawned>>

Move(id, target) == InStep /\ id \in live /\ MoveTo(id, target)

Translate(id, by) ==
    /\ InStep /\ id \in live
    /\ MoveTo(id, At(SaturatingAdd(pos[id].x, by.x),
                     SaturatingAdd(pos[id].y, by.y),
                     SaturatingAdd(pos[id].z, by.z)))

(* positions_mut: written in place, with no look at the box.  (What it     *)
(* writes to a dead slot is never read.)                                   *)
Sweep(id, target) ==
    /\ InStep /\ id \in live
    /\ pos' = [pos EXCEPT ![id] = target]
    /\ UNCHANGED <<slots, tags, names, atWall, live, shown, collisions,
                   despawned>>

Spawn(at, tag, shadow) ==
    /\ InStep /\ slots < MaxSlots
    /\ slots' = slots + 1
    /\ pos' = Push(pos, at)
    /\ tags' = Push(tags, IF shadow THEN 0 ELSE tag)
    /\ names' = Push(names, None)
    /\ atWall' = Push(atWall, FALSE)
    /\ live' = live \cup {slots}
    /\ shown' = IF shadow THEN shown ELSE shown \cup {slots}
    /\ UNCHANGED <<collisions, despawned>>

SetTag(id, tag) ==
    /\ InStep /\ id \in live
    /\ tags' = [tags EXCEPT ![id] = tag]
    /\ UNCHANGED <<slots, pos, names, atWall, live, shown, collisions,
                   despawned>>

SetName(id, name) ==
    /\ InStep /\ id \in live
    /\ names' = [names EXCEPT ![id] = name]
    /\ UNCHANGED <<slots, pos, tags, atWall, live, shown, collisions,
                   despawned>>

DespawnShown(id) ==
    /\ InStep /\ id \in live
    /\ live' = live \ {id}
    /\ despawned' = despawned \cup {id}
    /\ UNCHANGED <<slots, pos, tags, names, atWall, collisions, shown>>

Despawn(id) ==
    /\ InStep /\ id \in live
    /\ live' = live \ {id} /\ shown' = shown \ {id}
    /\ despawned' = despawned \cup {id}
    /\ UNCHANGED <<slots, pos, tags, names, atWall, collisions>>

(***************************************************************************)
(* The tick.                                                               *)
(***************************************************************************)
StartTick ==
    /\ phase = "between"
    /\ phase' = "step"
    /\ tick' = (tick + 1) % TickMod
    /\ collisions' = <<>> /\ despawned' = {}
    /\ viewCollisions' = {} /\ viewCleared' = {}
    /\ UNCHANGED <<ops, slots, pos, tags, names, atWall, live, shown,
                   tickVars, viewVars, waiting>>

(* How far an entity went since the odometer last looked at it; a slot it  *)
(* has not looked at contributes nothing.  The sum saturates.              *)
Stride(id) ==
    IF id \notin DOMAIN prev \/ id \notin shown THEN 0
    ELSE Smaller(AbsDiff(pos[id].x, prev[id].x) + AbsDiff(pos[id].y, prev[id].y)
                     + AbsDiff(pos[id].z, prev[id].z), ReadingMod - 1)

(* A slot's reading: nothing before the odometer covered it.               *)
Before(array, id, value) == IF id \in DOMAIN array THEN array[id] ELSE value

TagChanged(id) == id \in live /\ tags[id] # Before(prevTags, id, 0)

(* What follows the game's step: accumulate, the tags' bumps, and update.  *)
EndStep ==
    /\ phase = "step"
    /\ phase' = "serve"
    /\ total' = [id \in Entities |->
                    (Before(total, id, 0) + Stride(id)
                         + IF TagChanged(id) THEN TagBump ELSE 0)
                        % ReadingMod]
    /\ prev' = [id \in Entities |->
                   IF id \in shown THEN pos[id] ELSE Before(prev, id, pos[id])]
    /\ prevTags' = tags
    /\ snap' = Snapshot(pos, tags, names, Region, shown)
    /\ waiting' = DOMAIN viewers
    /\ UNCHANGED <<ops, tick, stepVars, viewVars, viewCollisions, viewCleared>>

Due(v) == (tick + v) % viewers[v].send_period = 0

Served(v) == /\ viewers[v].registered /\ Due(v)
             /\ viewers[v].avatar \in live
             /\ Inside(cfg, pos[viewers[v].avatar])

ReportsOnEntry(viewer, moved, reaches) ==
    moved /\ reaches /\ ~viewer.at_boundary /\ viewer.avatar \in shown

(* What a change of the subscription tells the edge: that the view reaches *)
(* past the region, or no longer does.  A shadow's view is not news.       *)
Reports(viewer, moved, reaches) ==
    moved /\ reaches /\ viewer.avatar \in shown
Clears(viewer, moved, reaches) ==
    moved /\ ~reaches /\ viewer.at_boundary /\ viewer.avatar \in shown

(* The first half of `serve`.                                              *)
Serve(v) ==
    LET viewer == viewers[v]
        at == pos[viewer.avatar]
        cell == CellOf(cfg, at)
        sub == AtCenter(cfg, cell)
        moved == viewer.sub # sub
        reaches == ReachesBox(cfg, cell)
        reports == Reports(viewer, moved, reaches)
        clears == Clears(viewer, moved, reaches)
    IN  /\ phase = "serve" /\ v \in waiting
        /\ waiting' = waiting \ {v}
        /\ IF ~Served(v)
           THEN UNCHANGED <<viewers, viewCollisions, viewCleared, known>>
           ELSE /\ viewers' = [viewers EXCEPT
                       ![v].sub = sub,
                       ![v].at_boundary = IF moved THEN reaches ELSE @]
                /\ viewCollisions' = viewCollisions \cup
                       {c \in {<<viewer.avatar, at>>} : reports}
                /\ viewCleared' = viewCleared \cup
                       {a \in {viewer.avatar} : clears}
                /\ known' = [known EXCEPT ![v] =
                       [cell |-> cell,
                        squares |->
                            IF reports THEN SquaresInView(cfg, Origin, at)
                            ELSE IF clears THEN {} ELSE @.squares]]
        /\ UNCHANGED <<phase, ops, tick, stepVars, tickVars, free>>

EndTick ==
    /\ phase = "serve" /\ waiting = {}
    /\ phase' = "between"
    /\ UNCHANGED <<ops, tick, stepVars, tickVars, viewVars, serveVars>>

(***************************************************************************)
(* Between ticks: the registry of viewers.                                 *)
(***************************************************************************)
Fresh(avatar, period) ==
    [avatar |-> avatar, sub |-> None, at_boundary |-> FALSE,
     send_period |-> Larger(period, 1), registered |-> TRUE]

Seat(v, viewer) == [i \in DOMAIN viewers \cup {v} |->
                       IF i = v THEN viewer ELSE viewers[i]]

RegisterViewer(avatar, period) ==
    LET v == IF free = <<>> THEN Cardinality(DOMAIN viewers) ELSE Last(free)
    IN  /\ phase = "between" /\ v < MaxViewers
        /\ viewers' = Seat(v, Fresh(avatar, period))
        /\ known' = [i \in DOMAIN viewers \cup {v} |->
                        IF i = v THEN NoView ELSE known[i]]
        /\ free' = IF free = <<>> THEN free ELSE Front(free)
        /\ UNCHANGED <<phase, ops, tick, stepVars, tickVars, serveVars>>

UnregisterViewerKeeping(v) ==
    /\ phase = "between" /\ viewers[v].registered
    /\ viewers' = [viewers EXCEPT ![v].registered = FALSE]
    /\ known' = [known EXCEPT ![v] = NoView]
    /\ free' = Append(free, v)
    /\ UNCHANGED <<phase, ops, tick, stepVars, tickVars, serveVars>>

UnregisterViewer(v) ==
    /\ phase = "between" /\ viewers[v].registered
    /\ viewers' = [viewers EXCEPT ![v].registered = FALSE, ![v].sub = None]
    /\ known' = [known EXCEPT ![v] = NoView]
    /\ free' = Append(free, v)
    /\ UNCHANGED <<phase, ops, tick, stepVars, tickVars, serveVars>>

StepOperation ==
    \/ \E id \in Entities :
           \/ \E target \in Targets : Move(id, target) \/ Sweep(id, target)
           \/ \E by \in Strides : Translate(id, by)
           \/ \E tag \in Tags : SetTag(id, tag)
           \/ \E name \in Names : SetName(id, name)
           \/ Despawn(id)
    \/ \E at \in Homes, tag \in Tags, shadow \in BOOLEAN :
           Spawn(at, tag, shadow)

Next ==
    \/ StepOperation
    \/ StartTick \/ EndStep \/ EndTick
    \/ \E v \in DOMAIN viewers : Serve(v) \/ UnregisterViewer(v)
    \/ \E avatar \in live, period \in Periods : RegisterViewer(avatar, period)

Spec == Init /\ [][Next]_vars

-----------------------------------------------------------------------------
(***************************************************************************)
(* Properties.                                                             *)
(***************************************************************************)
(* Every array covers every slot, the odometer and the snapshot hold what  *)
(* the last tick gave them, and the queues hold what they are for.         *)
TypeOK ==
    /\ phase \in {"between", "step", "serve"} /\ ops \in 0 .. MaxOps
    /\ tick \in 0 .. (TickMod - 1) /\ slots \in 0 .. MaxSlots
    /\ pos \in [Entities -> Pos3] /\ tags \in [Entities -> Tags \cup {0}]
    /\ names \in [Entities -> Names \cup {None}]
    /\ atWall \in [Entities -> BOOLEAN]
    /\ shown \subseteq live /\ live \subseteq Entities
    /\ despawned \subseteq Entities \ live
    /\ DOMAIN total = DOMAIN prev /\ DOMAIN prevTags = DOMAIN prev
    /\ DOMAIN prev \subseteq Entities
    /\ \A id \in DOMAIN prev : /\ prev[id] \in Pos3
                              /\ total[id] \in 0 .. (ReadingMod - 1)
    /\ \E n \in 0 .. MaxViewers : DOMAIN viewers = 0 .. (n - 1)
    /\ \A v \in DOMAIN viewers :
           viewers[v] \in [avatar : Entities, sub : Boxes \cup {None},
                           at_boundary : BOOLEAN,
                           send_period : {Larger(p, 1) : p \in Periods},
                           registered : BOOLEAN]
    /\ free \in Seq(DOMAIN viewers)
    /\ DOMAIN known = DOMAIN viewers
    /\ \A v \in DOMAIN known :
           known[v] \in [cell : CellCoords \cup {None},
                         squares : SUBSET [col : -1 .. 1, row : -1 .. 1]]
    /\ waiting \subseteq DOMAIN viewers /\ viewCleared \subseteq Entities

(* What the workers gather from is the world as the step left it: every    *)
(* entity shown is one row, with its position, its tag and the name its    *)
(* despawn will carry, in the run of its cell and, where the cell is       *)
(* divided, of its sub-cell; the sub-runs tile the cell's run; and no      *)
(* shadow or dead entity is a row.                                         *)
SnapshotSound ==
    phase = "serve" =>
        LET rows == snap.rows
            ids(run) == [i \in 1 .. (run.to - run.from) |->
                            rows[run.from + i].id]
        IN  /\ Len(rows) = Cardinality(shown)
            /\ {rows[i].id : i \in DOMAIN rows} = shown
            /\ \A i \in DOMAIN rows :
                   LET id == rows[i].id
                   IN  /\ rows[i].pos = pos[id] /\ rows[i].tag = tags[id]
                       /\ rows[i].name = NameOf(names, Region, id)
            /\ \A c \in Cells \ DOMAIN snap.divided :
                   ids(CellRun(snap, c)) =
                       Ascending({id \in shown :
                                      CellId(cfg, CellOf(cfg, pos[id])) = c})
            /\ \A c \in DOMAIN snap.divided :
                   /\ snap.divided[c][0] = snap.starts[c]
                   /\ snap.divided[c][Cardinality(SubCells)] =
                          snap.starts[c + 1]
                   /\ \A b \in SubCells :
                          ids(SubRun(snap, c, b)) =
                              Ascending({id \in shown :
                                  /\ CellId(cfg, CellOf(cfg, pos[id])) = c
                                  /\ SubCellOfRow([pos |-> pos[id]]) = b})

(* A walk with no cap finds exactly the entities shown within the view     *)
(* radius on the ground, each once, with its distance through the air; a   *)
(* walk with a cap finds the front of that, all of it if it never reached  *)
(* the cap, and passes the cap by less than the largest run it walked.     *)
GatherFinds ==
    phase = "serve" => \A v \in DOMAIN viewers :
        Served(v) =>
            LET at == pos[viewers[v].avatar]
                sub == AtCenter(cfg, CellOf(cfg, at))
                all == Gather(snap, at, sub, MaxSlots + 1).found
                walk == Gather(snap, at, sub, WalkCap)
            IN  /\ {all[i].id : i \in DOMAIN all} =
                       {id \in shown : HorizontalDistSq(at, pos[id])
                                           <= ViewRadius * ViewRadius}
                /\ \A i, j \in DOMAIN all : all[i].id = all[j].id => i = j
                /\ \A i \in DOMAIN all :
                       /\ all[i].dist = DistSq(at, pos[all[i].id])
                       /\ snap.rows[all[i].index + 1].id = all[i].id
                /\ walk.found = SubSeq(all, 1, Len(walk.found))
                /\ Len(walk.found) < WalkCap => walk.found = all
                /\ Len(walk.found) < WalkCap + walk.biggest

(* The snapshot and the walk over it, together: what a worker finds for a  *)
(* viewer is what stands around its avatar.                                *)
SnapshotGathers == SnapshotSound /\ GatherFinds

(* The edge that owns an avatar stands its shadows by what it was last     *)
(* told of the view: that is where the view reaches from the cell the      *)
(* viewer was last served in, whatever was reported, cleared, registered   *)
(* again or skipped because it was not due.                                *)
ViewKnown ==
    \A v \in DOMAIN viewers :
        viewers[v].registered /\ known[v].cell # None
            /\ viewers[v].avatar \in shown =>
            known[v].squares =
                SquaresInView(cfg, Origin,
                              At(known[v].cell.x * cfg.grid.cell_size,
                                 known[v].cell.y * cfg.grid.cell_size, 0))

(* A region at least as wide as the square a subscription covers before it *)
(* is clipped: then no two cells have the same box.                        *)
Wide == cfg.grid.cells_per_axis > 2 * cfg.grid.cell_radius

(* Every viewer id is with one client or free to give, never both and      *)
(* never twice, and a free one holds nothing of the client it had.         *)
ViewersAccounted ==
    /\ \A v \in DOMAIN viewers :
           viewers[v].registered <=> v \notin {free[i] : i \in DOMAIN free}
    /\ \A i, j \in DOMAIN free : free[i] = free[j] => i = j
    /\ \A v \in DOMAIN viewers :
           ~viewers[v].registered => viewers[v].sub = None

(* The registry of viewers, and all a region keeps, is well formed through *)
(* any run of registrations, spawns, despawns and moves.                   *)
RegistrySound == TypeOK /\ ViewersAccounted

(* "on the cell change that brought the subscription past the region, and  *)
(* on each cell change while it stays there": serving a viewer whose cell  *)
(* is not the one it was last served in reports the view if it reaches     *)
(* past the region.                                                        *)
CellChangesReported ==
    [][\A v \in waiting \ waiting' :
           LET avatar == viewers[v].avatar
               cell == CellOf(cfg, pos[avatar])
           IN  Served(v) /\ avatar \in shown /\ known[v].cell # cell
                   /\ ReachesBox(cfg, cell)
               => <<avatar, pos[avatar]>> \in viewCollisions']_vars
=============================================================================
