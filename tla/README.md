# umwelt-rs: a TLA+ model of the replication server

umwelt simulates a world split into square *regions*, each a process that ticks
at a fixed rate and sends every *viewer* (a logical client with an avatar) a
packet of what is near it. Game clients do not talk to regions. They hold a QUIC
connection to an *edge server*, which owns their entities, decides which region
each one lives in, and moves them from one region to the next. Edges and regions
speak over NATS subjects.

This directory holds TLA+ modules translated from that code, the TLC
configurations that check them on small instances, and proofs checked by TLAPS.
Paths below are relative to the crate (`src/...`); `PROJECT.json` maps every
definition to the lines it stands for.

## 1. The system

| Component | State | Operations | Interacts with |
|---|---|---|---|
| Edge registry of a region (`net/region/edges.rs`) | slots (edge name, last heard, entities), owner of each entity, orphans, counters | admit, expire/detach, claim, release, edge_for, take_detached | command task, sweep task, tick thread, I/O thread |
| Region session (`net/region/session.rs`, `net/region/server.rs`) | command queue, message queue, fresh and gone lists, watchers; sink's avatar map and subject cache | accept, drain_messages, apply, settle; presence, send, bind, unbind | the registry, the simulation, NATS |
| Simulation (`sim/world.rs`) | positions, tags, liveness, viewers and their ghosts, pending despawns, reports of the tick | Step (spawn, despawn, move), tick, serve, register/unregister_viewer | the game, the sink, the snapshot, worker threads |
| Hand-off to the I/O thread (`sim/handoff.rs`) | one buffer per viewer, ready flags, has_work | send, drain, flush, shutdown | tick workers, I/O thread, EdgeSink |
| Replication (`select.rs`, `ghost.rs`, `odometer.rs`, `gather.rs`, `snapshot.rs`, `budget.rs`) | ghost table per viewer, accumulated drift, cell snapshot, packet budget | gather, select, sent/seen/evict, accumulate, update, subdivide | the tick |
| Packets (`packet.rs`, `codec.rs`, `net/wire.rs`, protocols) | none | encode, decode | both ends |
| Tick clock (`sim/clock.rs`) | epoch, slot, counts of late and dropped ticks | run_with (Dilate, Drop) | tick loop |
| World geometry (`map.rs`, `pos.rs`, `fixed.rs`, `config.rs`, `subscription.rs`, `net/edge/seam.rs`) | region size | world <-> region coordinates, cells, boxes, seams | edge and region |
| Edge server (`net/edge/server.rs`, `net/edge/handle.rs`) | clients and their keys and handles, entities by key and by region id, moves, world positions, transitions and teleports, outbound queue | attach, disconnect, spawn, despawn, message, presence, cross, teleport, shadow, expire, publish | client tasks, region reader, publisher, the edge game |
| Edge client (`net/edge/client.rs`) | handles, which regions send which name | deliver, spawn, despawn, move | edge server |
| Region client (`net/region/client.rs`), control (`net/control.rs`), discovery | subscriptions | request info, publish commands, heartbeats | NATS |

The hard parts are the ones with several threads over shared state that is
locked a piece at a time: the registry's sweep against the command task and the
tick; the session's queue, which holds edge *ids* over a tick while ids are
reused; the hand-off, which holds payloads by *viewer* id over an I/O pass while
viewers come and go; and above all the edge server, where client tasks, the
region reader, the publisher and the game each take five or six locks one after
another around an entity that is moving between two regions.

What makes each correct:

* **registry**: the owner index and the edges' sets agree; an entity has one
  manager; whatever an edge had is handed to the tick loop when it goes.
* **session**: every entity alive has a manager or is being got rid of; no
  viewer outlives its avatar; an edge is told once that an entity is there and
  then once that it is gone; a command is carried out for its sender only.
* **hand-off**: the latest payload of a viewer is delivered, each at most once;
  none is stuck while the I/O thread sleeps.
* **sink**: what is sent is addressed to an edge that is there, the one that
  manages the avatar, and is of the viewer it was built for.
* **simulation**: the snapshot holds each shown entity once, where it stands; a
  walk over it finds what is near and no more than its cap; what changed reads
  as changed; an edge knows how far each view reaches; viewer ids are not shared.
* **replication**: what a client holds is no further wrong than the drift the
  ghost table sees; a loss is mended; every packet fits; the ghost table is a map.
* **edge server**: an entity of a client is in one region, or in two while it
  crosses, and never in none without its client being told; a client that goes
  takes everything it had with it and the game hears so, last; messages are not
  lost or reordered by a crossing.
* **edge client**: the edge decodes what was said however it arrives; a handle is
  spawned once, first, and given back once; a name two regions send is kept while
  one of them does.
* **clock and control**: a late tick is not made up for; a tick's number tells the
  time; a heartbeat says of its ticks what they cost; an edge reads a region's
  records as the region writes them; a batch arrives in order.

`PROJECT.json` lists under `hazards` where each of these can go wrong and which
property looks at it.

## 2. The modules

| Module | Models | Extends / instantiates |
|---|---|---|
| `Ownership` | abstract: an entity has at most one manager; an edge that goes leaves all it had to the tick loop, at once | |
| `Edges` | `net/region/edges.rs`, one action per hold of a lock | `O == INSTANCE Ownership` |
| `RegionSession` | `net/region/session.rs`, `server.rs`, and what of `sim/world.rs` they see | `Edges` |
| `EdgeSink` | `EdgeSink` of `net/region/session.rs`: `bind`, `unbind`, `send`, `presence`, `subject` | `Edges` |
| `SessionProofs` | theorems about `Edges`, `RegionSession` and `EdgeSink` | `RegionSession`, `EdgeSink`, `FiniteSetTheorems`, `SequenceTheorems` |
| `Mailbox` | abstract: one mailbox per viewer that holds the latest payload | |
| `Handoff` | `sim/handoff.rs` | `M == INSTANCE Mailbox` |
| `Ghosts` | abstract: a map from entities to what was last sent of each; an eviction takes what is due and reports it | |
| `GhostTable` | `ghost.rs`: probing, growth, backward-shift deletion, the one-pass eviction | `G == INSTANCE Ghosts` |
| `GhostTableProofs` | theorems about `GhostTable` | `GhostTable`, `FiniteSetTheorems` |
| `Geometry` | pure: `fixed.rs`, `pos.rs`, `config.rs`, `map.rs`, `subscription.rs`, `net/edge/seam.rs` | |
| `CellSnapshot` | pure: `snapshot.rs` and the walk of `gather.rs` | `Geometry` |
| `World` | `sim/world.rs`, `odometer.rs`, `sim/viewer.rs`: a step of the game, the tick, the first half of `serve`, the registry of viewers | `CellSnapshot` |
| `WorldProofs` | theorems about `World` | `World`, `FiniteSetTheorems` |
| `Wire` | pure: every message of the three protocols, the framer, subjects, records, packets, budgets | `Geometry` |
| `Replication` | `select.rs`, the second half of `serve`, the datagrams' way, a client that adopts them | `Wire` |
| `ServingProofs` | theorems about `Handoff` and about `Replication` | `Handoff`, `Replication`, `FiniteSetTheorems`, `WellFoundedInduction` |
| `EdgeClient` | `net/edge/client.rs`: both directions, with the edge that reads and the regions that send | `Wire` |
| `EdgeClientProofs` | theorems about `EdgeClient` | `EdgeClient` |
| `Link` | `net/region/client.rs`, `server.rs`, `map.rs` and `world_of`: map, offers, batches, broker | `Wire` |
| `Clock` | `sim/clock.rs`, the span of `sim/world.rs`, the load of `session.rs`, the heartbeat's timer | |
| `Control` | `net/control.rs`: a region's loop and its link, joined by its heartbeat | `Clock`, `Link` |
| `ClockProofs` | theorems about `Clock`, carried to `Control` | `Control`, `FiniteSetTheorems`, `WellFoundedInduction` |
| `EdgeState` | the state of an edge server and the steps several of its threads take (`net/edge/handle.rs`) | |
| `EdgePresence` | the region reader: `on_presence`, `complete_teleport` | `EdgeState` |
| `EdgeServer` | client streams, publisher, game and regions; the specification and its properties | `EdgePresence` |
| `EdgeServerProofs` | theorems about `EdgeServer`: typing, and its clients' indices | `EdgeServer`, `FiniteSetTheorems`, `SequenceTheorems` |
| `EdgeFlowProofs` | theorems about `EdgeServer`: what it and its regions agree on | `EdgeServerProofs` |
| `MC...` | the constants of the runs | the module they are named after |

### How the code is read

A step of a model is what a thread does under one hold of one lock, with the
sends and counters that follow and that nothing else reads. Where the code lets
go of a lock and takes it again, the model has two actions and any other thread
may run in between; where the code returns early there is a disjunct for it.
`PROJECT.json` names the lines of every definition.

**Edges.** `slots`, `owners`, `detached`, `live`, `accepted` and `generation`
are the fields of the same name. `Admit` (`Refresh` or `AdmitNew`), `Claim`,
`Release` and `TakeDetached` are the operations. `expire` is `ExpireScan`,
which lists what is silent, then `DetachOwners` and `DetachPublish` for each.
`GoSilent` stands for time passing without a command. Slots never grow past
`MaxSlots`, admissions past `MaxAccepted`.

**RegionSession.** Three threads: the command task (`Receive`, then `Accept`),
the registry's sweep (`Expire`) and the tick thread, whose
`pc` walks through `apply` (orphans, then each command of the batch), the game
(`BeginStep` says what it will despawn) and `settle` (what apply despawned, what
the game despawned, what was spawned). It extends `Edges`, whose
operations its actions take, so the registry's variables are this module's too.
`published[e]` is what any edge was told of entity e; `cached` is the
sink's cache of subjects with its generation. `GameDespawns` opens what the
game does by itself: `"nothing"`, entities of `"earlier"` steps, or
`"anything"`, those spawned in this very step included.

**EdgeSink.** The tick thread binds a viewer, serves it, and reports presence; the
threads behind the hand-off send. `box[v]` is the mailbox of `Mailbox` with one
thing added: whose view the payload is. A look-up goes avatar, edge, generation,
table, each under its own lock (`Send`, `Route`, `ReadGeneration`, `Hit` or
`Miss`, `Refill`, `Label`), so edges may come and go between any two. `subjects`
is the table with its generation, `writer` who holds it to fill it. A subject is
the name of an edge: the two tables of the code are filled alike. `asked` and
`met` of a call are histories.

**Handoff.** `ready` and `hasWork` are the atomics, a slot's content and its
lock the rest; workers (`Send`, `SendLost`, `SendFirst`, `StashReady`,
`StashDone`), I/O thread (`Wake`, `Scan`, `Lock`, `Swap`, `Bring`, `Park`,
`Panic`), `flush` and `drop`. The n-th payload built for a viewer is the number
n. A worker that cannot have the lock gives the payload up, as `stash` does.

**GhostTable.** One thread has a table at a time, so nothing interleaves; an
operation is nevertheless one action per turn of its loop (`Rehash`, `Keep`,
`Remove`, `Fill`, `Skip`), because what makes eviction right must hold between
the turns. `cap`, `slots` and `len` are the table's; `at`, `hole` and `probe`
are the loop variables `i`, `i` and `j` of `evict` and `remove_at`. `home`
multiplies an id by an odd constant modulo 2^32, which is one to one, so an
entity is named by its product and `Home` keeps the high bits. A mark stands for
the odometer reading and tick of a send; `due` is `tick - last_seen > grace`,
which is all `evict` asks. `sent` grows the table by one doubling where the code
loops over `reserve_one`: at most half full before, it needs no second. A growth
past `MaxSlots` is not taken. `seen` and `held` are one look-up, `Finds`.

**EdgeServer.** `ent` is `Entities::by_key`, `byId` is `by_id`; `clients`,
`transits`, `carried` (`teleport_state`) and `outbound` are the fields of
`Shared`. `job[t]` is what thread t is in the middle of: its local variables,
with a `pc` for the next hold of a lock. `Ask`, `Release`, `Forget`, `Unbind`
and the halves of `begin_teleport` (`Begin`, `AskCopy`, `Link`, `Carry`,
`Note`) are taken by whichever thread is there. Regions are as the edge sees
them: they take any prefix of what was published, add, remove, hand messages to
their game, report removals before additions, and may refuse a spawn without a
word. `heard[k]` is what the game of a region heard for entity k. Two constants
open sets of behaviour: `Commands` (what clients do) and `Events` (what regions
and the consumer's game do unasked).

Two members restrict rather than open. Unless `"hasty"`, a client acts on an
entity only once it was told of it, and leaves only then; unless `"late"`, no
deadline passes while an answer is under way. A region may answer at any moment
after it was asked, so also while the thread that asked is still recording what
it asked: the code has nothing that keeps an answer off until then.

**Geometry, CellSnapshot, Wire** have no state: they are the functions the others
call. Numbers are raw units; a shift is `\div` and a mask `%`, which round as the
code's do. `Build` derives a configuration and `BuildError` is what refuses one.
`Snapshot` is the counting sort by cell and, in a dense cell, by sub-cell;
`Gather` is the walk, cell by cell in the order of the visit table, which stops
at the cap between runs. In `Wire` a number of w bytes is a run of w bytes that
carry the number and their place, so that a cut, a shift or a swap of fields is
seen without writing digits; a message is a `layout`, the list of fields `encode`
writes, and `DecodeBody` reads it with a cursor, list counts, caps and
`expect_empty` included. `TakeFrames` is the framer.

**World.** `phase` is where the tick loop is: `between` ticks, in the game's
`step`, in `serve`. The step's operations are `Move`, `Sweep`, `Translate`,
`Spawn` (of a shadow too), `Despawn`, `SetTag`, `SetName`; `EndStep` is
`accumulate`, the bumps of tags, `update`, and the snapshot. Workers claim
viewers in any order (`Serve`). `known` is a history: where an edge that was told
of every report believes each view to reach.

**Replication.** One viewer and a line of entities. `Serve` is the rest of
`serve`: the ghost set, the scores, the records that fit beside the despawns, the
marks, the eviction, whose order is the table's and so any. `Deliver` and `Lose`
are the path to the client, which drops and then adds, as `deliver` does. The
ghost table is the map of `Ghosts`.

**EdgeClient.** A call is what it does under the lock and then what it queues
(`Walk`, `Queue`, `Return`), so calls of two threads interleave; what cannot be
queued ends the call (`Fail`). `unread` is the stream, which the edge reads in
pieces of any of the sizes `Chunks`; a datagram may be lost or overtaken. A region
announces itself, serves packets from its ghost set and despawns what left it one
packet later, or later still, and an entity may come back before that, so that one
packet despawns and updates it (`PacketOf`).

**Clock.** A step is what the loop does between two readings of the clock:
waiting out a deadline (a sleep overshoots by any of `Oversleeps`, and then
nothing looks again), finding one missed, a tick that takes any of `Costs`, an
observer that takes any of `Pauses`. A unit of time is the spin margin. The
heartbeat wakes once a granule and takes the load when its interval has passed.

**Link.** `deployed` is drawn at the start: what world each region runs, which
version it speaks, what the map's bucket holds. `StartEdge`, `TellTheWorld` and
`LearnAgain` are the three moments an edge asks; a region that does not answer is
asked again. The broker keeps what is published in order per publisher and
subscription, and may lose any message; a publish may fail, which ends a batch.
`Control` joins `Clock` and `Link`: a beat is encoded, published and read, or
lost.

## 3. The runs

| Run | Bounds | What it shows |
|---|---|---|
| `session` | 2 names, 2 slots, 3 admissions, 2 entities, 2 commands, game despawns earlier entities | `RegistryAgrees`: the registry's indices agree at every step of a sweep, no name has two slots, nothing is dropped that was not found silent or has been replaced; it implements `Ownership`; an edge that stays silent is dropped (`SilentDropped`). `SessionAgrees`: no entity without a manager that is not on its way out, no ownership without an entity, added once then removed once; `AnswersTrue`: commands act for their sender only; orphans leave |
| `sink` | 2 names, 1 slot, 3 admissions, 1 entity, 1 viewer, the tick thread and 1 that sends | a table that bears the registry's generation is the registry's (`SubjectsCurrent`); nothing is addressed to an edge that had gone before the look-up (`SubjectMet`) |
| `handoff` | 2 viewers, 2 payloads each | `SlotsAgree`: hints right, nothing stuck, latest only and in order; `EndsEmpty`: flush and drop empty the slots; it implements `Mailbox`, fairly |
| `ghosts` | 5 entities whose homes collide and wrap, tables of 0, 4 and 8 slots, 2 marks | `TableSound`: every ghost is found wherever shifts have put it, count and load are right, the scan leaves nothing due behind it; it implements `Ghosts`; every operation ends |
| `edge_core` | 1 client with 2 names, 1 region, 3 entities, 1 despawn by the region's game | a client's index and its entities agree once all is quiet; `NothingLeftBehind`: what was given back and who left are gone |
| `edge_teleport` | 1 name, 2 regions, 2 entities, 2 messages, refusals, 2 crossings | `EntitiesKept`: alive somewhere throughout, handles lead to what is held; `HeldNotLost`: held messages are heard; the client's indices, the edge's records and the regions agree once all is quiet; a transition that was not answered before it was recorded ends (`AwaitedEnd`) |
| `edge_hasty` | 1 name, 2 regions, 2 entities, 2 events, with clients that wait for nothing and late answers | every clean-up path is taken; what is recorded stays well formed and the index by region id agrees with it (`RecordsAgree`), and so, once all is quiet, do the lists of shadows (`ShadowsListed`) |
| `world` | 2 entity ids, 1 viewer id, 4 operations, in a region of 8 by 8 cells, views of 2 cells, sub-cells of half a cell | the snapshot holds each shown entity once and where it stands, and the walk, capped or not, finds what is near (`SnapshotGathers`); an edge knows how far a view reaches (`ViewKnown`); every id of a viewer is in use or free, once (`RegistrySound`); every change of cell at the box is reported |
| `replication` | 3 entities, 3 places, ghost set of 2, refresh after 2 ticks, 2 packets in flight, 3 moves and faults together, readings that wrap after 2 units | a client is no further wrong than the drift the table sees, when nothing is lost; a packet fits; errors are temporary |
| `client` | 2 threads, 1 handle, 3 calls of 8 kinds; or 2 regions, 1 name, 5 packets, 1 fault; or some of both | the edge hears what was said; a handle is spent once; what a region sends the game holds, where one of the regions has it (`ViewIsSent`); a name goes with the last region that has it (`NothingLingers`) |
| `control` | the loop for 11 steps under 8 pacings; 14 deployments with 4 asks; 2 edges, 2 regions, 4 steps of 3 sets of calls; 4, 1 and 2 of each together | ticks keep to the schedule and beats say what they cost (`TicksAccounted`); worlds and map are read as meant; batches arrive |
| `edge_panic` | 1 name, 2 regions, 2 entities: a violation | see section 5 |

The bounds are the least that let the interesting thing happen, and one more. A
slot must change hands while a name comes back elsewhere: two names, two slots,
three admissions. A payload must supersede one and be superseded: two
payloads while one is being brought. A teleport needs two keys. `edge_core` has
two names so that a client goes with its second entity, and a third key so that
a name is used again. A run of ghosts must wrap around the end of the table
while an eviction is in it: four ghosts in eight slots, with homes 0, 0, 6, 7
and 7 to choose from. `world` has homes on both sides of a sub-cell's border,
targets whose view reaches past one side and past a corner, two ids so that a
cell becomes dense and a cap cuts, and four operations so that an avatar leaves,
is hidden or is registered again. `replication` has a ghost set smaller than
what is near and a packet with fewer records than that, so that choice, eviction
and the backlog of despawns all happen; one move, one loss and one overtaking,
or any three of these. In `client` a call costs five of fifteen and a packet
three: three calls reach spawn, move and despawn of one handle from two threads.
Five packets reach a name announced by two regions, despawned by one and updated
by the other. A slot of the registry that changes hands twice, once before a table
is filled and once before it is labelled, is what `sink` needs three admissions
for. `control` runs its parts apart because they share nothing but the
heartbeat: eleven steps are three ticks, three observers, three waits and two
beats. Its deployments are a map that is there, missing, unreadable or faulty in
each way, and regions of another size, cell size or version. `MaxMessage` is
small enough that a batch of three is cut.

Other instances were run once while the models were written. What they showed
where a property failed is in section 5; these passed: three payloads in `Handoff`;
`Edges` by itself with 3 names, 3 slots and 4 admissions; `AnswersTrue` with 1 slot
and 3 commands, so that a despawn or a move waits under the id of an edge that was
dropped and replaced; `ClientsAgree` with 3 keys, where a region despawns an entity
or its copy unasked during a teleport; `ViewIsSent` and `NothingLingers` with 6
packets.

`CHECK_DEADLOCK FALSE` is set where a system may stop: a hand-off that was
dropped, an edge whose clients have nothing left to do, a client or a link at the
end of its bounds. `replication` and `world` never stop.

A name that stands for several (`RegistryAgrees`, `SessionAgrees`, `AnswersTrue`,
`SlotsAgree`, `EndsEmpty`, `TableSound`, `NothingLeftBehind`, `EntitiesKept`,
`RecordsAgree`, `SnapshotGathers`, `RegistrySound`, `TicksAccounted`,
`WorldsAgree`) is their conjunction, each stated by itself
above it.

### Fairness

`Edges`: the sweep runs (`tokio::time::interval`) and finishes a drop it began.
`RegionSession`: the tick loop, the command task and the sweep run. `Handoff`:
workers finish what they began (weak); the I/O thread runs or has panicked
(weak), and a lock that is free again and again is had in the end (strong,
`Mutex::lock`). `GhostTable`: an operation that was called runs. `EdgeServer`:
every thread finishes what it has in hand (weak), a region takes what it was
sent, a deadline passes (weak). Clients, the game, and what regions do unasked
are never made to act. `Replication`: the pacing loop goes on ticking, and a
datagram that is not lost arrives; since moves and losses are bounded, both
stop, which is what `ErrorIsTemporary` supposes. `World`, `EdgeClient`,
`Control` state no fairness.

## 4. What is proved

`SessionProofs`, of the registry by itself (any behaviour of `RegistrySpec`, whoever
makes the calls), for any number of edges, entities and slots: the type invariant,
`OwnersAgree`, `NamesDistinct`, `StaleAttached`, `CountersAgree`, and that
`Edges` implements `Ownership`. The first four are inductive together, and each
step lemma cites only what it needs: `AdmitNew` needs a free slot to be free in
both indices (`OwnersAgree`), `DetachOwners` needs the slot to hold what the
scan found (`StaleAttached`). `CountersAgree` rests on the type invariant and on
the cardinality of the set of attached edges, which is finite. The refinement
maps an entity to the *name* in its owner's slot; that a drop takes all of one
manager's entities and of no other is `OwnersAgree` and `NamesDistinct`.
Assumption: `EdgesAssumption` (there is a slot; `None` is neither a record nor a
name).

`ServingProofs`, of the hand-off, for any number of viewers and payloads: the type invariant,
`HintAgrees`, `NothingStuck`, `LatestLast`, `DropDrains`, `FlushEmpties`, and
that `Handoff` implements `Mailbox` (its safety part). What makes them inductive
are five facts about the threads: `LocksAgree` (who holds a slot's lock, and what
that says of the slot and its hint), `ThreadAgrees` (where the I/O thread is,
and what it has), `FramesBuilt` (payloads are built before they are anywhere),
`LastPassFinds` (in the pass after the loop a full slot is listed or still ahead
of the scan) and `FlushAgrees` (what a flush has looked at and found empty has
not what was asked for). Assumption: `HandoffAssumption`.

`ServingProofs`, of what is sent, for any entities and places, policy, weights and
budget: the type invariant, `PacketFits` and `DriftBoundsError`. That a packet fits
takes two facts. Ranks in the order of `Records` are distinct and without gaps, so
that no more are chosen than asked for (`RecordsFit`); and what is asked for is,
in whole records, what the despawns leave of the payload (`SlotsFit`).
`DriftBoundsError` relates the client to the table over all that is on its way:
`After` is what a client believes once some packets have come, and its laws, that
one packet more is adopted last and the first may as well have been adopted before,
are proved by taking the least packet at which two beliefs part. `DriftInv` then
says who is held while a despawn of its first stay still waits (`Owed`), that what
is neither held nor waits to be despawned is not believed in, and that the belief
about every other is within the drift (`Believed`). A reading is a sum modulo a
width, so a drift is one only while it does not come round a whole turn: `Bounded`
shares the turn out among the moves. `odometer.rs:20-23` says of itself that a
difference of a whole turn aliases, and after how much path;
`TurnAssumption` says that the instance makes none. The other assumptions:
`ReplicationAssumption` (a budget a viewer is accepted with), `WeightAssumption`
(weights are numbers: they are powers of two, of which the provers know nothing)
and `CodecAssumption` (places are such as a record keeps, the value of a codec).
TLC evaluates all of them on the run's constants.

`GhostTableProofs`, for any hash range, entities and sizes: the type invariant,
`Findable`, `HalfFull`, `PassedStay`, and that `GhostTable` implements `Ghosts`.
`Findable` says nothing of the turns of `remove_at`, so it is not inductive. What
is: `PathsTaken`, that the path from the home of a ghost to its slot is taken,
but for the hole while the entry has still to be looked at; `HoleBehind`, that
between the slot emptied and the slot looked at only the hole is vacant (with
`Counted`, this is why the loop meets a vacant slot before it is round, lemma
`NotRound`, and why nothing goes behind the scan, `PassedStep`); `Distinct` and
`OldDistinct`, that no entity has two ghosts, in the slots or in what a rehash has
still to move; and `Counted`, that `len` counts both and leaves room. Probes are
reasoned about through five facts on the circle of slots (`StepsInjective`,
`Further`, `Nearer`, `Detour`, `StepsAfter`) and `HomeIsSlot`, that the high bits
of a product name a slot; the tables' being powers of two is not needed.
Assumption: `GhostAssumption` (products are below the hash range, a table has two
slots or more). The refinement takes both the slots and what a rehash has still
to move for the map.

In the refinements the scan of the sweep and that of the drain are stutters; the
two halves of a drop are two steps of `Ownership` (`Lose`, `Orphan`).

`SessionProofs`, of the session, for any number of edges, slots, entities and commands: the type
invariant, `AliveAreManaged`, `OwnedAreAlive` (as the run states it, between
ticks), `OnlyManagerActs` and the rest of `AnswersTrue`. That it keeps
`Ownership` (`SessionKeepsOwnership`) needs no more than that its actions change
the registry by the operations of `Edges` and by nothing else (the lemma
`SessionUsesRegistry`, true by how they are written).
None of these is inductive alone. `TokensRise` orders the request ids along the
way of a command, so that an id is free for each spawn that waits; `OwnedAccounted`
and `DeadStayDead` say what a dead entity may still be listed in; `ToldOnce`, that
whatever was or will be reported gone has no manager, is what keeps the tick and
the sweep from reporting it twice; `CommandsHonest` ties a command to the slot its
sender had, since ids of edges change hands over a tick. `RemovedIsLast` and
`AddedExists`, and with them `SessionAgrees`, are proved under `GameIsPatient`:
the game does not despawn in a step what `apply` spawned in it. The code does not
enforce that; what happens otherwise is in section 5. Assumption:
`SessionAssumption`, that entity ids are dense from zero, as the world gives them
out, and that `None` is no value of what it stands in for.

`SessionProofs`, of the sink, for any number of edges, slots, viewers and senders:
the type invariant, `SubjectsCurrent` and `SubjectMet`. A table is labelled with a
generation that was read before it was filled, and is right because the registry
counts its generation up behind every change of a slot. So the invariant
(`SinkInv`) says that a table, or a generation that a call has read, is never
ahead of the registry's; that where it is level the table is the registry's
(`TableCurrent`), except for the slot a drop is about to publish; that what a call
will find there is of an edge it has met (`CallsMeet`, `WillHit`); and that a table
being filled is its writer's alone. Assumptions: `EdgesAssumption`,
`SinkAssumption`.

`EdgeServerProofs`, for any number of clients, handles, regions and entities,
with every command and event, hasty clients and late answers: the type invariant
and `IndexAgrees`. A step uses what an earlier one of its thread found, with
other threads in between, so `JobsReady` says for every `pc`, and for every place
a job returns to, what it then has in hand. `IndexAgrees` needs
`NoneReplacesItself`: otherwise a remap would take out of the index the entity it
has just put in. Assumption: `EdgeServerAssumption`.

`ClientsAgree` and `HandlesHeld` are proved there under `StayPut`: no teleport is
asked for, nothing crosses a border, and the game gives back only what it was told
of (`release` without `hasty`: in the code it has a key only once `spawn` returned).
This generalises the run `edge_core` to every number of clients, handles and
entities. Between the two maps and the table there are several locks, so neither
property is inductive: `HomeInv` says that an entity asked for is its thread's alone
until it is bound (`AsksAlone`), that one dropped is still owed an unbinding by the
thread that dropped it (`UnbindsAlone`), and that nothing else refers to what was
not bound (`Known`). `HomeStep` sorts the steps of the server by what they do to
this debt. With teleports an entity changes its key in mid-flight, and the two
stay model-checked (`edge_teleport`).

`EdgeFlowProofs` goes on from there, to what the server and its regions agree on once
all is quiet.

`NothingLeftBehind` is proved under `ClientsAsk`, which adds to `StayPut`
that no shadow comes into view and no game spawns for a client: either in flight
for a client that is leaving keeps what it stands for past the sweep, so the
property is not true with them. It again generalises `edge_core`, hasty clients and
late answers included. The property speaks of states in which all is quiet, and
the invariant says what holds before. `Flow` follows one entity through the queues
and back: it is asked for once and in its own region only, it is answered before it
has an id, and one that was given back is gone or its despawn is on the way.
`SweepInv` is the side of the client: what a stream that ends sweeps is all it owns
(`OwnTargets`, `LeaversFinish`), and what a client that left was due has been given
back by the threads that owed it (`AllDue`, `LeftNothing`).

`EdgeMatchesRegions` is proved under `ClientsWait`, which adds to `ClientsAsk`
that clients are not hasty. It is not true of hasty ones: `release` may find that
the region has not answered, the answer come and be read, and `forget` then drop an
entity that lives on. So the proof first shows that this cannot begin. `WaitInv`
says that while an entity carries a name its client was told of it only if the
region has answered (`NamesShown`), and so nobody is about to forget anything
(`AnswersFirst`); the reader, which tells the client, must tell it of the entity
that carries the name now (`Tells`). `SettleInv` is then the other half of `Flow`:
what the edge holds is in its region and in no other, and no longer alive once its
removal is reported (`Settled`); and what the edge does not hold is alive nowhere
and in no queue to become so (`Absent`).

`ShadowsListed` is proved under `StayPut` alone, so shadows come into view, go
and move while clients leave, edges are dropped and entities removed. A list is
written in one step and what it stands for changes in many, before it
and after. `ListInv` says how far the two may be apart meanwhile (`Matches`): what is
gone is about to be taken off, what stands for the observer and is not listed is
kept by the view in progress or about to go, and while the reader lets go of what a
view no longer has, the list holds what it kept and what it is letting go of. An
observer about to be swept is not held to it (`Excused`); that its shadows, the same
client's, are swept too is `SweptTogether`, and that no list names the shadow of
another `Lineage`. `Flow` is needed at the end only: once all is quiet, what was
given back is gone.

`ClockProofs`, for any period, pacing, oversleep and cost: typing, `OnSchedule`
(no burst after an overrun; a tick is late by its overrun and no more than the
pacing lets add up; slots tell the time) and `BeatsCover` (consecutive heartbeats
say of the ticks between them, each tick once, what they took). The schedule needs
how late the deadline may be when a tick starts (`Paced`) and that epoch and slot
add up lateness and drops (`Accounted`); the heartbeat, what the span since the
last take holds (`Loaded`) and what every beat took (`Beaten`). Sums over ticks
are recursive functions; their laws are proved by taking the least index at which
one fails. They are proved of `Clock` and carried to `Control`. Assumption:
`ClockAssumption`; that the oversleeps have a worst one is part of it, since
"late by at most" means nothing without.

`WorldProofs`, for any game and any number of viewers: the type invariant,
`ViewersAccounted`, and, for a region wider than two views (`Wide`), `ViewKnown`
and the action property `CellChangesReported`. Ids are accounted for by counting
the list of free ids (`IdsInv`). The reports need `Tracked`: the cell a viewer was
last served in is the one its subscription stands for. That is where `Wide` comes
in: in a narrower region a box is clipped on both sides and belongs to several
cells, and the property fails (section 5). `WorldAssumption`
states the sizes of the grid `Build` derives, because their being powers of two is
outside what the provers do; the runs evaluate it on their configurations.

`EdgeClientProofs`, for any number of threads, handles and moves in a call:
`HandlesSpentOnce`. A call settles under the lock what it sends after it, so the
invariant is about what each thread has made up its mind to send: it may still be
said (`Sendable`, `CallsSound`), no other thread is about to say it (`Alone`), and
what a handle is says what was not said of it (`LiveTells`). That nobody takes a
message for another's needs the kind and handle of what is spoken (`SpokenIs`),
which looks into the layouts of `Wire`. Assumption: `EdgeClientAssumption`.

The runs check these by the names of their conjunctions, and each conjunction is
a theorem: `RegistryAlwaysAgrees`, `SessionAlwaysAgrees`, `AnswersAlwaysTrue`,
`SlotsAlwaysAgree`, `AlwaysEndsEmpty`, `TableAlwaysSound`, `RecordsAlwaysAgree`,
`RegistryAlwaysSound`, `TicksAlwaysAccounted`.

Out of the prover's reach, and only model-checked: liveness (`SilentDropped`,
`OrphansLeave`, `NothingWaits`, `AwaitedEnd`, `OperationsEnd`,
`ErrorIsTemporary`), which needs fairness and ENABLED; and what rests on the value
of a fold, a sort or a codec for every input (`SnapshotGathers`, `StreamHeard`,
`ViewIsSent`, `NothingLingers`, the type invariants of `EdgeClient` and `Control`,
which say what was decoded), an induction over data the provers cannot
instantiate. Only model-checked so far: of `EdgeServer`, `EntitiesKept` and
`HeldNotLost`, which speak of entities in mid-flight, and the others while
entities teleport (`edge_teleport`); and `Link`'s `WorldsAgree` and `BatchesArrive`. Only proved: `CountersAgree`,
`SessionKeepsOwnership`, `SinkTypeOK` and `ReplicationTypeOK`.

## 5. Where the code and its documentation part

One run ends in a counterexample; `findings` in `PROJECT.json` quotes the
sentence it refutes.

* `edge_panic`: a client leaves during a teleport. Its sweep reads that the copy
  has no id; the reader sets the id and lets go of `entities`; the sweep forgets
  the copy; `complete_teleport` expects it, and panics with `entities` locked.

Others were met on the way. They are stated in the modules and hold no run of
their own; each shows with the constants given (one client, one name, and as
many keys, words and events as the numbers say).

| Property | Constants | What happens |
|---|---|---|
| `Edges!OnlySilentDropped` | 2 names, 2 slots | an edge heard from between the scan of `expire` and its drop is dropped |
| `RegionSession!AnsweredToAsker` | 2 names, 3 admissions, 1 entity | a spawn queued under an edge id is given to the edge that has the id at the tick |
| `RegionSession!AddedExists` | `GameDespawns = "anything"` | an entity spawned and despawned in one step is reported removed, then added, and its viewer stays |
| `Handoff!FlushDelivers` | 1 viewer, 1 payload | `flush` returns true with a payload swapped out and not brought |
| `EdgeSink!RoutedToManager` | 2 names, 1 slot, 2 admissions, 1 entity, 1 viewer | a slot changes hands between `edge_for` and `subject`: the payload goes to the edge that has the slot now, where `session.rs:532` has it go "to the edge that manages its avatar" |
| `EdgeSink!AddressedToWhom` | 1 name, 1 slot, 2 entities, 1 viewer | a payload waits in the hand-off while its viewer's id is given to another avatar, and goes out under that avatar's name; `viewer.rs:18-20` says "reuse is safe" |
| `RegionSession!ViewersWatchAlive` | as `session` | the sweep drops an edge and the game despawns one of its entities before the next `apply`: `settle` passes over what has no owner, `apply` over an orphan that is dead, and the viewer stays registered |
| `TransitionsEnd` | 2 keys, teleport | the destination answers after `begin_teleport` asked it for the copy (`handle.rs:1293`) and before it records the transition (1294-1311). `on_presence` finds no teleport to complete and sets the copy's id; `expire_transitions` takes the id for a teleport being completed and does not look at the transition again (1335). The entity stays in its origin, takes no other teleport, and what its client says to it is held and never sent. `CHANGELOG.md:32` says "`TELEPORT_TIMEOUT` (two seconds) bounds a transition" |
| `EdgeMatchesRegions` | 1 key, despawn, hasty | `release` finds no id and lets go of the lock; the answer is read; `forget` drops the record, and the entity lives on in its region with no edge to manage it. `handle.rs:626-628` has the arrival find an unrecognized token |
| `DisconnectedLast` | as `edge_core` | the reader forgets a leaving client's last entity; the stream task finds the client done and calls `disconnected`; the reader then calls `removed` for it |
| `GivenBackGoes` | 2 keys, despawn, teleport | an entity given back in transit lands if its destination answers before its origin has despawned it, and stays: `complete_teleport` does not look at `doomed` |
| `LeaversGo` | 2 keys, leave, view | the last entity of a leaver to go is a shadow: `disconnected` is never called |
| `LeaversGo` | 2 keys, leave, cross | a crossing begins during the sweep: its copy is bound to the leaver afterwards |
| `EdgeMatchesRegions` | 3 keys, 2 events, despawn, teleport; regions despawn and refuse | a region despawns an original unasked as its copy is asked for; `begin_teleport` gives the copy back as it is answered for: the record is dropped and the copy lives on in its region, as when `release` overtakes the answer |
| `OwnsNothing` | 1 key, leave, spawn | the game's `spawn` and the client's sweep cross: the entity stays |
| `NeverPanics` | 2 keys, teleport, late | `expire_transitions` forgets a copy just answered for: as `edge_panic` |
| `OneCopy` | 3 keys, teleport, cross | a command and a crossing both pass `begin_teleport`'s check |
| `HeardInOrder` | 2 keys, 2 words, say, teleport | a message said once the handle leads to the copy overtakes the held ones |
| `LastWordStands` | 3 keys, 2 words, say, teleport | a message held does not become the standing one, so the next teleport repeats an older one |
| `NeverNowhere` | 2 keys, teleport, late, or despawn by a region | the deadline gives a copy up as it is answered for; a region removes what it was not asked to |
| `HeldNotLost` | 3 keys, 2 words, 2 events, say, teleport, cross | a second `begin_teleport` overwrites what the first holds |
| `HeldNotLost` | 3 keys, 2 words, say, cross twice | a held message is published behind the despawn of what it is for |
| `World!CellChangesReported` | `RegionSize = 8`, one home at (6, 5, 0): a region two views wide, which `build` accepts | on both sides of the middle a view is clipped to one and the same box, so `serve`, which compares the clipped subscriptions (`world.rs:459`), does not see the viewer change cell; `world.rs:945` and `protocol.rs:398` have every change reported. The edge keeps the shadow on the side the view has left and asks for none where it now reaches |
| `EdgeClient!NotTakenAway` | 2 regions, 1 name, 6 packets of cost 1, no fault | a packet despawns a name and updates it again (`world.rs:491-524`); `deliver` settles the updates first (`client.rs:538-566`), so the region is taken out of `sending` though it goes on sending the name, and the other's despawn takes it from the game. `client.rs:65-68` has a despawn not reported while another region still sends the name |
| `Replication!ForgettingLeavesRoom` | as `replication`, `PayloadBytes = 32` | half of what a packet has for state holds a despawn, and what is left no record: as long as there is an entity to forget no record is sent. `register_viewer` takes such a payload, and `world.rs:490-491` says that a viewer "cannot spend a whole packet forgetting things" |
| `Control!NextBeatCarries` | as `control`, the loop alone | the span of a heartbeat whose publish fails is in no later one; `region/server.rs:184` has "the next beat" carry it |
| `Control!CountsAddUp` | as `control`, the loop alone | `tick_count` is a total where `control.rs:66` says "Ticks in the span". (`viewers` is an average over the ticks where `control.rs:73` says "registered at the end".) |

Read in the code while it was translated, and visible in the models as said:

* A despawn that waits for room deletes an entity that was sent again meanwhile
  (`sim/world.rs:493`); the refresh mends it. `DriftBoundsError` excepts these
  (`doomed`), `ErrorIsTemporary` does not.
* An entity that leaves, comes back and leaves again while despawns wait for room
  is in `pending_despawns` twice; the second notice is harmless (`Serve`).
* A despawn that is lost is not sent again: `ErrorIsTemporary` says that nothing
  else is held only if nothing was lost.
* `select.rs:54-58` and `DESIGN.md:765-768` call starvation structurally
  impossible. That is so of an entity that is held and moves; the score of one
  never sent, or due for a refresh, is `unseen_drift` times its weight and does
  not grow, so a packet's worth of nearer movers can keep it out
  (`Replication!Score`).
* `select::nearest` computes `cap - 1`, which underflows at `ghost_cap` 0; the
  run takes a cap of two.
* `game.rs:343` calls `disconnected` the last call; `read_stream` and
  `read_datagrams` are two tasks, and the second may still be in a call.
* `client.rs:100-103` says nothing else is sent under a handle between its despawn
  and its reuse; `entity_send` does not look at `live`, and `teleport` and `move`
  send after they let go of it. `HandlesSpentOnce` claims neither.
* `Framer::frame` does not check `MAX_MESSAGE_BYTES`: a game's message above it
  makes the edge close the connection (`StreamHeard` says for nothing else).
* Moves on datagrams may overtake one another; the edge takes the last to come.
* A region that does not answer `tell_the_world` is not announced to clients,
  which drop its packets until another spawn asks again (`server.rs:726`).
* `expire_transitions` forgets the copy of an entity that is still there; of one
  whose original is gone, and that the destination refused, the record stays until
  its client leaves (`GiveUp`).
* A tick that begins exactly on its deadline, with nothing to wait for, is counted
  in `RunSummary::late`, late by nothing (`sim/clock.rs:193-196`).
* `map.rs:216-222` says a broker that cannot be read is an error; a bucket that
  cannot be had, for whatever reason, is no map (`ReadMap`).
* The edge takes the size of all regions from the first placed one to answer, and
  checks no other against it; `LocatesBack` supposes they are equal. What it
  learned it keeps for its lifetime.
* `Codec::encode` masks nothing (`codec.rs:79`): a position outside the region's
  box spills into its neighbour's bits. `positions_mut` lets a game put one
  there; a viewer whose avatar stands there is skipped (`Served`).

## 6. What is not modelled

`PROJECT.json` lists every part under `components`.

* The counters of `EdgeSink` and its `flush`. `EdgeSink` takes the mailboxes of the
  hand-off and not its locks, and the registry and not the session: which entity is
  bound, served or claimed next is any.
* `drain_messages`, the queue of game messages of a region; the edge's pending
  positions (`set_positions`, `queue_move`, `held_move`), which are latest-only
  and superseded by the next; the edge's own heartbeat counters.
* QUIC and NATS themselves: models take from them order per stream or per
  publisher, datagrams that are lost or overtaken, and messages that are lost.
  Regions in `EdgeServer` never restart, and its link drops nothing: the code has
  no recovery for either that a model could check.
* Statistics, `Display`, and which error a refusal is reported as.
* The consumer's traits (`game.rs`, `sim/sink.rs`): models call them where the
  code does and let them do anything. Tests, benches and examples were read for
  what they expect.

## 7. Plan

Done: registry, session, sink, hand-off, ghost table, edge server, world, replication,
packets, edge client, clock, link and control plane; the abstract specifications
`Ownership`, `Mailbox`, `Ghosts`; proofs about the registry, the session, the sink, the
hand-off, the ghost table, the clock, the world, what a packet holds and how far
its client may be wrong, the client's handles, the edge server's indices and its
clients', and, without teleports, what it and its regions agree on.

Next, in order:

1. `EdgeFlowProofs`: `EntitiesKept` while entities teleport, by a `Flow` that
   follows an entity from one key to the next.
2. `Link`, beside `Clock` in `ClockProofs`: `WorldsAgree` and `BatchesArrive`, as
   far as they do not rest on a codec.
