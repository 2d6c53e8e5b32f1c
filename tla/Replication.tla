---------------------------- MODULE Replication ----------------------------
(***************************************************************************)
(* What one viewer is sent: the choice of records (select.rs), the packet  *)
(* `serve` builds from it (sim/world.rs), the datagram's way to the client *)
(* and a client that adopts what it is told.                               *)
(*                                                                         *)
(* Entities stand on a line with the viewer, and are walked in the order   *)
(* of their ids.  The ghost table is the map GhostTable implements: who is *)
(* held, with what was last sent and when.  Datagrams are kept in the      *)
(* order they were sent; one is lost or overtaken as a fault, and QUIC     *)
(* delivers none twice.                                                    *)
(***************************************************************************)
EXTENDS Wire, TLC

CONSTANTS
    RegionSize, VerticalExtent, ViewRadius, MaxSpeed, TickHz,
    Entity,             \* entity ids
    ViewerAt,           \* where the viewer stands
    Places,             \* where entities may stand
    Start,              \* where each begins
    FirstReading,       \* where the odometer of each begins
    GhostCap, Grace, UnseenDrift, Refresh,                  \* Policy
    NearBand, WeightBits, KHalves,                          \* Weights
    DistShift,          \* DIST_SHIFT
    ScoreMax,           \* u32::MAX
    ReadingMod, TickMod, SequenceMod,       \* the widths of the counters
    MaxTrouble, MaxFlight                   \* bounds of the instance

cfg == Build(Authored(RegionSize, VerticalExtent, ViewRadius, MaxSpeed,
                      TickHz))

(* The budget of a served viewer charges at least the header (a test pins  *)
(* it to PacketHeader::BYTES).  That extents have a number of bits is      *)
(* stated of these constants: it rests on the value of an exponent.        *)
ASSUME ReplicationAssumption ==
    /\ Entity \subseteq Nat /\ IsFiniteSet(Entity)
    /\ Places \subseteq Int /\ Start \in [Entity -> Places]
    /\ BudgetOk(cfg) /\ HeaderBytes >= 16
    /\ {PayloadBytes, HeaderBytes, EventReserve,
        cfg.horizontal_bits, cfg.vertical_bits} \subseteq Nat
    /\ {GhostCap, Grace, UnseenDrift, Refresh, ScoreMax,
        MaxTrouble, MaxFlight} \subseteq Nat
    /\ {ReadingMod, TickMod, SequenceMod} \subseteq Nat \ {0}
    /\ FirstReading \in 0 .. (ReadingMod - 1)
    /\ None \notin Places
    /\ None \notin [mark : Nat, last_seen : Nat, last_sent : Nat]

VARIABLES
    tick,
    shown,          \* entities in the snapshot
    where,          \* where each stands
    reading,        \* the odometer
    stepped,        \* entities that moved since the last tick
    ghosts,         \* ghosts[e] is what the table holds of e, or None
    pending,        \* pending_despawns
    sequence,
    net,            \* datagrams on their way, the oldest first
    client,         \* where the client believes each entity is, or None
    moves, faults,  \* together no more than MaxTrouble
    doomed          \* history: sent while a despawn of the same still waited

world == <<shown, where, reading, stepped, moves>>
serving == <<tick, ghosts, pending, sequence, doomed>>
replicationVars == <<world, serving, net, client, faults>>

ReplicationInit ==
    /\ tick = 0 /\ sequence = 0
    /\ shown = Entity /\ where = Start /\ stepped = {}
    /\ reading = [e \in Entity |-> FirstReading]
    /\ ghosts = [e \in Entity |-> None]
    /\ pending = <<>> /\ net = <<>>
    /\ client = [e \in Entity |-> None]
    /\ moves = 0 /\ faults = 0 /\ doomed = {}

(***************************************************************************)
(* select.                                                                 *)
(***************************************************************************)
DistAt ==
    [p \in Places |-> DistSq(At(ViewerAt, 0, 0), At(p, 0, 0))]

(* Weights::inverse_power and band_of.                                     *)
BandOf(dist) == Log2(Larger(dist - (dist % 2) + 1, 1))
Weight(band) ==
    2^Larger(WeightBits - (Larger(band - NearBand, 0) * KHalves) \div 4, 0)
WeightAt == [p \in Places |-> Weight(BandOf(DistAt[p]))]

(* Likewise a weight, which is a power of two.                             *)
ASSUME WeightAssumption == \A p \in Places : WeightAt[p] \in Nat

(* What the walk hands to select.  The viewer stands still: its avatar is  *)
(* shown, at ViewerAt, and none of the entities here (serve passes over a  *)
(* viewer whose avatar is gone); and the walk is not cut off.  Avatars     *)
(* that move and go, and the cap of the walk, are in World.                *)
Candidates ==
    {e \in shown : DistAt[where[e]] <= ViewRadius * ViewRadius}

(* packed_dist.                                                            *)
PackedDist == [p \in Places |-> DistAt[p] \div 2^DistShift]

(* nearest: the first GhostCap, ties to the order of the walk.             *)
GhostSet ==
    LET candidates == Candidates
        nearer(f, e) ==
            \/ PackedDist[where[f]] < PackedDist[where[e]]
            \/ PackedDist[where[f]] = PackedDist[where[e]] /\ f < e
    IN  {e \in candidates :
            Cardinality({f \in candidates : nearer(f, e)}) < GhostCap}

Moved(e) == (reading[e] - ghosts[e].mark) % ReadingMod
NeverStale(e) == FALSE
Stale(e) == Refresh # 0 /\ (tick' - ghosts[e].last_sent) % TickMod >= Refresh
Drift(e) ==
    IF ghosts[e] = None THEN UnseenDrift
    ELSE IF Stale(e) THEN Larger(Moved(e), UnseenDrift)
    ELSE Moved(e)

Score(e) == Smaller(Drift(e) * WeightAt[where[e]], ScoreMax)

(* Highest score first; then the known, then the order of the walk: the    *)
(* prefix that fits and is worth sending.                                  *)
Records(set, slots) ==
    LET score == [e \in set |-> Score(e)]
        ahead(e, f) ==
            \/ score[e] > score[f]
            \/ /\ score[e] = score[f]
               /\ \/ ghosts[e] # None /\ ghosts[f] = None
                  \/ (ghosts[e] = None <=> ghosts[f] = None) /\ e < f
        rank == [e \in set |-> Cardinality({f \in set : ahead(f, e)})]
        chosen == {e \in set : rank[e] < slots /\ score[e] > 0}
    IN  [i \in 1 .. Cardinality(chosen) |->
            CHOOSE e \in chosen : rank[e] = i - 1]

(* A table that marks what it saw, and not what it sent.                   *)
MarkedOnSight(set, sent) ==
    [e \in Entity |->
        IF e \in sent \/ (ghosts[e] # None /\ e \in set)
        THEN [mark |-> reading[e], last_seen |-> tick', last_sent |-> tick']
        ELSE ghosts[e]]

(* GhostTable::sent, seen, and then evict.                                 *)
Stamped(set, sent) ==
    [e \in Entity |->
        IF e \in sent
        THEN [mark |-> reading[e], last_seen |-> tick', last_sent |-> tick']
        ELSE IF ghosts[e] # None /\ e \in set
        THEN [ghosts[e] EXCEPT !.last_seen = tick']
        ELSE ghosts[e]]

Departed(table) ==
    {e \in Entity : table[e] # None
        /\ (tick' - table[e].last_seen) % TickMod > Grace}

(***************************************************************************)
(* The world.                                                              *)
(***************************************************************************)
(* An entity moves in the game's step; the odometer adds what it went.     *)
Move(e, place) ==
    /\ moves + faults < MaxTrouble /\ e \in shown \ stepped /\ place # where[e]
    /\ moves' = moves + 1
    /\ stepped' = stepped \cup {e}
    /\ where' = [where EXCEPT ![e] = place]
    /\ reading' = [reading EXCEPT
                      ![e] = (@ + AbsDiff(place, where[e])) % ReadingMod]
    /\ UNCHANGED <<shown, serving, net, client, faults>>

Despawn(e) ==
    /\ moves + faults < MaxTrouble /\ e \in shown
    /\ moves' = moves + 1
    /\ shown' = shown \ {e}
    /\ UNCHANGED <<where, reading, stepped, serving, net, client, faults>>

(* "A true difference of 2^32 units or more aliases": no reading of the     *)
(* instance comes round a whole turn.                                      *)
ASSUME TurnAssumption ==
    \A p, q \in Places : MaxTrouble * AbsDiff(p, q) < ReadingMod

(***************************************************************************)
(* serve: what waits goes first, in half a packet; what departs now waits  *)
(* for the next.  The table reports what it evicts in the order of its     *)
(* slots, which is any order.                                              *)
(***************************************************************************)
Room == DespawnRoom
SlotsUncharged == [n \in 0 .. Room |-> Slots(cfg, 0)]
SlotsWith == [n \in 0 .. Room |-> Slots(cfg, n)]
Written ==
    [e \in Entity |-> [p \in Places |-> EncodeRecord(cfg, e, At(p, 0, 0), 0)]]

Serve ==
    LET taking == Smaller(Len(pending), Room)
        set == GhostSet
        sent == Records(set, SlotsWith[taking])
        names == {sent[i] : i \in DOMAIN sent}
        table == Stamped(set, names)
        departed == Departed(table)
        waits == SubSeq(pending, taking + 1, Len(pending))
    IN  /\ Len(net) < MaxFlight
        /\ tick' = (tick + 1) % TickMod
        /\ sequence' = (sequence + 1) % SequenceMod
        /\ stepped' = {}
        /\ ghosts' = [e \in Entity |->
                         IF e \in departed THEN None ELSE table[e]]
        /\ \E order \in SetToSeqs(departed) : pending' = waits \o order
        /\ net' = Append(net,
                         Packet(tick', sequence', SubSeq(pending, 1, taking),
                                [i \in DOMAIN sent |->
                                    Written[sent[i]][where[sent[i]]]]))
        /\ doomed' = (doomed \ (names \cup departed))
                         \cup (names \cap {waits[i] : i \in DOMAIN waits})
        /\ UNCHANGED <<shown, where, reading, moves, client, faults>>

(***************************************************************************)
(* The link and the client: it drops, and then it adds.                    *)
(***************************************************************************)
WhatItReads ==
    [r \in {Written[e][p] : e \in Entity, p \in Places} |->
        DecodeRecord(cfg, r).pos.x]

(* The places are such as the codec keeps: what `put` packs, `get` reads.  *)
ASSUME CodecAssumption ==
    \A e \in Entity, p \in Places : WhatItReads[Written[e][p]] = p

Adopt(belief, p) ==
    LET reads(e) == {WhatItReads[p.records[i]] :
                        i \in {j \in DOMAIN p.records :
                                  p.records[j].name = e}}
    IN  [e \in Entity |->
            IF reads(e) # {} THEN CHOOSE x \in reads(e) : TRUE
            ELSE IF e \in {p.despawns[i] : i \in DOMAIN p.despawns} THEN None
            ELSE belief[e]]

Deliver(i) ==
    /\ i > 1 => moves + faults < MaxTrouble
    /\ faults' = IF i > 1 THEN faults + 1 ELSE faults
    /\ client' = Adopt(client, net[i])
    /\ net' = RemoveAt(net, i)
    /\ UNCHANGED <<world, serving>>

Lose(i) ==
    /\ moves + faults < MaxTrouble
    /\ faults' = faults + 1
    /\ net' = RemoveAt(net, i)
    /\ UNCHANGED <<world, serving, client>>

ReplicationNext ==
    \/ \E e \in Entity, place \in Places : Move(e, place)
    \/ \E e \in Entity : Despawn(e)
    \/ Serve
    \/ \E i \in DOMAIN net : Deliver(i) \/ Lose(i)

(* The pacing loop goes on ticking, and a datagram that is not lost        *)
(* arrives.  Only Serve moves the tick, and a link that delivers always    *)
(* has room for it again.                                                  *)
ReplicationSpec ==
    /\ ReplicationInit /\ [][ReplicationNext]_replicationVars
    /\ []<><<tick' # tick>>_replicationVars
    /\ WF_replicationVars(net # <<>> /\ Deliver(1))

-----------------------------------------------------------------------------
(***************************************************************************)
(* Properties.                                                             *)
(***************************************************************************)
(* Every counter stays within its width, every packet on its way is made of*)
(* records that were written, and the client knows places and nothing else.*)
PacketType ==
    [tick : 0 .. (TickMod - 1), sequence : 0 .. (SequenceMod - 1),
     despawns : Seq(Entity), over : {0},
     records : Seq({Written[e][p] : e \in Entity, p \in Places})]

GhostType ==
    [mark : 0 .. (ReadingMod - 1), last_seen : 0 .. (TickMod - 1),
     last_sent : 0 .. (TickMod - 1)]

ReplicationTypeOK ==
    /\ tick \in 0 .. (TickMod - 1) /\ sequence \in 0 .. (SequenceMod - 1)
    /\ shown \subseteq Entity /\ stepped \subseteq Entity
    /\ where \in [Entity -> Places]
    /\ reading \in [Entity -> 0 .. (ReadingMod - 1)]
    /\ ghosts \in [Entity -> {None} \cup GhostType]
    /\ pending \in Seq(Entity) /\ net \in Seq(PacketType)
    /\ client \in [Entity -> Places \cup {None}]
    /\ Len(net) <= MaxFlight /\ doomed \subseteq Entity
    /\ moves \in Nat /\ faults \in Nat /\ moves + faults <= MaxTrouble

(* What the client will believe once all that is on its way has come.      *)
Told ==
    LET after[i \in 0 .. Len(net)] ==
            IF i = 0 THEN client ELSE Adopt(after[i - 1], net[i])
    IN  after[Len(net)]

(* Over a link that loses and reorders nothing, the client holds what the  *)
(* table says it holds, each no further from where it stands than the      *)
(* odometer says it drifted since it was sent, and holds nothing else but  *)
(* what waits to be despawned.  The one exception is an entity sent again  *)
(* while a despawn of its first stay still waited for room.                *)
DriftBoundsError ==
    LET told == Told
    IN  faults = 0 =>
            \A e \in Entity \ doomed :
                IF ghosts[e] # None
                THEN told[e] # None /\ AbsDiff(told[e], where[e]) <= Moved(e)
                ELSE told[e] # None => e \in {pending[i] : i \in DOMAIN pending}

(* A packet never passes the payload the client declared, whatever waits   *)
(* to be despawned and however many records it was thought to have room    *)
(* for.                                                                    *)
PacketFits == \A i \in DOMAIN net : PacketSize(cfg, net[i]) <= PayloadBytes

(* serve: despawns take at most half the payload, so that a viewer "cannot *)
(* spend a whole packet forgetting things": a packet that has despawns has *)
(* room for a record as well.                                              *)
ForgettingLeavesRoom ==
    \A i \in DOMAIN net :
        net[i].despawns # <<>> => SlotsWith[Len(net[i].despawns)] > 0

(* "the exchange is that error becomes temporary instead of permanent":    *)
(* once nothing moves and nothing more is lost, the client sees every      *)
(* entity of its ghost set where it stands, whatever was lost or came late *)
(* before; and if nothing was, it sees nothing else.                       *)
ErrorIsTemporary ==
    <>[](LET set == GhostSet
         IN  /\ \A e \in set : client[e] = where[e]
             /\ faults = 0 => \A e \in Entity \ set : client[e] = None)
=============================================================================
