-------------------------------- MODULE Link --------------------------------
(***************************************************************************)
(* The link between an edge and its regions over a broker                  *)
(* (net/region/client.rs, net/region/server.rs, map.rs and the part of     *)
(* net/edge/server.rs that learns the map and the worlds).                 *)
(*                                                                         *)
(* An edge server reads the map when it is built and asks a region for its *)
(* world when it first needs it.  Commands are cut into messages, and what *)
(* comes back is told apart by subject.  The broker delivers at most once, *)
(* in order from one publisher to one subscription.                        *)
(***************************************************************************)
EXTENDS Wire, TLC

CONSTANTS
    Region, Edge,
    Meter,              \* raw units to a meter
    OurVersion,         \* PROTOCOL_VERSION
    MapVersion,         \* WorldMap::VERSION
    Deployments,        \* what may be deployed: worlds, versions, bucket
    Calls,              \* commands an edge gives: a kind and how many
    Reports,            \* what a region sends an edge
    Failed,            \* an error, where a value was asked for
    MaxTrouble          \* bound: messages lost and publishes that fail

ASSUME LinkAssumption ==
    /\ Meter \in Nat \ {0} /\ OurVersion \in Nat /\ MaxTrouble \in Nat
    /\ \A c \in Calls : c.kind \in 1 .. 5 /\ c.count \in Nat

VARIABLES
    deployed,       \* the deployment this is
    map,            \* None, Failed, or the map the edge server keeps
    known,          \* worlds: what regions answered; size: what was learned
    bus,            \* messages on their way, in the order published
    minted,         \* items are numbered as they are said
    said,           \* history: items published
    got,            \* history: items a receiver read
    lost,           \* history: items that fell to the floor
    admitted,       \* admitted[r]: the edges r has heard from
    trouble         \* bounded by MaxTrouble

traffic == <<bus, minted, said, got, lost, admitted, trouble>>
linkVars == <<deployed, map, known, traffic>>

Nothing == [worlds |-> [r \in Region |-> None], size |-> None]

LinkInit ==
    /\ deployed \in Deployments
    /\ map = None /\ known = Nothing
    /\ bus = <<>> /\ minted = 0
    /\ said = {} /\ got = <<>> /\ lost = {}
    /\ admitted = [r \in Region |-> {}]
    /\ trouble = 0

(***************************************************************************)
(* The worlds.  A region sends the five numbers that were authored, in     *)
(* whole meters, and a digest; the edge derives the rest.                  *)
(***************************************************************************)
(* with_cell_size_m: the one configuration the builder does not derive.    *)
CellSizeFits(cfg, m) ==
    LET size == m * Meter
    IN  /\ size > 0 /\ IsPowerOfTwo(size)
        /\ cfg.authored.region_size % size = 0
        /\ cfg.max_move_per_tick < size

WithCellSize(cfg, m) ==
    [cfg EXCEPT !.grid = Grid(cfg.authored.region_size, m * Meter,
                              cfg.authored.horizontal_view_radius)]

Params(cfg) ==
    [f \in Distances |-> cfg.authored[f] \div Meter]
        @@ [tick_hz |-> cfg.authored.tick_hz, hash |-> ProtocolHash(cfg)]

ToConfigUnchecked(p) ==
    Build(Authored(p.region_size * Meter, p.vertical_extent * Meter,
                   p.horizontal_view_radius * Meter,
                   p.max_horizontal_speed * Meter, p.tick_hz))

ToConfig(p) ==
    LET raw(f) == p[f] * Meter
        authored == Authored(raw("region_size"), raw("vertical_extent"),
                             raw("horizontal_view_radius"),
                             raw("max_horizontal_speed"), p.tick_hz)
    IN  IF BuildError(authored) # "Ok" \/ ProtocolHash(Build(authored)) # p.hash
        THEN Failed ELSE Build(authored)

(* serve_info: the reply, encoded once.                                    *)
ServerInfo(r) ==
    EncodeBody(InfoLayout,
               [protocol |-> deployed.versions[r], major |-> 0, minor |-> 1,
                patch |-> 0, region |-> r] @@ Params(deployed.worlds[r]))

(* RegionClient::info, when there is an answer.                            *)
Offer(r) ==
    LET info == DecodeBody(InfoLayout, ServerInfo(r), <<>>)
    IN  IF info = Malformed \/ info.protocol # OurVersion THEN Failed
        ELSE ToConfig(info)

(* world_of: asked once and cached, unless there was no answer.            *)
WorldOf(m, k, r, answering) ==
    IF k.worlds[r] # None \/ r \notin answering \/ Offer(r) = Failed THEN k
    ELSE [worlds |-> [k.worlds EXCEPT ![r] = Offer(r)],
          size |-> IF k.size = None /\ PlacementOf(m, r) # None
                   THEN Offer(r).authored.region_size ELSE k.size]

(* The first placed region to answer.                                      *)
LearnRegionSize(m, k, answering) ==
    FoldLeft(LAMBDA kk, p : IF kk.size # None THEN kk
                            ELSE WorldOf(m, kk, p.region, answering),
             k, m)

ReadMapInPart(bucket) ==
    IF bucket.key = "there" THEN bucket.bytes.records ELSE <<>>

(* WorldMap::read: no bucket, a bucket that cannot be had, and no key are  *)
(* all a map of islands.                                                   *)
ReadMap(bucket) ==
    IF bucket.store # "there" \/ bucket.key = "missing" THEN <<>>
    ELSE IF bucket.key = "unreadable"
            \/ DecodeError(bucket.bytes, MapVersion) # "Ok" THEN Failed
    ELSE bucket.bytes.records

(* EdgeServer::new.                                                        *)
StartEdge(answering) ==
    /\ map = None
    /\ map' = ReadMap(deployed.bucket)
    /\ known' = IF map' = Failed THEN known
                ELSE LearnRegionSize(map', known, answering)
    /\ UNCHANGED <<deployed, traffic>>

Serving == map \notin {None, Failed}

(* The publishing thread: before a spawn, and again with the keepalives.   *)
TellTheWorld(r, answers) ==
    /\ Serving
    /\ known' = WorldOf(map, known, r, IF answers THEN {r} ELSE {})
    /\ UNCHANGED <<deployed, map, traffic>>

LearnAgain(answering) ==
    /\ Serving
    /\ known' = LearnRegionSize(map, known, answering)
    /\ UNCHANGED <<deployed, map, traffic>>

(***************************************************************************)
(* The broker.                                                             *)
(***************************************************************************)
Subscriptions ==
    {[who |-> r, pattern |-> <<"umwelt", ToString(r), "edge", "*", "command">>] :
         r \in Region}
        \cup {[who |-> e, pattern |-> <<"umwelt", "*", "edge", e, leaf>>] :
                 e \in Edge, leaf \in {"state", "presence"}}

(* One copy to each subscription; `items` is what it carries.              *)
Publish(queue, from, subject, body, items) ==
    FoldSet(LAMBDA s, q : Append(q, [from |-> from, to |-> s, body |-> body,
                                     subject |-> subject, items |-> items]),
            queue, {s \in Subscriptions : Matches(s.pattern, subject)})

Item(from, to, what, n) == [from |-> from, to |-> to, what |-> what, n |-> n]

(***************************************************************************)
(* Commands, edge to region.                                               *)
(***************************************************************************)
Listed(kind, n) ==
    [f \in {ToRegionItems[kind][i].name : i \in DOMAIN ToRegionItems[kind]} |->
        IF f \in {"id", "token", "name"} THEN n ELSE 0]

ChunkOfDropping(items, size) ==
    [i \in 1 .. Len(items) \div size |->
        SubSeq(items, (i - 1) * size + 1, i * size)]

(* slice::chunks.                                                          *)
ChunkOf(items, size) ==
    [i \in 1 .. (Len(items) + size - 1) \div size |->
        SubSeq(items, (i - 1) * size + 1, Smaller(i * size, Len(items)))]

(* The messages of a call, each with the numbers it carries.               *)
Messages(c) ==
    LET numbers == [i \in 1 .. c.count |-> minted + i]
        batches == ChunkOf(numbers, MaxPerMessage[c.kind])
    IN  IF c.kind <= 3
        THEN [i \in DOMAIN batches |->
                 [numbers |-> batches[i],
                  message |-> [kind |-> c.kind,
                               items |-> [j \in DOMAIN batches[i] |->
                                             Listed(c.kind, batches[i][j])]]]]
        ELSE IF c.kind = 4
        THEN <<[numbers |-> <<>>, message |-> [kind |-> 4]]>>
        ELSE IF c.count > MaxMessage - 5 THEN <<>>
        ELSE <<[numbers |-> <<minted + 1>>,
                message |-> [kind |-> 5, id |-> minted + 1,
                             body |-> [i \in 1 .. c.count |-> <<"game", i>>]]]>>

(* What a call asks to have carried, if it is not refused.                 *)
Asked(e, r, c) ==
    LET last == IF c.kind # 5 THEN c.count
                ELSE IF c.count > MaxMessage - 5 THEN 0 ELSE 1
    IN  {Item(e, r, <<"command", c.kind>>, minted + i) : i \in 1 .. last}

(* send_all: the first publish to fail ends it.                            *)
Call(e, r, c, published) ==
    LET all == Messages(c)
        items(i) == {Item(e, r, <<"command", c.kind>>, all[i].numbers[j]) :
                        j \in DOMAIN all[i].numbers}
    IN  /\ published \in 0 .. Len(all)
        /\ trouble' = trouble + (IF published < Len(all) THEN 1 ELSE 0)
        /\ trouble' <= MaxTrouble
        /\ bus' = FoldLeft(LAMBDA q, i :
                               Publish(q, e, EdgeSubject(r, e, "command"),
                                       Encode(ToRegion, all[i].message),
                                       items(i)),
                           bus, [i \in 1 .. published |-> i])
        /\ said' = said \cup IF published = Len(all) THEN Asked(e, r, c)
                             ELSE UNION {items(i) : i \in 1 .. published}
        /\ minted' = minted + c.count
        /\ UNCHANGED <<deployed, map, known, got, lost, admitted>>

(* serve_commands and Inbound::accept: the sender is in the subject.       *)
ReadCommand(r, m) ==
    LET name == Sender(m.subject)
        c == Decode(ToRegion, m.body)
        numbers == IF c = Malformed \/ c.kind = 4 THEN <<>>
                   ELSE IF c.kind = 5 THEN <<c.id>>
                   ELSE [i \in DOMAIN c.items |->
                            IF c.kind = 1 THEN c.items[i].token
                            ELSE c.items[i].id]
    IN  /\ admitted' = IF name = Malformed THEN admitted
                       ELSE [admitted EXCEPT ![r] = @ \cup {name}]
        /\ got' = IF name = Malformed THEN got
                  ELSE got \o [i \in DOMAIN numbers |->
                                  Item(name, r, <<"command", c.kind>>,
                                       numbers[i])]

(***************************************************************************)
(* What comes back.  The entity of a packet is its first four bytes.       *)
(***************************************************************************)
Report(r, e, kind) ==
    LET n == minted + 1
        leaf == IF kind = 0 THEN "state" ELSE "presence"
        body == IF kind = 0 THEN Bytes(n, 4) \o <<<<"packet", 1>>>>
                ELSE Encode(PresenceOf,
                            [kind |-> kind, id |-> n, token |-> n,
                             x |-> 0, y |-> 0, z |-> 0])
        item == Item(r, e, <<leaf, kind>>, n)
    IN  /\ e \in admitted[r]
        /\ bus' = Publish(bus, r, EdgeSubject(r, e, leaf), body, {item})
        /\ said' = said \cup {item}
        /\ minted' = n
        /\ UNCHANGED <<deployed, map, known, got, lost, admitted, trouble>>

(* read_state and read_presence.                                           *)
ReadReport(e, m) ==
    LET r == OriginOf(m.subject)
        leaf == m.to.pattern[5]
        p == IF leaf = "state" THEN Malformed ELSE Decode(PresenceOf, m.body)
        seen == IF leaf = "state" /\ Len(m.body) >= 4
                THEN <<Item(r, e, <<"state", 0>>,
                            Number(SubSeq(m.body, 1, 4)))>>
                ELSE IF p = Malformed THEN <<>>
                ELSE <<Item(r, e, <<"presence", p.kind>>, p.id)>>
    IN  /\ got' = IF r = Malformed THEN got ELSE got \o seen
        /\ UNCHANGED admitted

(* The next one from its publisher to its subscription.                    *)
NextInLine(i) == \A j \in 1 .. (i - 1) : <<bus[j].from, bus[j].to>>
                                        # <<bus[i].from, bus[i].to>>

Deliver(i) ==
    /\ i \in DOMAIN bus /\ NextInLine(i)
    /\ IF bus[i].to.who \in Region THEN ReadCommand(bus[i].to.who, bus[i])
       ELSE ReadReport(bus[i].to.who, bus[i])
    /\ bus' = RemoveAt(bus, i)
    /\ UNCHANGED <<deployed, map, known, minted, said, lost, trouble>>

Lose(i) ==
    /\ i \in DOMAIN bus /\ trouble < MaxTrouble
    /\ bus' = RemoveAt(bus, i)
    /\ lost' = lost \cup bus[i].items
    /\ trouble' = trouble + 1
    /\ UNCHANGED <<deployed, map, known, minted, said, got, admitted>>

AskNext ==
    \/ \E answering \in SUBSET Region : StartEdge(answering)
    \/ \E r \in Region, answers \in BOOLEAN : TellTheWorld(r, answers)
    \/ \E answering \in SUBSET Region : LearnAgain(answering)

TalkNext(calls) ==
    \/ \E e \in Edge, r \in Region, c \in calls : \E k \in 0 .. (c.count + 1) :
           Call(e, r, c, k)
    \/ \E e \in Edge, r \in Region, kind \in Reports : Report(r, e, kind)
    \/ \E i \in DOMAIN bus : Deliver(i) \/ Lose(i)

(***************************************************************************)
(* Properties.                                                             *)
(***************************************************************************)
(* What the edges know and what the broker carries is well formed, and no  *)
(* message is larger than the broker takes.                                *)
LinkTypeOK ==
    /\ deployed \in Deployments
    /\ map \in {None, Failed} \/ Placed(map) \subseteq
           [region : Region, square : [col : Fixed, row : Fixed]]
    /\ known.size \in {None} \cup Fixed
    /\ \A r \in Region : admitted[r] \subseteq Edge
    /\ \A i \in DOMAIN bus : Len(bus[i].body) <= MaxMessage
    /\ lost \subseteq said /\ trouble \in 0 .. MaxTrouble

(* An edge that took a region's offer reads it the way the region writes:  *)
(* every place the region can send comes out of its record where it went   *)
(* in, in the same cell, and the region speaks this edge's protocol.  A    *)
(* region built some other way is one the edge refused.                    *)
OfferedWorldDecodes ==
    \A r \in Region : known.worlds[r] # None =>
        LET there == deployed.worlds[r]
            here == known.worlds[r]
            side(n) == {0, 1, n \div 2, n - 1}
            places == {At(x, y, z) : x, y \in side(there.authored.region_size),
                                     z \in side(there.authored.vertical_extent)}
        IN  /\ deployed.versions[r] = OurVersion
            /\ RecordBytes(here) = RecordBytes(there)
            /\ \A p \in places :
                   /\ UnpackedPos(here, PackedBits(there, p)) = p
                   /\ CellOf(here, p) = CellOf(there, p)
                   /\ AtCenter(here, CellOf(here, p))
                          = AtCenter(there, CellOf(there, p))

(* Where the regions on the map are of one size, as it asks of them, a     *)
(* place told in the world's frame is found in the region it was told in,  *)
(* and in no other: which takes a map read whole or not at all, with no    *)
(* region and no square twice.                                             *)
LocatesBack ==
    LET size(p) == deployed.worlds[p.region].authored.region_size
        even == \A p, q \in Placed(map) : size(p) = size(q)
    IN  Serving /\ known.size # None /\ even =>
            \A p \in Placed(map) : \A x, y \in {0, known.size - 1} :
                Locate(map, FromLocal(At(x, y, 1), p.square, known.size),
                       known.size)
                    = [region |-> p.region, at |-> At(x, y, 1)]

(* An edge and its regions are of one mind about the world, within a       *)
(* region and across them, whatever was deployed and whichever answered.   *)
WorldsAgree == OfferedWorldDecodes /\ LocatesBack

(* A batch arrives cut up and whole: what a receiver read is what was said *)
(* to it and by whom, in the order it was said on that subject and once,   *)
(* and what did not arrive is on its way or was lost.                      *)
BatchesArrive ==
    LET onItsWay == UNION {bus[i].items : i \in DOMAIN bus}
    IN  /\ ToSet(got) \cup lost \cup onItsWay = said
        /\ ToSet(got) \cap (lost \cup onItsWay) = {}
        /\ \A i, j \in DOMAIN got :
               (i < j /\ got[i].from = got[j].from /\ got[i].to = got[j].to
                      /\ got[i].what[1] = got[j].what[1])
                   => got[i].n < got[j].n
        /\ \A g \in ToSet(got) : g.to \in Region => g.from \in admitted[g.to]
=============================================================================
