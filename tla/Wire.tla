-------------------------------- MODULE Wire --------------------------------
(***************************************************************************)
(* What travels: the two protocols (net/edge/protocol.rs,                  *)
(* net/region/protocol.rs), the control plane's heartbeats                 *)
(* (net/control.rs), the subjects that carry them                          *)
(* (net/region/subjects.rs), records and packets (codec.rs, packet.rs) and *)
(* the budget of a packet (budget.rs).                                     *)
(*                                                                         *)
(* A number of w bytes is a run of w bytes, each marked with the number    *)
(* and its place; a frame is a sequence of bytes.  Bytes that are not one  *)
(* whole number read as None, which stands for whatever they would read    *)
(* as.  A layout names the fields of a message in the order encode writes  *)
(* and decode reads them.                                                  *)
(***************************************************************************)
EXTENDS Geometry, FiniteSets, SequencesExt

CONSTANTS
    PayloadBytes,       \* payload_bytes a client declared
    HeaderBytes,        \* header_bytes of its budget
    EventReserve,       \* event_reserve_bytes
    MaxFrame,           \* the client protocol's MAX_MESSAGE_BYTES
    MaxMessage,         \* the region protocol's MAX_MESSAGE_BYTES
    Malformed           \* NetError::Malformed, and every refusal like it

Bytes(value, width) == [i \in 1 .. width |-> <<value, i>>]

Number(bytes) ==
    IF bytes # <<>> /\ bytes = Bytes(bytes[1][1], Len(bytes))
    THEN bytes[1][1] ELSE None

(***************************************************************************)
(* Layouts.                                                                *)
(***************************************************************************)
Field(name, width) == [as |-> "field", name |-> name, width |-> width,
                       items |-> <<>>, cap |-> 0]
List(name, width, items, cap) ==
    [as |-> "list", name |-> name, width |-> width, items |-> items,
     cap |-> cap]
Rest(name, cap) == [as |-> "rest", name |-> name, width |-> 0,
                    items |-> <<>>, cap |-> cap]

Axes(width) == <<Field("x", width), Field("y", width), Field("z", width)>>
Handle == <<Field("handle", 4)>>
Regional == <<Field("region", 4)>>
KindOfEntity == <<Field("role", 1), Field("tag", 2)>>
Unlimited == 1000000

SizeOf(layout) ==
    FoldLeft(LAMBDA n, f : n + f.width, 0, layout)

(* MAX_MOVES_PER_DATAGRAM.                                                 *)
MoveLayout == Handle \o Axes(8)
MaxMovesPerDatagram == (1200 - 5) \div SizeOf(MoveLayout)

(* FromClient, and ToClient: one space of kinds for both.                  *)
FromClient ==
    [k \in {1, 2, 3, 7, 9, 10, 13, 14, 15} |->
        CASE k = 1 -> Handle \o Axes(8) \o KindOfEntity
          [] k = 2 -> MoveLayout
          [] k = 3 -> Handle
          [] k = 7 -> <<Rest("body", Unlimited)>>
          [] k = 9 -> <<List("moves", 4, MoveLayout, MaxMovesPerDatagram)>>
          [] k = 10 -> MoveLayout
          [] k = 13 -> Handle \o <<Rest("body", Unlimited)>>
          [] k = 14 -> Handle \o Regional \o Axes(8)
          [] k = 15 -> Handle \o Regional \o Axes(8) \o KindOfEntity]

ToClient ==
    [k \in {4, 5, 6, 7, 8, 11, 12} |->
        CASE k = 4 -> Handle \o Regional \o <<Field("name", 8)>>
          [] k = 5 -> Handle
          [] k = 6 -> Handle \o Regional \o <<Rest("packet", Unlimited)>>
          [] k = 7 -> <<Rest("body", Unlimited)>>
          [] k = 8 -> Regional \o <<Field("size", 4), Field("extent", 4),
                                    Field("placed", 1), Field("col", 4),
                                    Field("row", 4)>>
          [] k \in {11, 12} -> Handle \o Regional]

(* What an edge sends a region, with the cap each batch is cut to.         *)
SpawnLayout == Axes(4) \o KindOfEntity
                   \o <<Field("token", 8), Field("name", 8)>>
ToRegionItems == [k \in 1 .. 3 |->
                     CASE k = 1 -> SpawnLayout
                       [] k = 2 -> <<Field("id", 4)>> \o Axes(4)
                       [] k = 3 -> <<Field("id", 4)>>]
MaxPerMessageBare == [k \in 1 .. 3 |->
                         MaxMessage \div SizeOf(ToRegionItems[k])]

MaxPerMessage == [k \in 1 .. 3 |->
                     (MaxMessage - 5) \div SizeOf(ToRegionItems[k])]
ToRegion ==
    [k \in 1 .. 5 |->
        IF k <= 3 THEN <<List("items", 4, ToRegionItems[k], MaxPerMessage[k])>>
        ELSE IF k = 4 THEN <<>>
        ELSE <<Field("id", 4), Rest("body", MaxMessage - 5)>>]

(* Presence.                                                               *)
PresenceOf ==
    [k \in 1 .. 5 |->
        <<Field("id", 4)>>
            \o CASE k = 1 -> <<Field("token", 8)>>
                 [] k \in {3, 4} -> Axes(4)
                 [] OTHER -> <<>>]

(* Messages with no kind byte: one to a subject.                           *)
Versions == <<Field("protocol", 2), Field("major", 2), Field("minor", 2),
              Field("patch", 2)>>
ParamsLayout == <<Field("region_size", 4), Field("vertical_extent", 4),
                  Field("horizontal_view_radius", 4),
                  Field("max_horizontal_speed", 4), Field("tick_hz", 4),
                  Field("hash", 8)>>
InfoLayout == Versions \o Regional \o ParamsLayout
BeatLayout ==
    Regional \o Versions
        \o <<Field("hash", 8), Field("edges", 4), Field("tick_count", 4),
             Field("entities", 4), Field("id_space", 4), Field("viewers", 4),
             Field("mean_tick", 4), Field("worst_tick", 4), Field("late", 4),
             Field("dropped", 4)>>
EdgeBeatLayout ==
    <<List("edge", 1, <<Field("byte", 1)>>, 255)>> \o Versions
        \o <<List("regions", 2, Regional, 65535), Field("clients", 4),
             Field("entities", 4), Field("observers", 4), Field("relayed", 8),
             Field("undeliverable", 8), Field("commands", 8),
             Field("refused", 8)>>

(***************************************************************************)
(* Encoding, and reading with a Cursor: never off the end, and nothing     *)
(* left over.                                                              *)
(***************************************************************************)
EncodeFields(layout, m) ==
    FlattenSeq([i \in DOMAIN layout |-> Bytes(m[layout[i].name],
                                              layout[i].width)])

EncodeBody(layout, m) ==
    LET put(f) ==
            CASE f.as = "field" -> Bytes(m[f.name], f.width)
              [] f.as = "rest" -> m[f.name]
              [] f.as = "list" ->
                     Bytes(Len(m[f.name]), f.width)
                         \o FlattenSeq([i \in DOMAIN m[f.name] |->
                                EncodeFields(f.items, m[f.name][i])])
    IN  FlattenSeq([i \in DOMAIN layout |-> put(layout[i])])

Encode(layouts, m) == Bytes(m.kind, 1) \o EncodeBody(layouts[m.kind], m)

(* What a decoder will not take whatever the lengths: a role or a flag out *)
(* of its range.                                                           *)
Refused(name, value) ==
    \/ name = "role" /\ value \notin {0, 1, 2}
    \/ name = "placed" /\ value \notin {0, 1}

(* A shadow has no tag, and a region off the map no square.                *)
Meaning(got) ==
    IF "role" \in DOMAIN got /\ got.role = 2 THEN [got EXCEPT !.tag = 0]
    ELSE IF "placed" \in DOMAIN got /\ got.placed = 0
    THEN [got EXCEPT !.col = 0, !.row = 0]
    ELSE got

ReadField(c, f) ==
    LET value == Number(SubSeq(c.left, 1, f.width))
    IN  IF ~c.ok \/ f.width > Len(c.left) THEN [c EXCEPT !.ok = FALSE]
        ELSE [left |-> SubSeq(c.left, f.width + 1, Len(c.left)),
              got |-> c.got @@ (f.name :> value), ok |-> ~Refused(f.name, value)]

ReadList(c, f) ==
    LET head == ReadField(c, f)
        count == head.got[f.name]
        item(acc, i) ==
            [FoldLeft(ReadField, [acc EXCEPT !.got = <<>>], f.items)
                EXCEPT !.got = Append(acc.got, Meaning(@))]
    IN  IF ~head.ok THEN head
        ELSE IF count = None \/ count > f.cap THEN [head EXCEPT !.ok = FALSE]
        ELSE [FoldLeft(item, [head EXCEPT !.got = <<>>],
                       [i \in 1 .. count |-> i])
                 EXCEPT !.got = c.got @@ (f.name :> @)]

(* Cursor::finish: nothing may be left over.                               *)
Finish(c) ==
    IF c.ok /\ c.left = <<>> THEN Meaning(c.got) ELSE Malformed

DecodeBody(layout, body, first) ==
    LET read(c, f) ==
            CASE f.as = "field" -> ReadField(c, f)
              [] f.as = "list" -> IF c.ok THEN ReadList(c, f) ELSE c
              [] f.as = "rest" ->
                     [left |-> <<>>, got |-> c.got @@ (f.name :> c.left),
                      ok |-> c.ok /\ Len(c.left) <= f.cap]
    IN  Finish(FoldLeft(read, [left |-> body, got |-> first, ok |-> TRUE],
                       layout))

Decode(layouts, frame) ==
    IF frame = <<>> \/ Number(<<Head(frame)>>) \notin DOMAIN layouts
    THEN Malformed
    ELSE DecodeBody(layouts[Head(frame)[1]], Tail(frame),
                    [kind |-> Head(frame)[1]])

(***************************************************************************)
(* Framer: messages on a byte stream, each behind its length.              *)
(***************************************************************************)
Framed(body) == Bytes(Len(body), 4) \o body

(* take, again and again: whole bodies, and what is left of the buffer.    *)
(* A length past the cap, or one that cannot be made out, ends the stream. *)
TakeOneFrame(buf) ==
    LET length == Number(SubSeq(buf, 1, 4))
    IN  IF Len(buf) < 4 \/ Len(buf) < 4 + length
        THEN [bodies |-> <<>>, ok |-> TRUE, buf |-> buf]
        ELSE [bodies |-> <<SubSeq(buf, 5, 4 + length)>>, ok |-> TRUE,
              buf |-> SubSeq(buf, 5 + length, Len(buf))]

TakeFrames(buf) ==
    LET length(at) == Number(SubSeq(buf, at + 1, at + 4))
        from[at \in 0 .. Len(buf)] ==
            IF Len(buf) - at < 4 THEN [bodies |-> <<>>, at |-> at, ok |-> TRUE]
            ELSE IF length(at) = None \/ length(at) > MaxFrame
            THEN [bodies |-> <<>>, at |-> at, ok |-> FALSE]
            ELSE IF Len(buf) - at < 4 + length(at)
            THEN [bodies |-> <<>>, at |-> at, ok |-> TRUE]
            ELSE LET next == at + 4 + length(at)
                 IN  [from[next] EXCEPT
                         !.bodies = <<SubSeq(buf, at + 5, next)>> \o @]
    IN  [bodies |-> from[0].bodies, ok |-> from[0].ok,
         buf |-> SubSeq(buf, from[0].at + 1, Len(buf))]

(***************************************************************************)
(* Subjects, as sequences of tokens.                                       *)
(***************************************************************************)
(* EdgeName::new: a name that is one token of a subject and no wildcard.   *)
PlainName(name) == name \notin {"", "*", ">", "a.b"}

InfoSubject(region) == <<"umwelt", ToString(region), "info">>
EdgeSubject(region, edge, leaf) ==
    <<"umwelt", ToString(region), "edge", edge, leaf>>
BeatSubject(tier, who) == <<"umwelt", "control", tier, who, "heartbeat">>

(* A subscription's "*" takes any token.                                   *)
Matches(pattern, subject) ==
    /\ Len(pattern) = Len(subject)
    /\ \A i \in DOMAIN pattern : pattern[i] \in {"*", subject[i]}

Sender(subject) ==
    IF Len(subject) = 5 /\ subject[1] = "umwelt" /\ subject[3] = "edge"
        /\ subject[5] = "command" /\ PlainName(subject[4])
    THEN subject[4] ELSE Malformed

OriginOf(subject) ==
    IF Len(subject) = 5 /\ subject[1] = "umwelt" /\ subject[3] = "edge"
        /\ subject[5] \in {"state", "presence"}
        /\ \E r \in 0 .. (RegionIds - 1) : subject[2] = ToString(r)
    THEN CHOOSE r \in 0 .. (RegionIds - 1) : subject[2] = ToString(r)
    ELSE Malformed

(***************************************************************************)
(* Records: a name, a position packed into the fewest whole bytes, a tag.  *)
(* The axes are written one over the other, with no mask.                  *)
(***************************************************************************)
PositionBytes(cfg) == (2 * cfg.horizontal_bits + cfg.vertical_bits + 7) \div 8
RecordBytes(cfg) == 8 + PositionBytes(cfg) + 2

(* Bit by bit, an OR of the three; 32 bits of each, so a sign fills them.  *)
Bit(n, k) == (n \div 2^k) % 2
PackedBits(cfg, pos) ==
    LET h == cfg.horizontal_bits
        of(v, k) == IF k \in 0 .. 30 THEN Bit(v, k)
                    ELSE IF k = 31 /\ v < 0 THEN 1 ELSE 0
    IN  {k \in 0 .. (8 * PositionBytes(cfg) - 1) :
            1 \in {of(pos.x, k), of(pos.y, k - h), of(pos.z, k - 2 * h)}}

UnpackedPos(cfg, bits) ==
    LET h == cfg.horizontal_bits
        axis(from, width) ==
            FoldSet(LAMBDA k, n : n + 2^(k - from), 0,
                    {k \in bits : k >= from /\ k < from + width})
    IN  At(axis(0, h), axis(h, h), axis(2 * h, cfg.vertical_bits))

EncodeRecord(cfg, name, pos, tag) ==
    [name |-> name, bits |-> PackedBits(cfg, pos), tag |-> tag]
DecodeRecord(cfg, r) ==
    [name |-> r.name, pos |-> UnpackedPos(cfg, r.bits), tag |-> r.tag]

(***************************************************************************)
(* Packets: a header, despawns, records.  `over` is how many bytes follow  *)
(* what the counts claim, and a packet cut short has fewer than none.      *)
(***************************************************************************)
DespawnBytes == 8

Packet(tick, sequence, despawns, records) ==
    [tick |-> tick, sequence |-> sequence, despawns |-> despawns,
     records |-> records, over |-> 0]

PacketSize(cfg, p) ==
    16 + Len(p.despawns) * DespawnBytes + Len(p.records) * RecordBytes(cfg)
       + p.over

(* TickObservation::in_frame: a square of None is a region off the map.    *)
Observation(cfg, p, square) ==
    IF p.over < 0 THEN None
    ELSE [tick |-> p.tick, despawns |-> p.despawns,
          updates |->
              [i \in DOMAIN p.records |->
                  LET r == DecodeRecord(cfg, p.records[i])
                  IN  [name |-> r.name, tag |-> r.tag,
                       pos |-> IF square = None THEN r.pos
                               ELSE FromLocal(r.pos, square,
                                              cfg.authored.region_size)]]]

(***************************************************************************)
(* PacketBudget.                                                           *)
(***************************************************************************)
BudgetOk(cfg) ==
    /\ PayloadBytes > HeaderBytes
    /\ RecordBytes(cfg) <= PayloadBytes

StateBytes(pending) ==
    Larger(PayloadBytes - (HeaderBytes + Smaller(pending, EventReserve)), 0)

(* What `serve` does with it: despawns take at most half.                  *)
DespawnRoom == (StateBytes(0) \div 2) \div DespawnBytes
Slots(cfg, despawns) ==
    Larger(StateBytes(0) - despawns * DespawnBytes, 0) \div RecordBytes(cfg)
=============================================================================
