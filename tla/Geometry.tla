------------------------------ MODULE Geometry ------------------------------
(***************************************************************************)
(* The pure arithmetic every other part shares: fixed-point numbers        *)
(* (fixed.rs), positions and cells (pos.rs), the world configuration       *)
(* (config.rs), the map of regions (map.rs), subscriptions                 *)
(* (subscription.rs) and the seam between two regions (net/edge/seam.rs).  *)
(*                                                                         *)
(* Numbers are raw units.  A shift right is \div and a mask is %, both of  *)
(* which round toward negative infinity as the code's do.                  *)
(***************************************************************************)
EXTENDS Integers, Sequences

CONSTANTS
    IntMax,         \* i32::MAX, the largest raw coordinate and square index
    RegionIds,      \* 2^31, the first region id that is too wide to place
    None            \* nothing

ASSUME GeometryAssumption ==
    /\ IntMax \in Nat \ {0}
    /\ RegionIds \in Nat

(***************************************************************************)
(* Numbers.                                                                *)
(***************************************************************************)
Fixed == (-IntMax - 1) .. IntMax

Larger(a, b) == IF a > b THEN a ELSE b
Smaller(a, b) == IF a < b THEN a ELSE b

(* clamp_raw, and Fixed::clamp: max(low).min(high).                        *)
Held(raw, low, high) == Smaller(Larger(raw, low), high)

SaturatingAdd(a, b) == Held(a + b, -IntMax - 1, IntMax)

AbsDiff(a, b) == IF a > b THEN a - b ELSE b - a

IsPowerOfTwo(n) == \E k \in 0 .. 30 : n = 2^k

(* u32::ilog2, and trailing_zeros of a power of two.                       *)
Log2(n) == CHOOSE k \in 0 .. 30 : 2^k <= n /\ n < 2 * 2^k

(***************************************************************************)
(* Positions.                                                              *)
(***************************************************************************)
Pos3 == [x : Fixed, y : Fixed, z : Fixed]
At(x, y, z) == [x |-> x, y |-> y, z |-> z]

HorizontalDistSq(p, q) ==
    (p.x - q.x) * (p.x - q.x) + (p.y - q.y) * (p.y - q.y)

DistSq(p, q) == HorizontalDistSq(p, q) + (p.z - q.z) * (p.z - q.z)

(* Placement: a square of the grid of regions.                             *)
Square(col, row) == [col |-> col, row |-> row]

(* WorldPos::from_local and to_local: the world frame is a region's own    *)
(* frame, moved by its square.                                             *)
FromLocal(at, square, size) ==
    At(square.col * size + at.x, square.row * size + at.y, at.z)

(* fits: an axis that leaves i32 has no local number.                      *)
ToUnplaced(world) == IF world \in Pos3 THEN world ELSE None

ToLocal(world, square, size) ==
    ToUnplaced(At(world.x - square.col * size,
                  world.y - square.row * size, world.z))

(***************************************************************************)
(* Configuration.  `build` refuses in this order; a configuration that     *)
(* exists is one that passed.                                              *)
(***************************************************************************)
Authored(region, vertical, radius, speed, hz) ==
    [region_size |-> region, vertical_extent |-> vertical,
     horizontal_view_radius |-> radius, max_horizontal_speed |-> speed,
     tick_hz |-> hz]

Distances == {"region_size", "vertical_extent", "horizontal_view_radius",
              "max_horizontal_speed"}

(* The cell: the largest power of two within half the view radius.         *)
CellSize(a) == 2^Log2(Larger(a.horizontal_view_radius \div 2, 1))

MovePerTick(a) == a.max_horizontal_speed \div a.tick_hz

BuildError(a) ==
    IF \E f \in DOMAIN a : a[f] = None THEN "Missing"
    ELSE IF \E f \in Distances : a[f] <= 0 THEN "NonPositive"
    ELSE IF ~IsPowerOfTwo(a.region_size) \/ ~IsPowerOfTwo(a.vertical_extent)
    THEN "ExtentNotPowerOfTwo"
    ELSE IF a.horizontal_view_radius > a.region_size
    THEN "RadiusExceedsRegion"
    ELSE IF a.tick_hz = 0 \/ 1000 % a.tick_hz # 0
    THEN "TickRateIndivisible"
    ELSE IF MovePerTick(a) >= CellSize(a) THEN "SpeedExceedsCellPerTick"
    ELSE "Ok"

(* Grid::derive.                                                           *)
Grid(region_size, cell_size, radius) ==
    LET axis == region_size \div cell_size
        reach == (radius + cell_size - 1) \div cell_size
    IN  [cell_size |-> cell_size, cell_shift |-> Log2(cell_size),
         cells_per_axis |-> axis, cells_per_region |-> axis * axis,
         cell_radius |-> reach, sub_grid_axis |-> 2 * reach + 1]

(* A configuration: what was authored and what it implies.                 *)
Build(a) ==
    LET grid == Grid(a.region_size, CellSize(a), a.horizontal_view_radius)
    IN  [authored |-> a, grid |-> grid,
         horizontal_bits |-> Log2(a.region_size),
         vertical_bits |-> Log2(a.vertical_extent),
         tick_ms |-> 1000 \div a.tick_hz,
         max_move_per_tick |-> MovePerTick(a)]

(* The digest of the fields that decide how a packet is read.  FNV-1a is   *)
(* taken to be one to one, so a digest is the tuple of what went into it.  *)
ProtocolHash(cfg) ==
    <<cfg.authored.region_size, cfg.authored.vertical_extent,
      cfg.grid.cell_size, cfg.authored.horizontal_view_radius,
      cfg.horizontal_bits, cfg.vertical_bits>>

(***************************************************************************)
(* Cells.                                                                  *)
(***************************************************************************)
AxisToCell(cfg, v) ==
    Smaller(Larger(v, 0) \div cfg.grid.cell_size, cfg.grid.cells_per_axis - 1)

CellOf(cfg, pos) ==
    [x |-> AxisToCell(cfg, pos.x), y |-> AxisToCell(cfg, pos.y)]

OffsetInCell(cfg, v) == v % cfg.grid.cell_size

CellId(cfg, c) == c.y * cfg.grid.cells_per_axis + c.x

CellCoord(cfg, id) == [x |-> id % cfg.grid.cells_per_axis,
                       y |-> id \div cfg.grid.cells_per_axis]

Inside2d(cfg, pos) ==
    /\ pos.x >= 0 /\ pos.x < cfg.authored.region_size
    /\ pos.y >= 0 /\ pos.y < cfg.authored.region_size

Inside(cfg, pos) ==
    /\ Inside2d(cfg, pos)
    /\ pos.z >= 0 /\ pos.z < cfg.authored.vertical_extent

Clamp(cfg, pos) ==
    LET side == cfg.authored.region_size - 1
    IN  At(Held(pos.x, 0, side), Held(pos.y, 0, side),
           Held(pos.z, 0, cfg.authored.vertical_extent - 1))

Chebyshev(c, d) == Larger(AbsDiff(c.x, d.x), AbsDiff(c.y, d.y))

IsAdjacentMove(c, d) == AbsDiff(c.x, d.x) <= 1 /\ AbsDiff(c.y, d.y) <= 1

(* Subscription::at_center: the cells within reach, clipped to the region. *)
AtCenter(cfg, c) ==
    LET reach == cfg.grid.cell_radius
        last == cfg.grid.cells_per_axis - 1
    IN  [x0 |-> Larger(c.x - reach, 0), x1 |-> Smaller(c.x + reach, last),
         y0 |-> Larger(c.y - reach, 0), y1 |-> Smaller(c.y + reach, last)]

InBox(sub, c) == /\ c.x >= sub.x0 /\ c.x <= sub.x1
                 /\ c.y >= sub.y0 /\ c.y <= sub.y1

BoxCells(sub) == [x : sub.x0 .. sub.x1, y : sub.y0 .. sub.y1]

ReachesBoxAcross(cfg, c) ==
    \/ c.x - cfg.grid.cell_radius < 0
    \/ c.x + cfg.grid.cell_radius > cfg.grid.cells_per_axis - 1

(* Whether the box had to be clipped: the rule of `serve`.                 *)
ReachesBox(cfg, c) ==
    LET reach == cfg.grid.cell_radius
        last == cfg.grid.cells_per_axis - 1
    IN  c.x - reach < 0 \/ c.x + reach > last
        \/ c.y - reach < 0 \/ c.y + reach > last

(***************************************************************************)
(* Seams.  The edge finds which squares an observer sees into by the same  *)
(* rule, and stands its shadow on the near side of each.                   *)
(***************************************************************************)
SquaresInView(cfg, square, local) ==
    LET c == CellOf(cfg, local)
        reach == cfg.grid.cell_radius
        last == cfg.grid.cells_per_axis - 1
        cols == {0} \cup (IF c.x + reach > last THEN {1} ELSE {})
                    \cup (IF c.x - reach < 0 THEN {-1} ELSE {})
        rows == {0} \cup (IF c.y + reach > last THEN {1} ELSE {})
                    \cup (IF c.y - reach < 0 THEN {-1} ELSE {})
    IN  {Square(square.col + d[1], square.row + d[2]) :
             d \in (cols \X rows) \ {<<0, 0>>}}

ShadowPoint(cfg, owner, neighbor) ==
    LET at == ToLocal(owner, neighbor, cfg.authored.region_size)
    IN  IF at = None THEN None ELSE Clamp(cfg, at)

(***************************************************************************)
(* The map: a sequence of regions and the squares they fill.               *)
(***************************************************************************)
Placed(map) == {map[i] : i \in DOMAIN map}

PlaceError(map, region, square) ==
    IF region >= RegionIds THEN "RegionIdTooWide"
    ELSE IF \E p \in Placed(map) : p.region = region THEN "DuplicateRegion"
    ELSE IF \E p \in Placed(map) : p.square = square THEN "DuplicateSquare"
    ELSE "Ok"

Place(map, region, square) ==
    Append(map, [region |-> region, square |-> square])

PlacementOf(map, region) ==
    LET found == {p \in Placed(map) : p.region = region}
    IN  IF found = {} THEN None ELSE (CHOOSE p \in found : TRUE).square

RegionAt(map, square) ==
    LET found == {p \in Placed(map) : p.square = square}
    IN  IF found = {} THEN None ELSE (CHOOSE p \in found : TRUE).region

Beside(square, side) ==
    CASE side = "East" -> Square(square.col + 1, square.row)
      [] side = "West" -> Square(square.col - 1, square.row)
      [] side = "North" -> Square(square.col, square.row + 1)
      [] side = "South" -> Square(square.col, square.row - 1)

Neighbor(map, region, side) ==
    LET square == PlacementOf(map, region)
    IN  IF square = None THEN None ELSE RegionAt(map, Beside(square, side))

(* WorldMap::locate: div_euclid by the size names the square.              *)
Locate(map, world, size) ==
    LET square == Square(world.x \div size, world.y \div size)
        region == RegionAt(map, square)
        local == ToLocal(world, square, size)
    IN  IF {square.col, square.row} \subseteq Fixed /\ region # None
            /\ local # None
        THEN [region |-> region, at |-> local] ELSE None

(* The map's bytes: a version, whole records, and bytes left over.         *)
EncodeMap(map, version) == [version |-> version, records |-> map, over |-> 0]

(* Refused whole on any fault; `place` is asked again for every record.    *)
DecodeError(bytes, version) ==
    LET before(i) == SubSeq(bytes.records, 1, i - 1)
        faulty == {i \in DOMAIN bytes.records :
                      PlaceError(before(i), bytes.records[i].region,
                                 bytes.records[i].square) # "Ok"}
        first == CHOOSE i \in faulty : \A j \in faulty : i <= j
    IN  IF bytes.over # 0 THEN "BadLength"
        ELSE IF bytes.version # version THEN "UnknownVersion"
        ELSE IF faulty = {} THEN "Ok"
        ELSE PlaceError(before(first), bytes.records[first].region,
                        bytes.records[first].square)
=============================================================================
