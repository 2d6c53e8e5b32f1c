----------------------------- MODULE WorldProofs -----------------------------
(***************************************************************************)
(* Proofs about a region's simulation, for any world, any game and any     *)
(* number of viewers.                                                      *)
(*                                                                         *)
(* The registry of viewers is accounted for whatever the world.  That the  *)
(* edge knows each viewer's view, and is told of each change, needs the    *)
(* cell a viewer was last served in to be what its subscription stands for *)
(* (Tracked), which takes a region wider than two views (Wide): then a box *)
(* belongs to one cell.                                                    *)
(***************************************************************************)
EXTENDS World, FiniteSetTheorems, TLAPS

-----------------------------------------------------------------------------
(* The arithmetic of positions and cells.                                  *)
LEMMA Grids ==
    /\ cfg.authored.region_size \in Nat /\ cfg.authored.region_size - 1 \in 0 .. IntMax
    /\ cfg.authored.vertical_extent \in Nat /\ cfg.authored.vertical_extent - 1 \in 0 .. IntMax
    /\ cfg.grid.cell_size \in Nat \ {0} /\ cfg.grid.cells_per_axis \in Nat \ {0}
    /\ cfg.grid.cell_radius \in Nat
<1>1. {cfg.authored.region_size, cfg.authored.vertical_extent, cfg.grid.cell_size,
       cfg.grid.cells_per_axis} \subseteq 1 .. IntMax
  BY WorldAssumption
<1>2. cfg.grid.cell_radius \in Nat
  BY WorldAssumption
<1>3. IntMax \in Nat
  BY GeometryAssumption
<1> HIDE DEF cfg
<1>4. QED
  BY <1>1, <1>2, <1>3

LEMMA HeldBetween ==
    \A v, low, high \in Int : low <= high => Held(v, low, high) \in low .. high
  BY DEF Held, Larger, Smaller

LEMMA PosOf ==
    ASSUME NEW p \in Pos3
    PROVE  p.x \in Int /\ p.y \in Int /\ p.z \in Int
<1>1. IntMax \in Nat
  BY GeometryAssumption
<1>2. p.x \in Fixed /\ p.y \in Fixed /\ p.z \in Fixed
  BY DEF Pos3
<1>3. QED
  BY <1>1, <1>2 DEF Fixed

LEMMA ClampType ==
    ASSUME NEW p \in Pos3
    PROVE  Clamp(cfg, p) \in Pos3
<1> DEFINE side == cfg.authored.region_size - 1
           top == cfg.authored.vertical_extent - 1
<1>1. side \in 0 .. IntMax /\ top \in 0 .. IntMax /\ IntMax \in Nat
  BY Grids, GeometryAssumption
<1> HIDE DEF side, top
<1>2. Held(p.x, 0, side) \in 0 .. side /\ Held(p.y, 0, side) \in 0 .. side
      /\ Held(p.z, 0, top) \in 0 .. top
  <2>1. p.x \in Int /\ p.y \in Int /\ p.z \in Int
    BY PosOf
  <2>2. 0 \in Int /\ side \in Int /\ top \in Int /\ 0 <= side /\ 0 <= top
    BY <1>1
  <2>3. QED
    BY <2>1, <2>2, HeldBetween
<1>3. Held(p.x, 0, side) \in Fixed /\ Held(p.y, 0, side) \in Fixed /\ Held(p.z, 0, top) \in Fixed
  BY <1>1, <1>2 DEF Fixed
<1>4. Clamp(cfg, p) = [x |-> Held(p.x, 0, side), y |-> Held(p.y, 0, side), z |-> Held(p.z, 0, top)]
  BY DEF Clamp, At, side, top
<1>5. QED
  BY <1>3, <1>4 DEF Pos3

LEMMA SaturatingType ==
    ASSUME NEW p \in Pos3, NEW q \in Pos3
    PROVE  At(SaturatingAdd(p.x, q.x), SaturatingAdd(p.y, q.y), SaturatingAdd(p.z, q.z)) \in Pos3
<1>1. IntMax \in Nat
  BY GeometryAssumption
<1>2. p.x + q.x \in Int /\ p.y + q.y \in Int /\ p.z + q.z \in Int
  BY PosOf
<1>3. -IntMax - 1 \in Int /\ -IntMax - 1 <= IntMax
  BY <1>1
<1>4. /\ SaturatingAdd(p.x, q.x) \in Fixed /\ SaturatingAdd(p.y, q.y) \in Fixed
      /\ SaturatingAdd(p.z, q.z) \in Fixed
  <2>1. IntMax \in Int
    BY <1>1
  <2>2. \A v \in Int : Held(v, -IntMax - 1, IntMax) \in Fixed
    BY <1>3, <2>1, HeldBetween DEF Fixed
  <2>3. QED
    BY <1>2, <2>2 DEF SaturatingAdd
<1>5. QED
  BY <1>4 DEF At, Pos3

LEMMA CellType ==
    ASSUME NEW p \in Pos3
    PROVE  CellOf(cfg, p) \in CellCoords
<1> DEFINE size == cfg.grid.cell_size
           axis == cfg.grid.cells_per_axis
<1>1. size \in Nat \ {0} /\ axis \in Nat \ {0} /\ p.x \in Int /\ p.y \in Int
  BY Grids, PosOf
<1> HIDE DEF size, axis
<1>2. \A v \in Int : Smaller(Larger(v, 0) \div size, axis - 1) \in 0 .. (axis - 1)
  <2> TAKE v \in Int
  <2>1. Larger(v, 0) \in Nat
    BY DEF Larger
  <2>2. Larger(v, 0) \div size \in Nat
    BY <1>1, <2>1
  <2>3. QED
    BY <1>1, <2>2 DEF Smaller
<1>3. AxisToCell(cfg, p.x) \in Coords /\ AxisToCell(cfg, p.y) \in Coords
  BY <1>1, <1>2 DEF AxisToCell, Coords, size, axis
<1>4. QED
  BY <1>3 DEF CellOf, CellCoords

LEMMA Cells2 ==
    ASSUME NEW c \in CellCoords
    PROVE  /\ c.x \in Nat /\ c.y \in Nat
           /\ c.x <= cfg.grid.cells_per_axis - 1 /\ c.y <= cfg.grid.cells_per_axis - 1
  BY Grids DEF CellCoords, Coords

LEMMA BoxType ==
    ASSUME NEW c \in CellCoords
    PROVE  AtCenter(cfg, c) \in Boxes
<1> DEFINE r == cfg.grid.cell_radius
           last == cfg.grid.cells_per_axis - 1
<1>1. r \in Nat /\ last \in Nat /\ c.x \in 0 .. last /\ c.y \in 0 .. last /\ Coords = 0 .. last
  BY Grids, Cells2 DEF Coords
<1>2. AtCenter(cfg, c) = [x0 |-> Larger(c.x - r, 0), x1 |-> Smaller(c.x + r, last),
                          y0 |-> Larger(c.y - r, 0), y1 |-> Smaller(c.y + r, last)]
  BY DEF AtCenter
<1> HIDE DEF r, last
<1>3. /\ Larger(c.x - r, 0) \in 0 .. last /\ Smaller(c.x + r, last) \in 0 .. last
      /\ Larger(c.y - r, 0) \in 0 .. last /\ Smaller(c.y + r, last) \in 0 .. last
  BY <1>1 DEF Larger, Smaller
<1>4. QED
  BY <1>1, <1>2, <1>3 DEF Boxes

(* In a wide region a box is clipped on one side at most, so it belongs to *)
(* one cell.                                                               *)
LEMMA BoxesDiffer ==
    ASSUME Wide, NEW c \in CellCoords, NEW d \in CellCoords, AtCenter(cfg, c) = AtCenter(cfg, d)
    PROVE  c = d
<1> DEFINE r == cfg.grid.cell_radius
           last == cfg.grid.cells_per_axis - 1
<1>1. r \in Nat /\ last \in Nat /\ last >= 2 * r
  BY Grids DEF Wide
<1>2. c.x \in 0 .. last /\ c.y \in 0 .. last /\ d.x \in 0 .. last /\ d.y \in 0 .. last
  BY Grids, Cells2
<1>3. \A e \in {c, d} :
          AtCenter(cfg, e) = [x0 |-> Larger(e.x - r, 0), x1 |-> Smaller(e.x + r, last),
                              y0 |-> Larger(e.y - r, 0), y1 |-> Smaller(e.y + r, last)]
  BY DEF AtCenter
<1> HIDE DEF r, last
<1>4. /\ Larger(c.x - r, 0) = Larger(d.x - r, 0) /\ Smaller(c.x + r, last) = Smaller(d.x + r, last)
      /\ Larger(c.y - r, 0) = Larger(d.y - r, 0) /\ Smaller(c.y + r, last) = Smaller(d.y + r, last)
  BY <1>3
<1>5. c.x = d.x /\ c.y = d.y
  BY <1>1, <1>2, <1>4 DEF Larger, Smaller
<1>6. QED
  BY <1>5 DEF CellCoords

(* The near corner of a cell is in it.                                     *)
Corner(c) == At(c.x * cfg.grid.cell_size, c.y * cfg.grid.cell_size, 0)

LEMMA CornerIsInside ==
    ASSUME NEW c \in CellCoords
    PROVE  CellOf(cfg, Corner(c)) = c
<1> DEFINE size == cfg.grid.cell_size
           last == cfg.grid.cells_per_axis - 1
<1>1. size \in Nat \ {0} /\ last \in Nat /\ c.x \in 0 .. last /\ c.y \in 0 .. last
  BY Grids, Cells2
<1>2. \A v \in Int : AxisToCell(cfg, v) = Smaller(Larger(v, 0) \div size, last)
  BY DEF AxisToCell
<1> HIDE DEF size, last
<1>3. \A n \in 0 .. last : Smaller(Larger(n * size, 0) \div size, last) = n
  <2> TAKE n \in 0 .. last
  <2>1. n * size \in Nat /\ (n * size) \div size = n
    BY <1>1
  <2>2. Larger(n * size, 0) = n * size
    BY <2>1 DEF Larger
  <2>3. QED
    BY <1>1, <2>1, <2>2 DEF Smaller
<1>4. c.x * size \in Int /\ c.y * size \in Int
  BY <1>1
<1>5. AxisToCell(cfg, c.x * size) = c.x /\ AxisToCell(cfg, c.y * size) = c.y
  BY <1>1, <1>2, <1>3, <1>4
<1>6. CellOf(cfg, Corner(c)) = [x |-> c.x, y |-> c.y]
  BY <1>5 DEF CellOf, Corner, At, size
<1>7. QED
  BY <1>6 DEF CellCoords

(* The squares in view are those of the cell, wherever in it one stands,   *)
(* and none when its box is not clipped.                                   *)
SquaresFrom(c) == SquaresInView(cfg, Origin, Corner(c))

LEMMA SquaresOfCell ==
    ASSUME NEW p, NEW q, CellOf(cfg, p) = CellOf(cfg, q)
    PROVE  SquaresInView(cfg, Origin, p) = SquaresInView(cfg, Origin, q)
  BY DEF SquaresInView

LEMMA SquaresType ==
    ASSUME NEW p
    PROVE  SquaresInView(cfg, Origin, p) \in SUBSET [col : -1 .. 1, row : -1 .. 1]
<1> DEFINE c == CellOf(cfg, p)
           reach == cfg.grid.cell_radius
           last == cfg.grid.cells_per_axis - 1
           cols == {0} \cup (IF c.x + reach > last THEN {1} ELSE {})
                       \cup (IF c.x - reach < 0 THEN {-1} ELSE {})
           rows == {0} \cup (IF c.y + reach > last THEN {1} ELSE {})
                       \cup (IF c.y - reach < 0 THEN {-1} ELSE {})
<1>1. SquaresInView(cfg, Origin, p)
          = {Square(Origin.col + d[1], Origin.row + d[2]) : d \in (cols \X rows) \ {<<0, 0>>}}
  BY DEF SquaresInView
<1>2. cols \subseteq -1 .. 1 /\ rows \subseteq -1 .. 1
  OBVIOUS
<1>3. Origin.col = 0 /\ Origin.row = 0
  BY DEF Origin, Square
<1> HIDE DEF cols, rows
<1>4. \A d \in cols \X rows : Square(Origin.col + d[1], Origin.row + d[2])
                                  \in [col : -1 .. 1, row : -1 .. 1]
  <2> TAKE d \in cols \X rows
  <2>1. d[1] \in -1 .. 1 /\ d[2] \in -1 .. 1
    BY <1>2
  <2>2. Origin.col + d[1] \in -1 .. 1 /\ Origin.row + d[2] \in -1 .. 1
    BY <1>3, <2>1
  <2>3. QED
    BY <2>2 DEF Square
<1>5. QED
  BY <1>1, <1>4

LEMMA NoSquares ==
    ASSUME NEW p, ~ReachesBox(cfg, CellOf(cfg, p))
    PROVE  SquaresInView(cfg, Origin, p) = {}
<1> DEFINE c == CellOf(cfg, p)
           reach == cfg.grid.cell_radius
           last == cfg.grid.cells_per_axis - 1
<1>1. ~(c.x + reach > last) /\ ~(c.x - reach < 0) /\ ~(c.y + reach > last) /\ ~(c.y - reach < 0)
  BY DEF ReachesBox
<1>2. SquaresInView(cfg, Origin, p)
          = {Square(Origin.col + d[1], Origin.row + d[2]) : d \in ({0} \X {0}) \ {<<0, 0>>}}
  BY <1>1, Zenon DEF SquaresInView
<1>3. ({0} \X {0}) \ {<<0, 0>>} = {}
  OBVIOUS
<1>4. QED
  BY <1>2, <1>3

-----------------------------------------------------------------------------
(* Typing.                                                                 *)
Square3 == [col : -1 .. 1, row : -1 .. 1]
ViewType == [cell : CellCoords \cup {None}, squares : SUBSET Square3]
ViewerType == [avatar : Entities, sub : Boxes \cup {None}, at_boundary : BOOLEAN,
               send_period : {Larger(p, 1) : p \in Periods}, registered : BOOLEAN]

ClockTyped == /\ phase \in {"between", "step", "serve"} /\ ops \in 0 .. MaxOps
              /\ tick \in 0 .. (TickMod - 1)

ArraysTyped ==
    /\ slots \in 0 .. MaxSlots
    /\ pos \in [Entities -> Pos3] /\ tags \in [Entities -> Tags \cup {0}]
    /\ names \in [Entities -> Names \cup {None}] /\ atWall \in [Entities -> BOOLEAN]
    /\ shown \subseteq live /\ live \subseteq Entities /\ despawned \subseteq Entities \ live

OdometerTyped ==
    /\ DOMAIN total = DOMAIN prev /\ DOMAIN prevTags = DOMAIN prev
    /\ DOMAIN prev \subseteq Entities
    /\ \A id \in DOMAIN prev : prev[id] \in Pos3 /\ total[id] \in 0 .. (ReadingMod - 1)

RegistryTyped ==
    /\ \E n \in 0 .. MaxViewers : DOMAIN viewers = 0 .. (n - 1)
    /\ \A v \in DOMAIN viewers : viewers[v] \in ViewerType
    /\ free \in Seq(DOMAIN viewers)
    /\ DOMAIN known = DOMAIN viewers
    /\ \A v \in DOMAIN known : known[v] \in ViewType

ServeTyped == waiting \subseteq DOMAIN viewers /\ viewCleared \subseteq Entities

LEMMA TypeParts ==
    TypeOK <=> ClockTyped /\ ArraysTyped /\ OdometerTyped /\ RegistryTyped /\ ServeTyped
  BY DEF TypeOK, ClockTyped, ArraysTyped, OdometerTyped, RegistryTyped, ServeTyped, ViewerType,
         ViewType, Square3

LEMMA TypePartsAfter ==
    TypeOK' <=> ClockTyped' /\ ArraysTyped' /\ OdometerTyped' /\ RegistryTyped' /\ ServeTyped'
  BY DEF TypeOK, ClockTyped, ArraysTyped, OdometerTyped, RegistryTyped, ServeTyped, ViewerType,
         ViewType, Square3

LEMMA TypeInit == Init => TypeOK
<1> SUFFICES ASSUME Init
             PROVE  TypeOK
  OBVIOUS
<1>1. Entities = {} /\ slots = 0
  BY DEF Init, Entities
<1>2. MaxOps \in Nat /\ TickMod \in Nat \ {0} /\ MaxSlots \in Nat /\ MaxViewers \in Nat
  BY WorldAssumption
<1>3. ClockTyped
  BY <1>2 DEF ClockTyped, Init
<1>4. \A S : <<>> \in [{} -> S]
  OBVIOUS
<1>5. ArraysTyped
  BY <1>1, <1>2, <1>4 DEF ArraysTyped, Init
<1>6. OdometerTyped
  BY DEF OdometerTyped, Init
<1>7. RegistryTyped
  <2>1. DOMAIN viewers = {} /\ DOMAIN known = {} /\ free = <<>>
    BY DEF Init
  <2>2. 0 \in 0 .. MaxViewers /\ {} = 0 .. (0 - 1)
    BY <1>2
  <2>3. free \in Seq(DOMAIN viewers)
    BY <2>1
  <2>4. QED
    BY <2>1, <2>2, <2>3 DEF RegistryTyped
<1>8. ServeTyped
  BY DEF ServeTyped, Init
<1>9. QED
  BY <1>3, <1>5, <1>6, <1>7, <1>8, TypeParts

LEMMA MoreIds == \A a, b \in Nat : a <= b => 0 .. (a - 1) \subseteq 0 .. (b - 1)
  OBVIOUS

(* An entity id is never taken back, so what is typed by the ids stays so. *)
LEMMA RestTyped ==
    ASSUME TypeOK, slots' \in Nat, slots <= slots', UNCHANGED <<tickVars, viewVars, serveVars>>
    PROVE  OdometerTyped' /\ RegistryTyped' /\ ServeTyped'
<1>0. slots \in Nat
  <2>1. MaxSlots \in Nat
    BY WorldAssumption
  <2>2. QED
    BY <2>1 DEF TypeOK
<1>1. Entities \subseteq Entities'
  BY <1>0, MoreIds DEF Entities
<1>2. UNCHANGED <<prevTags, total, prev, viewers, free, known, waiting, viewCleared>>
  BY DEF tickVars, viewVars, serveVars
<1>3. OdometerTyped'
  BY <1>1, <1>2, TypeParts DEF OdometerTyped
<1>4. RegistryTyped /\ ServeTyped
  BY TypeParts
<1>5. \A v \in DOMAIN viewers : viewers[v] \in ViewerType'
  BY <1>1, <1>4 DEF RegistryTyped, ViewerType
<1>6. RegistryTyped'
  BY <1>2, <1>4, <1>5 DEF RegistryTyped, ViewType
<1>7. ServeTyped'
  BY <1>1, <1>2, <1>4 DEF ServeTyped
<1>8. QED
  BY <1>3, <1>6, <1>7

LEMMA InStepTyped ==
    ASSUME TypeOK, InStep
    PROVE  ClockTyped' /\ UNCHANGED <<tickVars, viewVars, serveVars>>
<1>1. MaxOps \in Nat
  BY WorldAssumption
<1>2. QED
  BY <1>1 DEF TypeOK, InStep, ClockTyped

(* What an operation of the game leaves typed.                             *)
LEMMA MoveToTyped ==
    ASSUME TypeOK, NEW id \in live, NEW target \in Pos3, MoveTo(id, target)
    PROVE  ArraysTyped' /\ slots' = slots
<1>1. ArraysTyped
  BY TypeParts
<1>2. id \in Entities /\ Clamp(cfg, target) \in Pos3
  BY <1>1, ClampType DEF ArraysTyped
<1>3. slots' = slots /\ Entities' = Entities
  BY DEF MoveTo, Entities
<1>4. pos' \in [Entities -> Pos3]
  BY <1>1, <1>2 DEF MoveTo, ArraysTyped
<1>5. atWall' \in [Entities -> BOOLEAN]
  BY <1>1, <1>2 DEF MoveTo, ArraysTyped, Inside, Inside2d
<1>6. UNCHANGED <<tags, names, live, shown, despawned>>
  BY DEF MoveTo
<1>7. QED
  BY <1>1, <1>3, <1>4, <1>5, <1>6 DEF ArraysTyped

LEMMA SpawnTyped ==
    ASSUME TypeOK, NEW at \in Homes, NEW tag \in Tags, NEW shadow \in BOOLEAN,
           Spawn(at, tag, shadow)
    PROVE  ArraysTyped' /\ slots' = slots + 1
<1>1. ArraysTyped /\ slots \in Nat /\ MaxSlots \in Nat
  BY TypeParts, WorldAssumption DEF ArraysTyped
<1>2. slots' = slots + 1 /\ slots < MaxSlots
  BY DEF Spawn
<1>3. Entities' = Entities \cup {slots} /\ slots \notin Entities
  BY <1>1, <1>2 DEF Entities
<1>4. \A S : \A array \in [Entities -> S], value \in S : Push(array, value) \in [Entities' -> S]
  BY <1>3 DEF Push
<1>5. at \in Pos3
  BY WorldAssumption
<1>6. pos' \in [Entities' -> Pos3]
  BY <1>1, <1>4, <1>5 DEF Spawn, ArraysTyped
<1>7. tags' \in [Entities' -> Tags \cup {0}]
  <2>1. (IF shadow THEN 0 ELSE tag) \in Tags \cup {0}
    OBVIOUS
  <2>2. QED
    BY <1>1, <1>4, <2>1 DEF Spawn, ArraysTyped
<1>8. names' \in [Entities' -> Names \cup {None}]
  BY <1>1, <1>4 DEF Spawn, ArraysTyped
<1>9. atWall' \in [Entities' -> BOOLEAN]
  BY <1>1, <1>4 DEF Spawn, ArraysTyped
<1>10. /\ live' = live \cup {slots} /\ (shown' = shown \/ shown' = shown \cup {slots})
       /\ despawned' = despawned
  BY DEF Spawn
<1>11. shown' \subseteq live' /\ live' \subseteq Entities' /\ despawned' \subseteq Entities' \ live'
  BY <1>1, <1>3, <1>10 DEF ArraysTyped
<1>12. slots' \in 0 .. MaxSlots
  BY <1>1, <1>2
<1>13. QED
  BY <1>2, <1>6, <1>7, <1>8, <1>9, <1>11, <1>12 DEF ArraysTyped

LEMMA StepOperationTyped ==
    ASSUME TypeOK, StepOperation
    PROVE  /\ InStep /\ ArraysTyped' /\ slots' \in Nat /\ slots <= slots'
           /\ shown' \subseteq shown \cup {slots}
<1>0. ArraysTyped /\ slots \in Nat
  BY TypeParts, WorldAssumption DEF ArraysTyped
<1> USE DEF ArraysTyped
<1>1. CASE \E id \in Entities, target \in Targets : Move(id, target)
  <2>1. PICK id \in Entities, target \in Targets : Move(id, target)
    BY <1>1
  <2>2. target \in Pos3
    BY WorldAssumption
  <2>3. InStep /\ id \in live /\ MoveTo(id, target)
    BY <2>1 DEF Move
  <2>4. ArraysTyped' /\ slots' = slots
    BY <2>2, <2>3, MoveToTyped
  <2>5. shown' = shown
    BY <2>3 DEF MoveTo
  <2>6. QED
    BY <1>0, <2>3, <2>4, <2>5
<1>2. CASE \E id \in Entities, by \in Strides : Translate(id, by)
  <2>1. PICK id \in Entities, by \in Strides : Translate(id, by)
    BY <1>2
  <2> DEFINE target == At(SaturatingAdd(pos[id].x, by.x), SaturatingAdd(pos[id].y, by.y),
                          SaturatingAdd(pos[id].z, by.z))
  <2>2. by \in Pos3 /\ pos[id] \in Pos3
    BY <1>0, WorldAssumption
  <2>3. target \in Pos3
    BY <2>2, SaturatingType
  <2>4. InStep /\ id \in live /\ MoveTo(id, target)
    BY <2>1 DEF Translate
  <2> HIDE DEF target
  <2>5. ArraysTyped' /\ slots' = slots
    BY <2>3, <2>4, MoveToTyped
  <2>6. shown' = shown
    BY <2>4 DEF MoveTo
  <2>7. QED
    BY <1>0, <2>4, <2>5, <2>6
<1>3. CASE \E id \in Entities, target \in Targets : Sweep(id, target)
  <2>1. PICK id \in Entities, target \in Targets : Sweep(id, target)
    BY <1>3
  <2>2. target \in Pos3
    BY WorldAssumption
  <2>3. Entities' = Entities
    BY <2>1 DEF Sweep, Entities
  <2>4. QED
    BY <1>0, <2>1, <2>2, <2>3 DEF Sweep
<1>4. CASE \E id \in Entities, tag \in Tags : SetTag(id, tag)
  <2>1. PICK id \in Entities, tag \in Tags : SetTag(id, tag)
    BY <1>4
  <2>2. Entities' = Entities
    BY <2>1 DEF SetTag, Entities
  <2>3. QED
    BY <1>0, <2>1, <2>2 DEF SetTag
<1>5. CASE \E id \in Entities, name \in Names : SetName(id, name)
  <2>1. PICK id \in Entities, name \in Names : SetName(id, name)
    BY <1>5
  <2>2. Entities' = Entities
    BY <2>1 DEF SetName, Entities
  <2>3. QED
    BY <1>0, <2>1, <2>2 DEF SetName
<1>6. CASE \E id \in Entities : Despawn(id)
  <2>1. PICK id \in Entities : Despawn(id)
    BY <1>6
  <2>2. Entities' = Entities
    BY <2>1 DEF Despawn, Entities
  <2>3. QED
    BY <1>0, <2>1, <2>2 DEF Despawn
<1>7. CASE \E at \in Homes, tag \in Tags, shadow \in BOOLEAN : Spawn(at, tag, shadow)
  <2>1. PICK at \in Homes, tag \in Tags, shadow \in BOOLEAN : Spawn(at, tag, shadow)
    BY <1>7
  <2>2. ArraysTyped' /\ slots' = slots + 1
    BY <2>1, SpawnTyped
  <2>3. InStep /\ shown' \subseteq shown \cup {slots}
    BY <2>1 DEF Spawn
  <2>4. QED
    BY <1>0, <2>2, <2>3
<1>8. QED
  BY <1>1, <1>2, <1>3, <1>4, <1>5, <1>6, <1>7 DEF StepOperation

LEMMA GameTyped ==
    ASSUME TypeOK, StepOperation
    PROVE  TypeOK'
<1>1. InStep /\ ArraysTyped' /\ slots' \in Nat /\ slots <= slots'
  BY StepOperationTyped
<1>2. ClockTyped' /\ UNCHANGED <<tickVars, viewVars, serveVars>>
  BY <1>1, InStepTyped
<1>3. OdometerTyped' /\ RegistryTyped' /\ ServeTyped'
  BY <1>1, <1>2, RestTyped
<1>4. QED
  BY <1>1, <1>2, <1>3, TypePartsAfter

LEMMA Modulo ==
    ASSUME NEW n \in Int, NEW m \in Nat \ {0}
    PROVE  n % m \in 0 .. (m - 1)
  OBVIOUS

LEMMA StartTickTyped ==
    ASSUME TypeOK, StartTick
    PROVE  TypeOK'
<1>1. TickMod \in Nat \ {0}
  BY WorldAssumption
<1>2. tick + 1 \in Int
  BY <1>1 DEF TypeOK
<1>3. (tick + 1) % TickMod \in 0 .. (TickMod - 1)
  BY <1>1, <1>2, Modulo
<1>4. ClockTyped'
  BY <1>3, TypeParts DEF StartTick, ClockTyped
<1>5. Entities' = Entities
  BY DEF StartTick, Entities
<1>6. ArraysTyped'
  BY <1>5, TypeParts DEF StartTick, ArraysTyped
<1>7. OdometerTyped'
  BY <1>5, TypeParts DEF StartTick, OdometerTyped, tickVars
<1>8. RegistryTyped'
  BY <1>5, TypeParts DEF StartTick, RegistryTyped, viewVars, ViewerType, ViewType
<1>9. ServeTyped'
  BY <1>5, TypeParts DEF StartTick, ServeTyped, viewVars
<1>10. QED
  BY <1>4, <1>6, <1>7, <1>8, <1>9, TypePartsAfter

LEMMA ReadingType ==
    ASSUME TypeOK, NEW id \in Entities
    PROVE  Before(total, id, 0) \in Int /\ Stride(id) \in Int
<1>1. ArraysTyped /\ OdometerTyped /\ ReadingMod \in Nat \ {0}
  BY TypeParts, WorldAssumption
<1>2. Before(total, id, 0) \in Int
  <2>1. CASE id \in DOMAIN total
    <3>1. total[id] \in 0 .. (ReadingMod - 1)
      BY <1>1, <2>1 DEF OdometerTyped
    <3>2. QED
      BY <1>1, <2>1, <3>1 DEF Before
  <2>2. CASE id \notin DOMAIN total
    BY <2>2 DEF Before
  <2>3. QED
    BY <2>1, <2>2
<1>3. CASE id \notin DOMAIN prev \/ id \notin shown
  BY <1>2, <1>3 DEF Stride
<1>4. CASE id \in DOMAIN prev /\ id \in shown
  <2>1. pos[id] \in Pos3 /\ prev[id] \in Pos3
    BY <1>1, <1>4 DEF ArraysTyped, OdometerTyped
  <2>2. /\ pos[id].x \in Int /\ pos[id].y \in Int /\ pos[id].z \in Int
        /\ prev[id].x \in Int /\ prev[id].y \in Int /\ prev[id].z \in Int
    BY <2>1, PosOf
  <2>3. \A a, b \in Int : AbsDiff(a, b) \in Int
    BY DEF AbsDiff
  <2>4. Stride(id) = Smaller(AbsDiff(pos[id].x, prev[id].x) + AbsDiff(pos[id].y, prev[id].y)
                                 + AbsDiff(pos[id].z, prev[id].z), ReadingMod - 1)
    BY <1>4 DEF Stride
  <2>5. Stride(id) \in Int
    <3> DEFINE x == AbsDiff(pos[id].x, prev[id].x)
               y == AbsDiff(pos[id].y, prev[id].y)
               z == AbsDiff(pos[id].z, prev[id].z)
    <3>1. x \in Int /\ y \in Int /\ z \in Int
      BY <2>2, <2>3, Zenon
    <3>2. Stride(id) = Smaller(x + y + z, ReadingMod - 1)
      BY <2>4
    <3> HIDE DEF x, y, z
    <3>3. QED
      BY <1>1, <3>1, <3>2 DEF Smaller
  <2>6. QED
    BY <1>2, <2>5
<1>5. QED
  BY <1>3, <1>4

LEMMA EndStepTyped ==
    ASSUME TypeOK, EndStep
    PROVE  TypeOK'
<1>1. ArraysTyped /\ OdometerTyped /\ RegistryTyped /\ ServeTyped /\ ClockTyped
  BY TypeParts
<1>2. ReadingMod \in Nat \ {0} /\ TagBump \in Nat
  BY WorldAssumption
<1>3. Entities' = Entities /\ UNCHANGED <<ops, tick, slots, pos, tags, names, atWall, live, shown,
                                         despawned, viewers, free, known, viewCleared>>
  BY DEF EndStep, Entities, stepVars, viewVars
<1>4. ClockTyped'
  BY <1>1, <1>3 DEF EndStep, ClockTyped
<1>5. ArraysTyped'
  BY <1>1, <1>3 DEF ArraysTyped
<1>6. OdometerTyped'
  <2>1. DOMAIN prev' = Entities /\ DOMAIN total' = Entities /\ DOMAIN prevTags' = Entities
    BY <1>1 DEF EndStep, ArraysTyped
  <2>2. \A id \in Entities : prev'[id] \in Pos3
    <3> TAKE id \in Entities
    <3>1. prev'[id] = IF id \in shown THEN pos[id] ELSE Before(prev, id, pos[id])
      BY DEF EndStep
    <3>2. QED
      BY <1>1, <3>1 DEF ArraysTyped, OdometerTyped, Before
  <2>3. \A id \in Entities : total'[id] \in 0 .. (ReadingMod - 1)
    <3> TAKE id \in Entities
    <3> DEFINE reading == Before(total, id, 0) + Stride(id) + IF TagChanged(id) THEN TagBump ELSE 0
    <3>1. total'[id] = reading % ReadingMod
      BY DEF EndStep
    <3>2. reading \in Int
      BY <1>2, ReadingType
    <3> HIDE DEF reading
    <3>3. QED
      BY <1>2, <3>1, <3>2, Modulo
  <2>4. QED
    BY <1>3, <2>1, <2>2, <2>3 DEF OdometerTyped
<1>7. RegistryTyped'
  BY <1>1, <1>3 DEF RegistryTyped, ViewerType, ViewType
<1>8. ServeTyped'
  BY <1>1, <1>3 DEF ServeTyped, EndStep
<1>9. QED
  BY <1>4, <1>5, <1>6, <1>7, <1>8, TypePartsAfter

(* What `serve` writes of a viewer.                                        *)
Center(v) == CellOf(cfg, pos[viewers[v].avatar])

ServedViewer(v) ==
    [viewers[v] EXCEPT !.sub = AtCenter(cfg, Center(v)),
                       !.at_boundary = IF viewers[v].sub # AtCenter(cfg, Center(v))
                                       THEN ReachesBox(cfg, Center(v)) ELSE @]

ServedView(v) ==
    LET moved == viewers[v].sub # AtCenter(cfg, Center(v))
        reaches == ReachesBox(cfg, Center(v))
    IN  [cell |-> Center(v),
         squares |->
            IF Reports(viewers[v], moved, reaches)
            THEN SquaresInView(cfg, Origin, pos[viewers[v].avatar])
            ELSE IF Clears(viewers[v], moved, reaches) THEN {} ELSE known[v].squares]

LEMMA ServeWrites ==
    ASSUME NEW v, Serve(v), Served(v)
    PROVE  /\ viewers' = [viewers EXCEPT ![v] = ServedViewer(v)]
           /\ known' = [known EXCEPT ![v] = ServedView(v)]
           /\ viewCollisions' = viewCollisions \cup
                 {c \in {<<viewers[v].avatar, pos[viewers[v].avatar]>>} :
                      Reports(viewers[v], viewers[v].sub # AtCenter(cfg, Center(v)),
                              ReachesBox(cfg, Center(v)))}
           /\ viewCleared' \subseteq viewCleared \cup {viewers[v].avatar}
<1>1. viewers' = [viewers EXCEPT ![v] = ServedViewer(v)]
  BY DEF Serve, ServedViewer, Center
<1>2. known' = [known EXCEPT ![v] = ServedView(v)]
  BY DEF Serve, ServedView, Center
<1>3. QED
  BY <1>1, <1>2 DEF Serve, Center

LEMMA ServeRests ==
    ASSUME NEW v, Serve(v)
    PROVE  /\ UNCHANGED <<phase, ops, tick, stepVars, tickVars, free>>
           /\ waiting' = waiting \ {v} /\ v \in waiting /\ phase = "serve"
           /\ ~Served(v) => UNCHANGED <<viewers, viewCollisions, viewCleared, known>>
  BY DEF Serve

LEMMA ServeTypes ==
    ASSUME TypeOK, NEW v \in DOMAIN viewers, Served(v)
    PROVE  /\ viewers[v].avatar \in Entities /\ pos[viewers[v].avatar] \in Pos3
           /\ Center(v) \in CellCoords
           /\ ServedViewer(v) \in ViewerType /\ ServedView(v) \in ViewType
<1>1. ArraysTyped /\ RegistryTyped
  BY TypeParts
<1>2. viewers[v] \in ViewerType /\ known[v] \in ViewType
  BY <1>1 DEF RegistryTyped
<1>3. viewers[v].avatar \in Entities /\ pos[viewers[v].avatar] \in Pos3
  BY <1>1, <1>2 DEF ViewerType, ArraysTyped
<1>4. Center(v) \in CellCoords
  BY <1>3, CellType DEF Center
<1>5. AtCenter(cfg, Center(v)) \in Boxes /\ ReachesBox(cfg, Center(v)) \in BOOLEAN
  BY <1>4, BoxType DEF ReachesBox
<1>6. ServedViewer(v) \in ViewerType
  BY <1>2, <1>5 DEF ServedViewer, ViewerType
<1>7. ServedView(v) \in ViewType
  BY <1>2, <1>4, SquaresType DEF ServedView, ViewType, Square3
<1>8. QED
  BY <1>3, <1>4, <1>6, <1>7

LEMMA ServingTyped ==
    ASSUME TypeOK, NEW v \in DOMAIN viewers, Serve(v)
    PROVE  TypeOK'
<1>1. ArraysTyped /\ OdometerTyped /\ RegistryTyped /\ ServeTyped /\ ClockTyped
  BY TypeParts
<1>2. Entities' = Entities /\ UNCHANGED <<phase, ops, tick, slots, pos, tags, names, atWall, live,
                                         shown, despawned, prevTags, total, prev, free>>
  BY ServeRests DEF Entities, stepVars, tickVars
<1>3. ClockTyped' /\ ArraysTyped' /\ OdometerTyped'
  BY <1>1, <1>2 DEF ClockTyped, ArraysTyped, OdometerTyped
<1>4. RegistryTyped' /\ ServeTyped'
  <2>1. CASE ~Served(v)
    <3>1. UNCHANGED <<viewers, viewCleared, known>> /\ waiting' \subseteq waiting
      BY <2>1, ServeRests
    <3>2. QED
      BY <1>1, <1>2, <3>1 DEF RegistryTyped, ServeTyped, ViewerType, ViewType
  <2>2. CASE Served(v)
    <3>1. /\ viewers' = [viewers EXCEPT ![v] = ServedViewer(v)]
          /\ known' = [known EXCEPT ![v] = ServedView(v)]
          /\ viewCleared' \subseteq viewCleared \cup {viewers[v].avatar}
          /\ waiting' \subseteq waiting
      BY <2>2, ServeWrites, ServeRests
    <3>2. /\ viewers[v].avatar \in Entities
          /\ ServedViewer(v) \in ViewerType /\ ServedView(v) \in ViewType
      BY <2>2, ServeTypes
    <3>3. DOMAIN viewers' = DOMAIN viewers /\ DOMAIN known' = DOMAIN known
      BY <3>1
    <3>4. /\ \A w \in DOMAIN viewers' : viewers'[w] \in ViewerType
          /\ \A w \in DOMAIN known' : known'[w] \in ViewType
      BY <1>1, <3>1, <3>2 DEF RegistryTyped
    <3>5. ViewerType' = ViewerType /\ ViewType' = ViewType
      BY <1>2 DEF ViewerType, ViewType
    <3>6. RegistryTyped'
      BY <1>1, <1>2, <3>3, <3>4, <3>5 DEF RegistryTyped
    <3>7. ServeTyped'
      BY <1>1, <1>2, <3>1, <3>2, <3>3 DEF ServeTyped
    <3>8. QED
      BY <3>6, <3>7
  <2>3. QED
    BY <2>1, <2>2
<1>5. QED
  BY <1>3, <1>4, TypePartsAfter

LEMMA EndTickTyped ==
    ASSUME TypeOK, EndTick
    PROVE  TypeOK'
<1>1. Entities' = Entities
  BY DEF EndTick, Entities, stepVars
<1>2. ClockTyped' /\ ArraysTyped'
  BY <1>1, TypeParts DEF EndTick, stepVars, ClockTyped, ArraysTyped
<1>3. OdometerTyped'
  BY <1>1, TypeParts DEF EndTick, tickVars, OdometerTyped
<1>4. RegistryTyped' /\ ServeTyped'
  BY <1>1, TypeParts DEF EndTick, viewVars, serveVars, RegistryTyped, ServeTyped, ViewerType, ViewType
<1>5. QED
  BY <1>2, <1>3, <1>4, TypePartsAfter

-----------------------------------------------------------------------------
(* The registry.  An id given is a free one, or the next.                  *)
NextId(v) == \E n \in 0 .. MaxViewers : DOMAIN viewers = 0 .. (n - 1) /\ v = n

Given(v) == \/ free = <<>> /\ free' = free /\ NextId(v)
            \/ free # <<>> /\ v = free[Len(free)] /\ free' = SubSeq(free, 1, Len(free) - 1)

LEMMA FirstIds == \A n \in Nat : Cardinality(0 .. (n - 1)) = n
  BY FS_Interval

LEMMA RegisterGives ==
    ASSUME TypeOK, NEW avatar, NEW period, RegisterViewer(avatar, period)
    PROVE  \E v : /\ v < MaxViewers /\ Given(v)
                  /\ viewers' = Seat(v, Fresh(avatar, period))
                  /\ known' = [i \in DOMAIN viewers \cup {v} |->
                                  IF i = v THEN NoView ELSE known[i]]
<1> DEFINE v == IF free = <<>> THEN Cardinality(DOMAIN viewers) ELSE Last(free)
<1>1. /\ v < MaxViewers /\ viewers' = Seat(v, Fresh(avatar, period))
      /\ known' = [i \in DOMAIN viewers \cup {v} |-> IF i = v THEN NoView ELSE known[i]]
      /\ free' = IF free = <<>> THEN free ELSE Front(free)
  BY DEF RegisterViewer
<1>2. Given(v)
  <2>1. CASE free = <<>>
    <3>1. RegistryTyped /\ MaxViewers \in Nat
      BY TypeParts, WorldAssumption
    <3>2. PICK n \in 0 .. MaxViewers : DOMAIN viewers = 0 .. (n - 1)
      BY <3>1 DEF RegistryTyped
    <3>3. v = n
      BY <2>1, <3>1, <3>2, FirstIds
    <3>4. NextId(v)
      BY <3>2, <3>3 DEF NextId
    <3>5. QED
      BY <1>1, <2>1, <3>4 DEF Given
  <2>2. CASE free # <<>>
    BY <1>1, <2>2 DEF Given, Last, Front
  <2>3. QED
    BY <2>1, <2>2
<1> HIDE DEF v
<1>3. QED
  BY <1>1, <1>2

LEMMA GivenDomain ==
    ASSUME TypeOK, NEW v, v < MaxViewers, Given(v)
    PROVE  /\ \E n \in 0 .. MaxViewers : DOMAIN viewers \cup {v} = 0 .. (n - 1)
           /\ free' \in Seq(DOMAIN viewers)
           /\ free = <<>> => v \notin DOMAIN viewers
           /\ free # <<>> => Len(free) \in DOMAIN free /\ v \in DOMAIN viewers
<1>1. RegistryTyped /\ MaxViewers \in Nat
  BY TypeParts, WorldAssumption
<1>2. free \in Seq(DOMAIN viewers)
  BY <1>1 DEF RegistryTyped
<1>3. PICK m \in 0 .. MaxViewers : DOMAIN viewers = 0 .. (m - 1)
  BY <1>1 DEF RegistryTyped
<1>4. CASE free = <<>>
  <2>1. free' = free
    BY <1>4 DEF Given
  <2>2. PICK n \in 0 .. MaxViewers : DOMAIN viewers = 0 .. (n - 1) /\ v = n
    BY <1>4 DEF Given, NextId
  <2>3. n \in Nat /\ n + 1 \in 0 .. MaxViewers
    BY <1>1, <2>2
  <2>4. DOMAIN viewers \cup {v} = 0 .. ((n + 1) - 1) /\ v \notin DOMAIN viewers
    BY <2>2, <2>3
  <2>5. QED
    BY <1>2, <1>4, <2>1, <2>3, <2>4
<1>5. CASE free # <<>>
  <2>1. v = free[Len(free)] /\ free' = SubSeq(free, 1, Len(free) - 1)
    BY <1>5 DEF Given
  <2>2. Len(free) \in DOMAIN free
    BY <1>2, <1>5
  <2>3. v \in DOMAIN viewers /\ free' \in Seq(DOMAIN viewers)
    BY <1>2, <2>1, <2>2
  <2>4. DOMAIN viewers \cup {v} = DOMAIN viewers
    BY <2>3
  <2>5. QED
    BY <1>3, <1>5, <2>2, <2>3, <2>4
<1>6. QED
  BY <1>4, <1>5

LEMMA FreshType ==
    ASSUME TypeOK, NEW avatar \in live, NEW period \in Periods
    PROVE  Fresh(avatar, period) \in ViewerType /\ NoView \in ViewType
<1>1. avatar \in Entities
  BY TypeParts DEF ArraysTyped
<1>2. QED
  BY <1>1 DEF Fresh, ViewerType, NoView, ViewType

LEMMA RegistryRests ==
    ASSUME TypeOK, UNCHANGED <<phase, ops, tick, stepVars, tickVars, serveVars>>
    PROVE  /\ ClockTyped' /\ ArraysTyped' /\ OdometerTyped' /\ Entities' = Entities
           /\ waiting' = waiting /\ viewCleared' = viewCleared
           /\ ViewerType' = ViewerType /\ ViewType' = ViewType
<1>1. Entities' = Entities
  BY DEF Entities, stepVars
<1>2. QED
  BY <1>1, TypeParts DEF stepVars, tickVars, serveVars, ClockTyped, ArraysTyped, OdometerTyped,
                         ViewerType, ViewType

LEMMA RegisterTyped ==
    ASSUME TypeOK, NEW avatar \in live, NEW period \in Periods, RegisterViewer(avatar, period)
    PROVE  TypeOK'
<1>1. UNCHANGED <<phase, ops, tick, stepVars, tickVars, serveVars>>
  BY DEF RegisterViewer
<1>2. PICK v : /\ v < MaxViewers /\ Given(v)
               /\ viewers' = Seat(v, Fresh(avatar, period))
               /\ known' = [i \in DOMAIN viewers \cup {v} |-> IF i = v THEN NoView ELSE known[i]]
  BY RegisterGives
<1>3. RegistryTyped /\ ServeTyped
  BY TypeParts
<1>4. Fresh(avatar, period) \in ViewerType /\ NoView \in ViewType
  BY FreshType
<1>5. viewers' = [i \in DOMAIN viewers \cup {v} |->
                      IF i = v THEN Fresh(avatar, period) ELSE viewers[i]]
  BY <1>2 DEF Seat
<1>6. DOMAIN viewers' = DOMAIN viewers \cup {v} /\ DOMAIN known' = DOMAIN viewers \cup {v}
  BY <1>2, <1>5
<1>7. /\ \A w \in DOMAIN viewers' : viewers'[w] \in ViewerType
      /\ \A w \in DOMAIN known' : known'[w] \in ViewType
  BY <1>2, <1>3, <1>4, <1>5, <1>6 DEF RegistryTyped
<1>8. \E n \in 0 .. MaxViewers : DOMAIN viewers' = 0 .. (n - 1)
  BY <1>2, <1>6, GivenDomain
<1>9. free' \in Seq(DOMAIN viewers')
  <2>1. free' \in Seq(DOMAIN viewers)
    BY <1>2, GivenDomain
  <2>2. QED
    BY <1>6, <2>1
<1>10. RegistryTyped'
  BY <1>1, <1>6, <1>7, <1>8, <1>9, RegistryRests DEF RegistryTyped
<1>11. ServeTyped'
  BY <1>1, <1>3, <1>6, RegistryRests DEF ServeTyped
<1>12. QED
  BY <1>1, <1>10, <1>11, RegistryRests, TypePartsAfter

LEMMA UnregisterTyped ==
    ASSUME TypeOK, NEW v \in DOMAIN viewers, UnregisterViewer(v)
    PROVE  TypeOK'
<1>1. UNCHANGED <<phase, ops, tick, stepVars, tickVars, serveVars>>
  BY DEF UnregisterViewer
<1>2. RegistryTyped /\ ServeTyped
  BY TypeParts
<1> DEFINE gone == [viewers[v] EXCEPT !.registered = FALSE, !.sub = None]
<1>3. /\ viewers' = [viewers EXCEPT ![v] = gone] /\ known' = [known EXCEPT ![v] = NoView]
      /\ free' = Append(free, v)
  BY DEF UnregisterViewer
<1>4. gone \in ViewerType
  BY <1>2 DEF RegistryTyped, ViewerType
<1>5. NoView \in ViewType
  BY DEF NoView, ViewType
<1> HIDE DEF gone
<1>6. DOMAIN viewers' = DOMAIN viewers /\ DOMAIN known' = DOMAIN known
  BY <1>3
<1>7. /\ \A w \in DOMAIN viewers' : viewers'[w] \in ViewerType
      /\ \A w \in DOMAIN known' : known'[w] \in ViewType
  BY <1>2, <1>3, <1>4, <1>5, <1>6 DEF RegistryTyped
<1>8. free' \in Seq(DOMAIN viewers)
  BY <1>2, <1>3 DEF RegistryTyped
<1>9. RegistryTyped'
  BY <1>1, <1>2, <1>6, <1>7, <1>8, RegistryRests DEF RegistryTyped
<1>10. ServeTyped'
  BY <1>1, <1>2, <1>6, RegistryRests DEF ServeTyped
<1>11. QED
  BY <1>1, <1>9, <1>10, RegistryRests, TypePartsAfter

LEMMA TypeStep ==
    ASSUME TypeOK, [Next]_vars
    PROVE  TypeOK'
<1>1. CASE StepOperation
  BY <1>1, GameTyped
<1>2. CASE StartTick
  BY <1>2, StartTickTyped
<1>3. CASE EndStep
  BY <1>3, EndStepTyped
<1>4. CASE EndTick
  BY <1>4, EndTickTyped
<1>5. CASE \E v \in DOMAIN viewers : Serve(v)
  BY <1>5, ServingTyped
<1>6. CASE \E v \in DOMAIN viewers : UnregisterViewer(v)
  BY <1>6, UnregisterTyped
<1>7. CASE \E avatar \in live, period \in Periods : RegisterViewer(avatar, period)
  BY <1>7, RegisterTyped
<1>8. CASE UNCHANGED vars
  <2>1. UNCHANGED <<phase, ops, tick, stepVars, tickVars, viewVars, serveVars>>
    BY <1>8 DEF vars
  <2>2. UNCHANGED <<viewers, free, known>>
    BY <2>1 DEF viewVars
  <2>3. ClockTyped' /\ ArraysTyped' /\ OdometerTyped' /\ RegistryTyped' /\ ServeTyped'
    BY <2>1, <2>2, RegistryRests, TypeParts DEF RegistryTyped, ServeTyped
  <2>4. QED
    BY <2>3, TypePartsAfter
<1>9. QED
  BY <1>1, <1>2, <1>3, <1>4, <1>5, <1>6, <1>7, <1>8 DEF Next

(* Every array covers every entity id ever handed out, whatever the game   *)
(* does and however ticks, servings and registrations interleave.          *)
THEOREM WorldTypeCorrect == Spec => []TypeOK
<1>1. QED
  BY TypeInit, TypeStep, PTL DEF Spec

-----------------------------------------------------------------------------
(* Viewer ids.                                                             *)
IdsInv == TypeOK /\ ViewersAccounted

LEMMA ButLast ==
    ASSUME NEW S, NEW s \in Seq(S), s # <<>>
    PROVE  LET t == SubSeq(s, 1, Len(s) - 1)
           IN  /\ DOMAIN t = 1 .. (Len(s) - 1) /\ \A i \in DOMAIN t : t[i] = s[i]
               /\ DOMAIN s = DOMAIN t \cup {Len(s)} /\ Len(s) \notin DOMAIN t
<1> DEFINE t == SubSeq(s, 1, Len(s) - 1)
<1>1. Len(s) \in Nat \ {0} /\ DOMAIN s = 1 .. Len(s)
  OBVIOUS
<1>2. DOMAIN t = 1 .. (Len(s) - 1)
  BY <1>1
<1>3. \A i \in 1 .. (Len(s) - 1) : t[i] = s[i]
  BY <1>1
<1>4. 1 .. Len(s) = (1 .. (Len(s) - 1)) \cup {Len(s)} /\ Len(s) \notin 1 .. (Len(s) - 1)
  BY <1>1
<1>5. QED
  BY <1>1, <1>2, <1>3, <1>4

LEMMA IdsRest ==
    ASSUME ViewersAccounted, UNCHANGED <<viewers, free>>
    PROVE  ViewersAccounted'
  BY DEF ViewersAccounted

LEMMA IdsServe ==
    ASSUME IdsInv, NEW v \in DOMAIN viewers, Serve(v)
    PROVE  ViewersAccounted'
<1>1. free' = free
  BY ServeRests
<1>2. CASE ~Served(v)
  BY <1>1, <1>2, ServeRests, IdsRest DEF IdsInv
<1>3. CASE Served(v)
  <2>1. viewers' = [viewers EXCEPT ![v] = ServedViewer(v)]
    BY <1>3, ServeWrites
  <2>2. viewers[v].registered /\ viewers[v] \in ViewerType
    BY <1>3, TypeParts DEF Served, IdsInv, RegistryTyped
  <2>3. ServedViewer(v).registered
    BY <2>2 DEF ServedViewer, ViewerType
  <2>4. DOMAIN viewers' = DOMAIN viewers
    BY <2>1
  <2>5. viewers'[v].registered /\ \A w \in DOMAIN viewers : w # v => viewers'[w] = viewers[w]
    BY <2>1, <2>3
  <2>6. QED
    BY <1>1, <2>2, <2>4, <2>5 DEF IdsInv, ViewersAccounted
<1>4. QED
  BY <1>2, <1>3

LEMMA IdsRegister ==
    ASSUME IdsInv, NEW avatar \in live, NEW period \in Periods, RegisterViewer(avatar, period)
    PROVE  ViewersAccounted'
<1>1. TypeOK /\ ViewersAccounted /\ free \in Seq(DOMAIN viewers)
  BY TypeParts DEF IdsInv, RegistryTyped
<1>2. PICK v : /\ v < MaxViewers /\ Given(v) /\ viewers' = Seat(v, Fresh(avatar, period))
  BY <1>1, RegisterGives
<1>3. DOMAIN viewers' = DOMAIN viewers \cup {v}
      /\ viewers'[v] = Fresh(avatar, period)
      /\ \A w \in DOMAIN viewers : w # v => viewers'[w] = viewers[w]
  BY <1>2 DEF Seat
<1>4. viewers'[v].registered
  BY <1>3 DEF Fresh
<1>5. /\ \A i, j \in DOMAIN free : free[i] = free[j] => i = j
      /\ \A w \in DOMAIN viewers :
             viewers[w].registered <=> w \notin {free[i] : i \in DOMAIN free}
      /\ \A w \in DOMAIN viewers : ~viewers[w].registered => viewers[w].sub = None
  BY <1>1 DEF ViewersAccounted
(* The id given was not in the list, or is not any more.                   *)
<1>6. /\ \A i, j \in DOMAIN free' : free'[i] = free'[j] => i = j
      /\ v \notin {free'[i] : i \in DOMAIN free'}
      /\ \A w \in DOMAIN viewers : w # v =>
             (w \in {free[i] : i \in DOMAIN free} <=> w \in {free'[i] : i \in DOMAIN free'})
  <2>1. CASE free = <<>>
    <3>1. free' = free /\ DOMAIN free = {}
      BY <1>2, <2>1 DEF Given
    <3>2. QED
      BY <1>5, <3>1
  <2>2. CASE free # <<>>
    <3>1. v = free[Len(free)] /\ free' = SubSeq(free, 1, Len(free) - 1)
      BY <1>2, <2>2 DEF Given
    <3>2. Len(free) \in DOMAIN free /\ Len(free) \in Nat
      BY <1>1, <2>2
    <3>3. /\ DOMAIN free' = 1 .. (Len(free) - 1)
          /\ \A i \in DOMAIN free' : free'[i] = free[i]
          /\ DOMAIN free = DOMAIN free' \cup {Len(free)} /\ Len(free) \notin DOMAIN free'
      <4> DEFINE t == SubSeq(free, 1, Len(free) - 1)
      <4>1. /\ DOMAIN t = 1 .. (Len(free) - 1) /\ \A i \in DOMAIN t : t[i] = free[i]
            /\ DOMAIN free = DOMAIN t \cup {Len(free)} /\ Len(free) \notin DOMAIN t
        BY <1>1, <2>2, ButLast
      <4>2. free' = t
        BY <3>1
      <4> HIDE DEF t
      <4>3. QED
        BY <4>1, <4>2
    <3>4. \A i, j \in DOMAIN free' : free'[i] = free'[j] => i = j
      BY <1>5, <3>3
    <3>5. v \notin {free'[i] : i \in DOMAIN free'}
      <4> SUFFICES ASSUME NEW i \in DOMAIN free', free'[i] = v
                   PROVE  FALSE
        OBVIOUS
      <4>1. i \in DOMAIN free /\ free[i] = free[Len(free)] /\ i # Len(free)
        BY <3>1, <3>3
      <4>2. QED
        BY <1>5, <3>2, <4>1
    <3>6. \A w \in DOMAIN viewers : w # v =>
              (w \in {free[i] : i \in DOMAIN free} <=> w \in {free'[i] : i \in DOMAIN free'})
      BY <3>1, <3>3
    <3>7. QED
      BY <3>4, <3>5, <3>6
  <2>3. QED
    BY <2>1, <2>2
<1>7. \A w \in DOMAIN viewers' :
          viewers'[w].registered <=> w \notin {free'[i] : i \in DOMAIN free'}
  BY <1>3, <1>4, <1>5, <1>6
<1>8. \A w \in DOMAIN viewers' : ~viewers'[w].registered => viewers'[w].sub = None
  BY <1>3, <1>4, <1>5
<1>9. QED
  BY <1>6, <1>7, <1>8 DEF ViewersAccounted

LEMMA IdsUnregister ==
    ASSUME IdsInv, NEW v \in DOMAIN viewers, UnregisterViewer(v)
    PROVE  ViewersAccounted'
<1>1. free \in Seq(DOMAIN viewers) /\ viewers[v] \in ViewerType /\ ViewersAccounted
  BY TypeParts DEF IdsInv, RegistryTyped
<1> DEFINE gone == [viewers[v] EXCEPT !.registered = FALSE, !.sub = None]
<1>2. viewers' = [viewers EXCEPT ![v] = gone] /\ free' = Append(free, v) /\ viewers[v].registered
  BY DEF UnregisterViewer
<1>3. gone.registered = FALSE /\ gone.sub = None
  BY <1>1 DEF ViewerType
<1> HIDE DEF gone
<1>4. /\ DOMAIN viewers' = DOMAIN viewers /\ viewers'[v] = gone
      /\ \A w \in DOMAIN viewers : w # v => viewers'[w] = viewers[w]
  BY <1>2
<1>5. /\ \A i, j \in DOMAIN free : free[i] = free[j] => i = j
      /\ \A w \in DOMAIN viewers :
             viewers[w].registered <=> w \notin {free[i] : i \in DOMAIN free}
      /\ \A w \in DOMAIN viewers : ~viewers[w].registered => viewers[w].sub = None
  BY <1>1 DEF ViewersAccounted
<1>6. \A i \in DOMAIN free : free[i] # v
  BY <1>2, <1>5
<1>7. /\ DOMAIN free' = DOMAIN free \cup {Len(free) + 1} /\ Len(free) + 1 \notin DOMAIN free
      /\ free'[Len(free) + 1] = v /\ \A i \in DOMAIN free : free'[i] = free[i]
  BY <1>1, <1>2
<1>8. \A i, j \in DOMAIN free' : free'[i] = free'[j] => i = j
  BY <1>5, <1>6, <1>7
<1>9. \A w \in DOMAIN viewers' :
          viewers'[w].registered <=> w \notin {free'[i] : i \in DOMAIN free'}
  BY <1>3, <1>4, <1>5, <1>7
<1>10. \A w \in DOMAIN viewers' : ~viewers'[w].registered => viewers'[w].sub = None
  BY <1>3, <1>4, <1>5
<1>11. QED
  BY <1>8, <1>9, <1>10 DEF ViewersAccounted

LEMMA IdsStep ==
    ASSUME IdsInv, [Next]_vars
    PROVE  IdsInv'
<1>1. TypeOK /\ ViewersAccounted /\ TypeOK'
  BY TypeStep DEF IdsInv
<1>2. CASE \E v \in DOMAIN viewers : Serve(v)
  BY <1>1, <1>2, IdsServe DEF IdsInv
<1>3. CASE \E v \in DOMAIN viewers : UnregisterViewer(v)
  BY <1>1, <1>3, IdsUnregister DEF IdsInv
<1>4. CASE \E avatar \in live, period \in Periods : RegisterViewer(avatar, period)
  BY <1>1, <1>4, IdsRegister DEF IdsInv
<1>5. CASE StepOperation
  <2>1. UNCHANGED viewVars
    BY <1>1, <1>5, StepOperationTyped DEF InStep
  <2>2. QED
    BY <1>1, <2>1, IdsRest DEF IdsInv, viewVars
<1>6. CASE StartTick \/ EndStep \/ EndTick \/ UNCHANGED vars
  <2>1. UNCHANGED viewVars
    BY <1>6 DEF StartTick, EndStep, EndTick, vars
  <2>2. QED
    BY <1>1, <2>1, IdsRest DEF IdsInv, viewVars
<1>7. QED
  BY <1>2, <1>3, <1>4, <1>5, <1>6 DEF Next

LEMMA IdsInit == Init => IdsInv
<1> SUFFICES ASSUME Init
             PROVE  IdsInv
  OBVIOUS
<1>1. DOMAIN viewers = {} /\ DOMAIN free = {}
  BY DEF Init
<1>2. QED
  BY <1>1, TypeInit DEF IdsInv, ViewersAccounted

(* Through every run of registrations and departures a viewer id is with   *)
(* one client or in the list of free ones, once, holding no subscription.  *)
THEOREM ViewerIdsAccounted == Spec => []ViewersAccounted
<1>1. IdsInv => ViewersAccounted
  BY DEF IdsInv
<1>2. QED
  BY <1>1, IdsInit, IdsStep, PTL DEF Spec

(* What a region keeps is well formed, its registry of viewers included,   *)
(* through any run of the game's operations (Viewers, and Step).           *)
THEOREM RegistryAlwaysSound == Spec => []RegistrySound
  BY WorldTypeCorrect, ViewerIdsAccounted, PTL DEF RegistrySound

-----------------------------------------------------------------------------
(* The view.  Before a viewer is first served the edge knows nothing of    *)
(* it; after, its subscription and its flag are of the cell the edge knows.*)
Tracked(v) ==
    viewers[v].registered =>
        IF known[v].cell = None
        THEN viewers[v].sub = None /\ ~viewers[v].at_boundary /\ known[v].squares = {}
        ELSE /\ viewers[v].sub = AtCenter(cfg, known[v].cell)
             /\ viewers[v].at_boundary = ReachesBox(cfg, known[v].cell)
             /\ viewers[v].avatar \in shown => known[v].squares = SquaresFrom(known[v].cell)

ViewInv == TypeOK /\ \A v \in DOMAIN viewers : Tracked(v)

LEMMA ViewTypes ==
    ASSUME TypeOK, NEW v \in DOMAIN viewers
    PROVE  /\ viewers[v] \in ViewerType /\ known[v] \in ViewType
           /\ viewers[v].avatar \in Entities
           /\ known[v].cell # None => known[v].cell \in CellCoords
<1>1. viewers[v] \in ViewerType /\ known[v] \in ViewType
  BY TypeParts DEF RegistryTyped
<1>2. QED
  BY <1>1 DEF ViewerType, ViewType

LEMMA SquaresHere ==
    ASSUME NEW p \in Pos3
    PROVE  /\ SquaresInView(cfg, Origin, p) = SquaresFrom(CellOf(cfg, p))
           /\ ~ReachesBox(cfg, CellOf(cfg, p)) => SquaresFrom(CellOf(cfg, p)) = {}
<1>1. CellOf(cfg, Corner(CellOf(cfg, p))) = CellOf(cfg, p)
  BY CellType, CornerIsInside
<1>2. SquaresInView(cfg, Origin, p) = SquaresInView(cfg, Origin, Corner(CellOf(cfg, p)))
  BY <1>1, SquaresOfCell
<1>3. QED
  BY <1>2, NoSquares DEF SquaresFrom

LEMMA NoSquaresFrom ==
    ASSUME NEW c \in CellCoords, ~ReachesBox(cfg, c)
    PROVE  SquaresFrom(c) = {}
<1>1. CellOf(cfg, Corner(c)) = c
  BY CornerIsInside
<1>2. QED
  BY <1>1, NoSquares DEF SquaresFrom

(* In a wide region the subscription changes exactly when the cell does.   *)
LEMMA MovedIs ==
    ASSUME Wide, ViewInv, NEW v \in DOMAIN viewers, Served(v)
    PROVE  viewers[v].sub # AtCenter(cfg, Center(v)) <=> known[v].cell # Center(v)
<1>1. TypeOK /\ Tracked(v) /\ viewers[v].registered
  BY DEF ViewInv, Served
<1>2. Center(v) \in CellCoords /\ None \notin CellCoords /\ None \notin Boxes
  BY <1>1, ServeTypes, WorldAssumption
<1>3. AtCenter(cfg, Center(v)) # None
  BY <1>2, BoxType
<1>4. CASE known[v].cell = None
  BY <1>1, <1>2, <1>3, <1>4 DEF Tracked
<1>5. CASE known[v].cell # None
  <2>1. known[v].cell \in CellCoords /\ viewers[v].sub = AtCenter(cfg, known[v].cell)
    BY <1>1, <1>5, ViewTypes DEF Tracked
  <2>2. QED
    BY <1>2, <2>1, BoxesDiffer
<1>6. QED
  BY <1>4, <1>5

LEMMA TrackedServed ==
    ASSUME Wide, ViewInv, NEW v \in DOMAIN viewers, Serve(v), Served(v)
    PROVE  Tracked(v)'
<1> DEFINE c == Center(v)
           p == pos[viewers[v].avatar]
           old == viewers[v]
           moved == old.sub # AtCenter(cfg, c)
           reaches == ReachesBox(cfg, c)
           inView == old.avatar \in shown
<1>1. TypeOK /\ Tracked(v) /\ old.registered /\ old \in ViewerType /\ known[v] \in ViewType
  BY ViewTypes DEF ViewInv, Served
<1>2. p \in Pos3 /\ c \in CellCoords /\ c = CellOf(cfg, p)
  BY <1>1, ServeTypes DEF Center
<1>3. None \notin CellCoords
  BY WorldAssumption
<1>4. SquaresInView(cfg, Origin, p) = SquaresFrom(c) /\ (~reaches => SquaresFrom(c) = {})
  BY <1>2, SquaresHere
<1>5. moved <=> known[v].cell # c
  BY MovedIs
<1>6. viewers' = [viewers EXCEPT ![v] = ServedViewer(v)]
      /\ known' = [known EXCEPT ![v] = ServedView(v)] /\ shown' = shown
  BY ServeWrites, ServeRests DEF stepVars
<1>7. viewers'[v] = ServedViewer(v) /\ known'[v] = ServedView(v)
  <2>1. v \in DOMAIN known
    BY <1>1, TypeParts DEF RegistryTyped
  <2>2. QED
    BY <1>6, <2>1
<1>8. /\ viewers'[v].sub = AtCenter(cfg, c) /\ viewers'[v].avatar = old.avatar
      /\ viewers'[v].at_boundary = IF moved THEN reaches ELSE old.at_boundary
  BY <1>1, <1>7 DEF ServedViewer, ViewerType
<1>9. /\ known'[v].cell = c
      /\ known'[v].squares =
             IF moved /\ reaches /\ inView THEN SquaresFrom(c)
             ELSE IF moved /\ ~reaches /\ old.at_boundary /\ inView THEN {} ELSE known[v].squares
  BY <1>4, <1>7 DEF ServedView, Reports, Clears
<1> HIDE DEF c, p, moved, reaches, inView
<1>10. reaches \in BOOLEAN /\ reaches = ReachesBox(cfg, c) /\ old.at_boundary \in BOOLEAN
  BY <1>1 DEF reaches, ReachesBox, ViewerType
<1>11. viewers'[v].at_boundary = reaches
  <2>1. CASE moved
    BY <1>8, <2>1
  <2>2. CASE ~moved
    BY <1>1, <1>2, <1>3, <1>5, <1>8, <1>10, <2>2 DEF Tracked
  <2>3. QED
    BY <2>1, <2>2
<1>12. inView => known'[v].squares = SquaresFrom(c)
  <2>1. CASE ~moved
    BY <1>1, <1>2, <1>3, <1>5, <1>9, <2>1 DEF Tracked, inView
  <2>2. CASE moved /\ reaches
    BY <1>9, <2>2
  <2>3. CASE moved /\ ~reaches /\ old.at_boundary
    BY <1>4, <1>9, <2>3
  <2>4. CASE moved /\ ~reaches /\ ~old.at_boundary /\ inView
    <3>1. known[v].squares = {}
      <4>1. CASE known[v].cell = None
        BY <1>1, <4>1 DEF Tracked
      <4>2. CASE known[v].cell # None
        <5>1. known[v].cell \in CellCoords
          BY <1>1, <4>2, ViewTypes
        <5>2. ~ReachesBox(cfg, known[v].cell) /\ known[v].squares = SquaresFrom(known[v].cell)
          BY <1>1, <2>4, <4>2 DEF Tracked, inView
        <5>3. QED
          BY <5>1, <5>2, NoSquaresFrom
      <4>3. QED
        BY <4>1, <4>2
    <3>2. QED
      BY <1>4, <1>9, <2>4, <3>1
  <2>5. QED
    BY <1>10, <2>1, <2>2, <2>3, <2>4
<1>13. QED
  BY <1>2, <1>3, <1>6, <1>8, <1>9, <1>10, <1>11, <1>12 DEF Tracked, inView, c

LEMMA TracksServe ==
    ASSUME Wide, ViewInv, NEW v \in DOMAIN viewers, Serve(v)
    PROVE  \A w \in DOMAIN viewers' : Tracked(w)'
<1>1. shown' = shown
  BY ServeRests DEF stepVars
<1>2. CASE ~Served(v)
  <2>1. viewers' = viewers /\ known' = known
    BY <1>2, ServeRests
  <2>2. QED
    BY <1>1, <2>1 DEF ViewInv, Tracked
<1>3. CASE Served(v)
  <2>1. viewers' = [viewers EXCEPT ![v] = ServedViewer(v)]
        /\ known' = [known EXCEPT ![v] = ServedView(v)]
    BY <1>3, ServeWrites
  <2>2. DOMAIN known = DOMAIN viewers
    BY TypeParts DEF ViewInv, RegistryTyped
  <2>3. \A w \in DOMAIN viewers : w # v => viewers'[w] = viewers[w] /\ known'[w] = known[w]
    BY <2>1, <2>2
  <2>4. \A w \in DOMAIN viewers : w # v => Tracked(w)'
    BY <1>1, <2>3 DEF ViewInv, Tracked
  <2>5. Tracked(v)'
    BY <1>3, TrackedServed
  <2>6. DOMAIN viewers' = DOMAIN viewers
    BY <2>1
  <2>7. QED
    BY <2>4, <2>5, <2>6
<1>4. QED
  BY <1>2, <1>3

(* A viewer that registers starts over, as one that leaves does; what the  *)
(* edge was told stays until the view is served again.                     *)
LEMMA TracksRegister ==
    ASSUME ViewInv, NEW avatar \in live, NEW period \in Periods, RegisterViewer(avatar, period)
    PROVE  \A w \in DOMAIN viewers' : Tracked(w)'
<1>1. PICK v : /\ viewers' = Seat(v, Fresh(avatar, period))
               /\ known' = [i \in DOMAIN viewers \cup {v} |-> IF i = v THEN NoView ELSE known[i]]
  BY SMTT(30), RegisterGives DEF ViewInv
<1>2. shown' = shown
  BY DEF RegisterViewer, stepVars
<1>3. DOMAIN viewers' = DOMAIN viewers \cup {v}
      /\ viewers'[v] = Fresh(avatar, period) /\ known'[v] = NoView
      /\ \A w \in DOMAIN viewers : w # v => viewers'[w] = viewers[w] /\ known'[w] = known[w]
  BY <1>1 DEF Seat
<1>4. Tracked(v)'
  BY <1>3 DEF Fresh, NoView, Tracked
<1>5. \A w \in DOMAIN viewers : w # v => Tracked(w)'
  BY <1>2, <1>3 DEF ViewInv, Tracked
<1>6. QED
  BY <1>3, <1>4, <1>5

LEMMA TracksUnregister ==
    ASSUME ViewInv, NEW v \in DOMAIN viewers, UnregisterViewer(v)
    PROVE  \A w \in DOMAIN viewers' : Tracked(w)'
<1> DEFINE gone == [viewers[v] EXCEPT !.registered = FALSE, !.sub = None]
<1>1. viewers' = [viewers EXCEPT ![v] = gone] /\ known' = [known EXCEPT ![v] = NoView]
      /\ shown' = shown
  BY DEF UnregisterViewer, stepVars
<1>2. ~gone.registered /\ DOMAIN known = DOMAIN viewers
  BY ViewTypes, TypeParts DEF ViewInv, ViewerType, RegistryTyped
<1> HIDE DEF gone
<1>3. DOMAIN viewers' = DOMAIN viewers /\ viewers'[v] = gone
      /\ \A w \in DOMAIN viewers : w # v => viewers'[w] = viewers[w] /\ known'[w] = known[w]
  BY <1>1, <1>2
<1>4. Tracked(v)'
  BY <1>2, <1>3 DEF Tracked
<1>5. \A w \in DOMAIN viewers : w # v => Tracked(w)'
  BY <1>1, <1>3 DEF ViewInv, Tracked
<1>6. QED
  BY <1>3, <1>4, <1>5

(* An avatar that is no longer shown is never shown again: an id is new    *)
(* when it is spawned.                                                     *)
LEMMA TracksRest ==
    ASSUME ViewInv, UNCHANGED viewVars, shown' \subseteq shown \cup {slots}
    PROVE  \A w \in DOMAIN viewers' : Tracked(w)'
<1>1. viewers' = viewers /\ known' = known
  BY DEF viewVars
<1>2. SUFFICES ASSUME NEW w \in DOMAIN viewers
               PROVE  Tracked(w)'
  BY <1>1
<1>3. viewers[w].avatar \in Entities /\ slots \notin Entities
  <2>1. slots \in Nat
    BY TypeParts, WorldAssumption DEF ViewInv, ArraysTyped
  <2>2. QED
    BY <2>1, ViewTypes DEF ViewInv, Entities
<1>4. viewers[w].avatar \in shown' => viewers[w].avatar \in shown
  BY <1>3
<1>5. QED
  BY <1>1, <1>4 DEF ViewInv, Tracked

LEMMA ViewStep ==
    ASSUME Wide, ViewInv, [Next]_vars
    PROVE  ViewInv'
<1>1. TypeOK /\ TypeOK'
  BY TypeStep DEF ViewInv
<1>2. \A w \in DOMAIN viewers' : Tracked(w)'
  <2>1. CASE \E v \in DOMAIN viewers : Serve(v)
    BY <2>1, TracksServe
  <2>2. CASE \E v \in DOMAIN viewers : UnregisterViewer(v)
    BY <2>2, TracksUnregister
  <2>3. CASE \E avatar \in live, period \in Periods : RegisterViewer(avatar, period)
    BY <2>3, TracksRegister
  <2>4. CASE StepOperation
    <3>1. UNCHANGED viewVars /\ shown' \subseteq shown \cup {slots}
      BY <1>1, <2>4, StepOperationTyped DEF InStep
    <3>2. QED
      BY <3>1, TracksRest
  <2>5. CASE StartTick \/ EndStep \/ EndTick \/ UNCHANGED vars
    <3>1. UNCHANGED viewVars /\ shown' = shown
      BY <2>5 DEF StartTick, EndStep, EndTick, vars, stepVars
    <3>2. QED
      BY <3>1, TracksRest
  <2>6. QED
    BY <2>1, <2>2, <2>3, <2>4, <2>5 DEF Next
<1>3. QED
  BY <1>1, <1>2 DEF ViewInv

LEMMA ViewInit == Init => ViewInv
<1> SUFFICES ASSUME Init
             PROVE  ViewInv
  OBVIOUS
<1>1. DOMAIN viewers = {}
  BY DEF Init
<1>2. QED
  BY <1>1, TypeInit DEF ViewInv

LEMMA ViewIsKnown == ViewInv => ViewKnown
<1> SUFFICES ASSUME ViewInv, NEW v \in DOMAIN viewers, viewers[v].registered,
                    known[v].cell # None, viewers[v].avatar \in shown
             PROVE  known[v].squares = SquaresFrom(known[v].cell)
  BY DEF ViewKnown, SquaresFrom, Corner
<1>1. QED
  BY DEF ViewInv, Tracked

(* In a region wider than two views, what the edge was last told of a      *)
(* viewer is always where its view reaches from the cell it was last       *)
(* served in.                                                              *)
THEOREM ViewsAlwaysKnown == Wide => (Spec => []ViewKnown)
<1> SUFFICES ASSUME Wide
             PROVE  Spec => []ViewKnown
  OBVIOUS
<1>1. QED
  BY ViewInit, ViewStep, ViewIsKnown, PTL DEF Spec

(* Only serving takes a viewer from the ones that wait.                    *)
LEMMA OnlyServed ==
    ASSUME TypeOK, [Next]_vars, NEW v \in waiting \ waiting'
    PROVE  v \in DOMAIN viewers /\ Serve(v)
<1>1. waiting \subseteq DOMAIN viewers
  BY TypeParts DEF ServeTyped
<1>2. CASE \E w \in DOMAIN viewers : Serve(w)
  <2>1. PICK w \in DOMAIN viewers : Serve(w)
    BY <1>2
  <2>2. waiting' = waiting \ {w}
    BY <2>1, ServeRests
  <2>3. v = w
    BY <2>2
  <2>4. QED
    BY <2>1, <2>3
<1>3. CASE ~\E w \in DOMAIN viewers : Serve(w)
  <2>1. waiting' = waiting \/ waiting' = DOMAIN viewers
    <3>1. StepOperation => waiting' = waiting
      <4>1. StepOperation => InStep
        BY StepOperationTyped
      <4>2. QED
        BY <4>1 DEF InStep, serveVars
    <3>2. StartTick \/ EndStep \/ EndTick => waiting' = waiting \/ waiting' = DOMAIN viewers
      BY DEF StartTick, EndStep, EndTick, serveVars
    <3>3. (\E w \in DOMAIN viewers : UnregisterViewer(w)) => waiting' = waiting
      BY DEF UnregisterViewer, serveVars
    <3>4. (\E avatar \in live, period \in Periods : RegisterViewer(avatar, period))
              => waiting' = waiting
      BY DEF RegisterViewer, serveVars
    <3>5. UNCHANGED vars => waiting' = waiting
      BY DEF vars, serveVars
    <3>6. QED
      BY <1>3, <3>1, <3>2, <3>3, <3>4, <3>5 DEF Next
  <2>2. QED
    BY <1>1, <2>1
<1>4. QED
  BY <1>2, <1>3

(* In a region wider than two views, serving a viewer whose cell is not    *)
(* the one it was last served in reports its view, if that reaches past    *)
(* the region: as the doc of `view_collisions` has it.                     *)
THEOREM CellChangesAlwaysReported == Wide => (Spec => CellChangesReported)
<1> SUFFICES ASSUME Wide
             PROVE  Spec => CellChangesReported
  OBVIOUS
<1> DEFINE Told(v) ==
               Served(v) /\ viewers[v].avatar \in shown
                   /\ known[v].cell # CellOf(cfg, pos[viewers[v].avatar])
                   /\ ReachesBox(cfg, CellOf(cfg, pos[viewers[v].avatar]))
               => <<viewers[v].avatar, pos[viewers[v].avatar]>> \in viewCollisions'
           TellsAll == \A v \in waiting \ waiting' : Told(v)
<1>1. ViewInv /\ [Next]_vars => TellsAll
  <2> SUFFICES ASSUME ViewInv, [Next]_vars, NEW v \in waiting \ waiting', Served(v),
                      viewers[v].avatar \in shown, known[v].cell # Center(v),
                      ReachesBox(cfg, Center(v))
               PROVE  <<viewers[v].avatar, pos[viewers[v].avatar]>> \in viewCollisions'
    BY DEF Center
  <2>1. v \in DOMAIN viewers /\ Serve(v)
    BY OnlyServed DEF ViewInv
  <2>2. viewers[v].sub # AtCenter(cfg, Center(v))
    BY <2>1, MovedIs
  <2>3. QED
    BY <2>1, <2>2, ServeWrites DEF Reports
<1>2. ViewInv /\ [Next]_vars => [TellsAll]_vars
  BY <1>1
<1>3. Spec => []ViewInv
  BY ViewInit, ViewStep, PTL DEF Spec
<1>4. Spec => [][TellsAll]_vars
  BY <1>2, <1>3, PTL DEF Spec
<1>5. QED
  BY <1>4 DEF CellChangesReported
=============================================================================
