---------------------------- MODULE CellSnapshot ----------------------------
(***************************************************************************)
(* Entities in cell order, `CellSnapshot` of snapshot.rs, and the walk     *)
(* that finds what a viewer may see, gather.rs.                            *)
(*                                                                         *)
(* A snapshot is rebuilt whole by every tick, so it is a function of the   *)
(* arrays it is built from.  A row stands for one index of the parallel    *)
(* columns; offsets count from zero as the code's do.                      *)
(***************************************************************************)
EXTENDS Geometry, FiniteSetsExt, SequencesExt

CONSTANTS
    RegionSize, VerticalExtent, ViewRadius, MaxSpeed, TickHz,
    SubAxis,        \* sub_axis: sub-cells along one axis of a dense cell
    SubThreshold    \* sub_threshold: the population that makes a cell dense

authored == Authored(RegionSize, VerticalExtent, ViewRadius, MaxSpeed, TickHz)
cfg == Build(authored)

(* with_subdivision asserts as much (MAX_SUB_AXIS is 32).                  *)
ASSUME SnapshotAssumption ==
    /\ BuildError(authored) = "Ok"
    /\ IsPowerOfTwo(SubAxis) /\ SubAxis <= 32
    /\ Log2(SubAxis) <= cfg.grid.cell_shift
    /\ SubThreshold \in Nat \ {0}

Cells == 0 .. (cfg.grid.cells_per_region - 1)
SubCells == 0 .. (SubAxis * SubAxis - 1)
SubWidth == cfg.grid.cell_size \div SubAxis

(* LiveIter: what a set holds, in ascending order.                         *)
Ascending(S) ==
    [i \in 1 .. Cardinality(S) |->
        CHOOSE x \in S : Cardinality({y \in S : y < x}) = i - 1]

(***************************************************************************)
(* The counting sort that orders a region by cell and a dense cell by      *)
(* sub-cell: the tallies' running totals say where each run starts, and    *)
(* the scatter keeps the order of equals.  The visit orders are sorted     *)
(* with it too: `sort_by_key` is stable.                                   *)
(***************************************************************************)
Starts(keys, runs, first) ==
    [r \in 0 .. Cardinality(runs) |->
        first + Cardinality({i \in DOMAIN keys : keys[i] < r})]

StableSort(items, keys) ==
    LET slot == [i \in DOMAIN items |->
                    Cardinality({j \in DOMAIN items :
                                    \/ keys[j] < keys[i]
                                    \/ keys[j] = keys[i] /\ j <= i})]
    IN  [d \in DOMAIN items |->
            items[CHOOSE i \in DOMAIN items : slot[i] = d]]

(* EntityKey::of_region names what no edge named.                          *)
NameOf(names, region, id) ==
    IF names[id] = None THEN <<region, id>> ELSE names[id]

SubCellOfRow(row) ==
    (OffsetInCell(cfg, row.pos.y) \div SubWidth) * SubAxis
        + OffsetInCell(cfg, row.pos.x) \div SubWidth

CellKeys(rows) == [i \in DOMAIN rows |-> CellId(cfg, CellOf(cfg, rows[i].pos))]
SubCellKeys(rows) == [i \in DOMAIN rows |-> SubCellOfRow(rows[i])]

(* update, and the rebuild of the subdivisions that ends it.               *)
Snapshot(pos, tags, names, region, shown) ==
    LET ids == Ascending(shown)
        listed == [i \in DOMAIN ids |->
                      [id |-> ids[i], pos |-> pos[ids[i]],
                       tag |-> tags[ids[i]],
                       name |-> NameOf(names, region, ids[i])]]
        starts == Starts(CellKeys(listed), Cells, 0)
        rows == StableSort(listed, CellKeys(listed))
        run(c) == SubSeq(rows, starts[c] + 1, starts[c + 1])
        dense == {c \in Cells : SubAxis > 1
                      /\ starts[c + 1] - starts[c] >= SubThreshold}
        Divide(c, all) ==
            SubSeq(all, 1, starts[c])
                \o StableSort(run(c), SubCellKeys(run(c)))
                \o SubSeq(all, starts[c + 1] + 1, Len(all))
    IN  [starts |-> starts, rows |-> FoldSet(Divide, rows, dense),
         divided |-> [c \in dense |->
                         Starts(SubCellKeys(run(c)), SubCells, starts[c])]]

EmptySnapshot ==
    [starts |-> [c \in 0 .. Cardinality(Cells) |-> 0],
     rows |-> <<>>, divided |-> [c \in {} |-> <<>>]]

(* entities_for_cell and occupants_at: a run of rows, from .. to - 1.      *)
CellRun(snap, c) == [from |-> snap.starts[c], to |-> snap.starts[c + 1]]
SubRun(snap, c, b) == [from |-> snap.divided[c][b],
                       to |-> snap.divided[c][b + 1]]

(***************************************************************************)
(* Visit orders, nearest first: a row-major list sorted by the square of   *)
(* the distance between grid indices.                                      *)
(***************************************************************************)
NearestFirst(side, low, origin) ==
    LET rowMajor == [i \in 1 .. (side * side) |->
                        [x |-> low + ((i - 1) % side),
                         y |-> low + ((i - 1) \div side)]]
        far(p) == (p.x - origin.x) * (p.x - origin.x)
                      + (p.y - origin.y) * (p.y - origin.y)
    IN  StableSort(rowMajor, [i \in DOMAIN rowMajor |-> far(rowMajor[i])])

(* build_cell_order: offsets from the viewer's own cell.                   *)
CellOrder == NearestFirst(cfg.grid.sub_grid_axis, -cfg.grid.cell_radius,
                          [x |-> 0, y |-> 0])

(* build_sub_order: linear sub-cells, for every origin.                    *)
SubOrder ==
    [o \in [x : 0 .. (SubAxis - 1), y : 0 .. (SubAxis - 1)] |->
        LET order == NearestFirst(SubAxis, 0, o)
        IN  [i \in DOMAIN order |-> order[i].y * SubAxis + order[i].x]]

(* sub_origin: the viewer's sub-cell, held to the cell's own grid.         *)
SubOrigin(c, viewer) ==
    LET along(v, k) == Held((v - k * cfg.grid.cell_size) \div SubWidth,
                            0, SubAxis - 1)
    IN  [x |-> along(viewer.x, c.x), y |-> along(viewer.y, c.y)]

(***************************************************************************)
(* The walk: runs in visit order, each filtered by the horizontal radius.  *)
(* The cap is looked at after a run, never inside one.                     *)
(***************************************************************************)
RunsInOrder(snap, viewer, sub) ==
    LET center == CellOf(cfg, viewer)
        cell(d) == [x |-> center.x + d.x, y |-> center.y + d.y]
        visited == SelectSeq(CellOrder, LAMBDA d : InBox(sub, cell(d)))
        runsOf(c) ==
            LET id == CellId(cfg, c)
                order == SubOrder[SubOrigin(c, viewer)]
            IN  IF id \in DOMAIN snap.divided
                THEN [i \in DOMAIN order |-> SubRun(snap, id, order[i])]
                ELSE <<CellRun(snap, id)>>
    IN  FlattenSeq([i \in DOMAIN visited |-> runsOf(cell(visited[i]))])

TakeStrictly(snap, viewer, run) ==
    LET found == SelectSeq([k \in 1 .. (run.to - run.from) |->
                               run.from + k - 1],
                           LAMBDA i : HorizontalDistSq(viewer, snap.rows[i + 1].pos)
                                          < ViewRadius * ViewRadius)
    IN  [k \in DOMAIN found |->
            [id |-> snap.rows[found[k] + 1].id, index |-> found[k],
             dist |-> DistSq(viewer, snap.rows[found[k] + 1].pos)]]

(* take: the horizontal distance decides, the whole distance is recorded.  *)
Take(snap, viewer, run) ==
    LET inView(i) == HorizontalDistSq(viewer, snap.rows[i + 1].pos)
                         <= ViewRadius * ViewRadius
        found == SelectSeq([k \in 1 .. (run.to - run.from) |->
                               run.from + k - 1], inView)
    IN  [k \in DOMAIN found |->
            [id |-> snap.rows[found[k] + 1].id, index |-> found[k],
             dist |-> DistSq(viewer, snap.rows[found[k] + 1].pos)]]

(* gather_into_capped: what was found, and the largest run walked.         *)
Gather(snap, viewer, sub, cap) ==
    LET Walk(acc, run) ==
            LET found == acc.found \o Take(snap, viewer, run)
            IN  IF acc.done THEN acc
                ELSE [found |-> found, done |-> Len(found) >= cap,
                      biggest |-> Larger(acc.biggest, run.to - run.from)]
    IN  FoldLeft(Walk, [found |-> <<>>, done |-> FALSE, biggest |-> 0],
                 RunsInOrder(snap, viewer, sub))
=============================================================================
