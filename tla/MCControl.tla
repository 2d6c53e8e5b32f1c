----------------------------- MODULE MCControl -----------------------------
EXTENDS Control

MCPacings ==
    {[wait |-> w, overrun |-> o, ticks |-> 3] :
        w \in {"Sleep", "Hold", "None"}, o \in {"Dilate", "Drop"}}
        \cup {[wait |-> "Sleep", overrun |-> o, ticks |-> 0] :
                 o \in {"Dilate", "Drop"}}

\* Two sizes of world, and the small one with cells of another size.
Big == Build(Authored(32, 8, 8, 4, 10))
Small == Build(Authored(16, 8, 8, 4, 10))
Swept == WithCellSize(Small, 4)
ASSUME CellSizeFits(Small, 4)

Put(r, col, row) == [region |-> r, square |-> Square(col, row)]
Bytes1(records) == [store |-> "there", key |-> "there",
                    bytes |-> EncodeMap(records, MapVersion)]
Away(store, key) == [store |-> store, key |-> key,
                     bytes |-> EncodeMap(<<>>, MapVersion)]
Pair(a, b) == <<a, b>>

\* Side by side across the origin; a map with a fault of each kind; none.
Buckets ==
    {Bytes1(<<Put(1, -1, 0), Put(2, 0, -1)>>),
     Bytes1(<<Put(1, 0, 0), Put(2, 0, 0)>>),
     Bytes1(<<Put(1, 0, 0), Put(1, 1, 0)>>),
     [Bytes1(<<Put(2, 0, 0)>>) EXCEPT !.bytes.version = 0],
     [Bytes1(<<Put(2, 0, 0)>>) EXCEPT !.bytes.over = 1],
     Bytes1(<<Put(2, 1, 1)>>),
     Away("missing", "missing"), Away("unreadable", "there"),
     Away("there", "missing"), Away("there", "unreadable")}

MCDeployments ==
    {[worlds |-> Pair(Small, Small), versions |-> Pair(1, 1), bucket |-> b] :
        b \in Buckets}
        \cup {[worlds |-> w, versions |-> v,
               bucket |-> Bytes1(<<Put(1, -1, 0), Put(2, 0, -1)>>)] :
                 w \in {Pair(Big, Small), Pair(Swept, Small)},
                 v \in {Pair(1, 1), Pair(2, 1)}}

Call1(kind, count) == [kind |-> kind, count |-> count]
Batches == {Call1(1, 2), Call1(2, 3)}
Singles == {Call1(3, 1), Call1(5, 2)}
Others == {Call1(4, 0), Call1(5, 40), Call1(3, 1)}
MCCalls == Batches \cup Singles \cup Others

Edges == Permutations(Edge)

Bounded(loop, asks, talk, calls) ==
    [loop |-> loop, asks |-> asks, talk |-> talk, calls |-> calls]
Usual == [wait |-> "Sleep", overrun |-> "Dilate", ticks |-> 0]
Plain == [worlds |-> Pair(Small, Small), versions |-> Pair(1, 1),
          bucket |-> Bytes1(<<Put(1, -1, 0), Put(2, 0, -1)>>)]

\* The loop alone, an edge that asks, the link alone, and all together.
MCSetups ==
    {[pacing |-> p, deployed |-> Plain, bounds |-> Bounded(11, 0, 0, {})] :
        p \in MCPacings}
        \cup {[pacing |-> Usual, deployed |-> d,
               bounds |-> Bounded(0, 4, 0, {})] : d \in MCDeployments}
        \cup {[pacing |-> Usual, deployed |-> Plain, bounds |-> b] :
                 b \in {Bounded(0, 0, 4, Batches), Bounded(0, 0, 4, Singles),
                        Bounded(0, 0, 4, Others), Bounded(4, 1, 2, {Call1(3, 1)})}}
=============================================================================
