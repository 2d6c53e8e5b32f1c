---------------------------- MODULE MCEdgeClient ----------------------------
EXTENDS EdgeClient

\* Two regions side by side; an entity of the second stands by the seam, and
\* its shadow in the first is clamped onto its side.
MCSquareOf == (1 :> Square(1, 0)) @@ (2 :> Square(0, 0))
MCLocalAt == (1 :> At(0, 5, 2)) @@ (2 :> At(15, 5, 2))
MCBody == [i \in 1 .. 60 |-> <<"game", i>>]

Threads == Permutations(Thread)
=============================================================================
