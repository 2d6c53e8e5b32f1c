------------------------------ MODULE MCWorld ------------------------------
EXTENDS World

\* Near the south side, and past the corner at the north and the east.
MCTargets == {At(7, 2, 1), At(15, 19, 0)}
MCStrides == {At(31, 31, 0)}
MCHomes == {At(6, 7, 0), At(7, 7, 0)}
=============================================================================
