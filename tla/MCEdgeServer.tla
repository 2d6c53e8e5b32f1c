--------------------------- MODULE MCEdgeServer ---------------------------
(***************************************************************************)
(* Small edges for TLC.  Each configuration opens one set of commands and  *)
(* events, so that a run is about the interleavings of those.  The regions *)
(* are alike.                                                              *)
(***************************************************************************)
EXTENDS EdgeServer

Symmetry == Permutations(Region)
=============================================================================
