-------------------------- MODULE MCRegionSession --------------------------
(***************************************************************************)
(* The session on a small instance.  Names of edges are interchangeable,   *)
(* but the run checks liveness, for which a reduction by symmetry is not   *)
(* sound.                                                                  *)
(***************************************************************************)
EXTENDS RegionSession
=============================================================================
