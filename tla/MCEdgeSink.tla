----------------------------- MODULE MCEdgeSink -----------------------------
(***************************************************************************)
(* The sink on small instances.  Names of edges, entities and senders are  *)
(* interchangeable.                                                        *)
(***************************************************************************)
EXTENDS EdgeSink, TLC

Symmetry == Permutations(EdgeName) \cup Permutations(Entity) \cup Permutations(Sender)
=============================================================================
