--------------------------- MODULE MCReplication ---------------------------
EXTENDS Replication

\* Entity 0 begins beside the viewer; 2 begins out of view.
MCStart == (0 :> 1) @@ (1 :> 2) @@ (2 :> 9)
=============================================================================
