--------------------------- MODULE MCGhostTable ---------------------------
(***************************************************************************)
(* A small ghost table for TLC.                                            *)
(***************************************************************************)
EXTENDS GhostTable

(* In a table of eight slots two entities live at either end, and one      *)
(* beside the last, so that chains form, meet and wrap.                    *)
Products == {0, 1, 12, 14, 15}
=============================================================================
