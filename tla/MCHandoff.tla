----------------------------- MODULE MCHandoff -----------------------------
(***************************************************************************)
(* The hand-off to the I/O thread on a small instance: two viewers, whose  *)
(* numbers the scan orders, so neither stands for the other.               *)
(***************************************************************************)
EXTENDS Handoff, TLC
=============================================================================
