--------------------------- MODULE MCCpuLkTracker ---------------------------
(***************************************************************************)
(* A small instance: two frame sizes, two usable ROIs, up to four corners  *)
(* of which two must survive, and a box that may move two pixels.          *)
(***************************************************************************)
EXTENDS CpuLkTracker

CONSTANTS small, large, corner, wide

MCFitsIn == [r \in Rois |-> CASE r = corner -> {small, large}
                              [] r = wide   -> {large}
                              [] OTHER      -> {}]
=============================================================================
