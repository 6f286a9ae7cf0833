--------------------------- MODULE MCCpuNanoTrack ---------------------------
(***************************************************************************)
(* A small instance: two frame sizes, a ROI that fits both and one that    *)
(* fits only the larger.                                                   *)
(***************************************************************************)
EXTENDS CpuNanoTrack

CONSTANTS small, large, corner, wide

MCFitsIn == [r \in Rois |-> CASE r = corner -> {small, large}
                              [] r = wide   -> {large}
                              [] OTHER      -> {}]
=============================================================================
