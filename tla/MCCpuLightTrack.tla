--------------------------- MODULE MCCpuLightTrack ---------------------------
(***************************************************************************)
(* The instance of MCCpuNanoTrack for cpulighttrack.                       *)
(***************************************************************************)
EXTENDS CpuLightTrack

CONSTANTS small, large, corner, wide

MCFitsIn == [r \in Rois |-> CASE r = corner -> {small, large}
                              [] r = wide   -> {large}
                              [] OTHER      -> {}]
=============================================================================
