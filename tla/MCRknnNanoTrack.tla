-------------------------- MODULE MCRknnNanoTrack --------------------------
(***************************************************************************)
(* A small instance: as for cpunanotrack, with one accepted precision      *)
(* besides the default, one unknown to model_path, and both resize modes   *)
(* besides an unknown one.                                                 *)
(***************************************************************************)
EXTENDS RknnTracker

CONSTANTS small, large, corner, wide

MCFitsIn == [r \in Rois |-> CASE r = corner -> {small, large}
                              [] r = wide   -> {large}
                              [] OTHER      -> {}]
=============================================================================
