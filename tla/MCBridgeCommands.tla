-------------------------- MODULE MCBridgeCommands --------------------------
(***************************************************************************)
(* Three of the six thresholds: the first, one in the middle and the last  *)
(* that apply_command sets.                                                *)
(***************************************************************************)
EXTENDS BridgeCommands

MCFields == <<"low_h", "low_v", "high_v">>
=============================================================================
