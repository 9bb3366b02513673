--------------------------- MODULE MCConfigReload ---------------------------
(***************************************************************************)
(* Instances of ConfigReload for TLC: the default in two spellings, a      *)
(* level with a capital and without, an unknown level and no level, and    *)
(* two modification times, so that a write can go forward, back or nowhere *)
(* in time.                                                                *)
(***************************************************************************)
EXTENDS ConfigReload

Spellings == {NoText, "info", "INFO", "error", "Error", "verbose"}
LowerCase == [t \in Spellings |->
                CASE t = "INFO" -> "info" [] t = "Error" -> "error" [] OTHER -> t]
TwoTimes == {1, 2}
=============================================================================
