--------------------------- MODULE MCConnMonitor ----------------------------
(***************************************************************************)
(* An instance of ConnMonitor for TLC.                                     *)
(***************************************************************************)
EXTENDS ConnMonitor
=============================================================================
