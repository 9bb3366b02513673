--------------------------- MODULE MCNumsTeardown ---------------------------
(***************************************************************************)
(* Instances of NumsTeardown for TLC.                                      *)
(***************************************************************************)
EXTENDS NumsTeardown

TextArm == {Text}
RegOnly == {SN_REGINFO}
=============================================================================
