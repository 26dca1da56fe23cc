---------------------------- MODULE MCHciAdapter ----------------------------
(* Instances of HciAdapter for TLC: the cfg files give the constants.        *)
EXTENDS HciAdapter
=============================================================================
