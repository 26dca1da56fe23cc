---------------------------- MODULE MCDirectRun ----------------------------
(* Instances of DirectRun for TLC: the cfg files give the constants.         *)
EXTENDS DirectRun
=============================================================================
