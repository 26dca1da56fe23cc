------------------------------ MODULE MCRemote ------------------------------
(* Instances of Remote for TLC: the cfg files give the constants.            *)
EXTENDS Remote
=============================================================================
