----------------------------- MODULE MCWifiJoin -----------------------------
(* Instances of WifiJoin for TLC: the cfg files give the constants.          *)
EXTENDS WifiJoin
=============================================================================
