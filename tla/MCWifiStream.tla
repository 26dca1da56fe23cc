---------------------------- MODULE MCWifiStream ----------------------------
(* Instances of WifiStream for TLC: the cfg files give the constants.        *)
EXTENDS WifiStream
=============================================================================
