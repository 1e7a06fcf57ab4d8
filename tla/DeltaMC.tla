------------------------------- MODULE DeltaMC -------------------------------
(* Delta with one channel that has a threshold and one that has none.      *)
EXTENDS Delta, TLC

CONSTANTS fuel, gear
MCThreshold == fuel :> 1 @@ gear :> 0
=============================================================================
