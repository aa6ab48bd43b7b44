------------------------------ MODULE MCGeeRpc ------------------------------
(* An instance of GeeRpc for TLC: a uses Call, d uses Go.                    *)
EXTENDS GeeRpc, TLC

CONSTANTS a, d, chA, chG

MCChanOf == a :> chA @@ d :> chG
MCCap == chA :> 1 @@ chG :> 1
=============================================================================
