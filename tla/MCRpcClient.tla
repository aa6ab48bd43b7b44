---------------------------- MODULE MCRpcClient ----------------------------
(* Instances of RpcClient for TLC: a uses Call, d and e use Go and share     *)
(* one Done channel.                                                        *)
EXTENDS RpcClient, TLC

CONSTANTS a, d, e, chA, chG

ThreeChanOf == a :> chA @@ d :> chG @@ e :> chG
ThreeCap == chA :> 1 @@ chG :> 1

TwoChanOf == a :> chA @@ d :> chG
TwoCap == chA :> 1 @@ chG :> 1
=============================================================================
