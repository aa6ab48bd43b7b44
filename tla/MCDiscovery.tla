---------------------------- MODULE MCDiscovery ----------------------------
(* Instances of Discovery for TLC: s and t are servers, g and h goroutines.  *)
EXTENDS Discovery

CONSTANTS s, t, g, h

MCOrder == s :> 1 @@ t :> 2
=============================================================================
