----------------------------- MODULE MCRegistry -----------------------------
(* An instance of Registry for TLC: one server, s.                           *)
EXTENDS Registry

CONSTANT s
=============================================================================
