---------------------------- MODULE MCRpcServer ----------------------------
(* Instances of RpcServer for TLC: a and b are calls.                        *)
EXTENDS RpcServer

CONSTANTS a, b
=============================================================================
