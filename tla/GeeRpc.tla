------------------------------- MODULE GeeRpc -------------------------------
(***************************************************************************)
(* A geerpc client (RpcClient) and server (RpcServer) on one connection.    *)
(***************************************************************************)
EXTENDS RpcClient

CONSTANTS HandleTimeouts, Unknown, BadArgs, BadReply

ASSUME RpcAssumption ==
    /\ HandleTimeouts \subseteq BOOLEAN /\ HandleTimeouts # {}
    /\ Unknown \subseteq Calls /\ BadArgs \subseteq Calls /\ BadReply \subseteq Calls
    /\ IsFiniteSet(Calls) /\ MaxUnread > Cardinality(Calls) + 1

VARIABLES loop, timed, ahead, current, handler, worker, request, args, lock, executed, answers

\* The calls whose Write has been tried.
Written == {c \in Calls : callSeq[c] # 0 /\ pc[c] # "write"}

S == INSTANCE RpcServer WITH sent <- Written

serverVars == <<loop, timed, ahead, current, handler, worker, request, args, lock,
                executed, answers>>
rpcVars == <<vars, serverVars>>

RpcInit == ConnInit /\ ClientInit /\ S!ServerInit
RpcNext ==
    \/ UNCHANGED serverVars /\ ClientStep
    \/ UNCHANGED clientVars /\ S!ServerStep
RpcSpec == RpcInit /\ [][RpcNext]_rpcVars

-----------------------------------------------------------------------------
(* Properties.                                                              *)

\* The composition gives the client the peer, and the server the client, that
\* their specifications assume: what is shown of each holds here.
ClientSpec == Spec
ServerSpec == S!Spec

\* What the user was told of call c, and how often its method ran, keeps the
\* promise of RpcPromise.
Outcome(c) == CASE got[c] = "nil" -> "success"
                [] got[c] \notin {"nil", "none"} -> "error"
                [] OTHER -> IF pc[c] = "idle" THEN "idle" ELSE "waiting"

P == INSTANCE RpcPromise WITH outcome <- [c \in Calls |-> Outcome(c)], runs <- executed
Promise == P!Spec

\* A call that returned success ran exactly once and its Reply holds the
\* answer to that very run.
SuccessMeansExecuted ==
    \A c \in Calls : got[c] = "nil" => executed[c] = 1 /\ callReply[c] = c /\ answers[c] = 1
=============================================================================
