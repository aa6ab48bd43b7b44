----------------------------- MODULE RpcPromise -----------------------------
(***************************************************************************)
(* What geerpc promises its users, whatever happens to the connection: a    *)
(* call ends at most once, with success or with an error; a method runs at  *)
(* most once for it, perhaps after the caller was told of an error; and a   *)
(* success is reported only after the method has run.                       *)
(***************************************************************************)
EXTENDS Naturals

CONSTANT Calls
VARIABLES outcome,  \* what the user knows of each call
          runs      \* how often its method ran

Init ==
    /\ outcome = [c \in Calls |-> "idle"]
    /\ runs = [c \in Calls |-> 0]

Issue(c) ==
    /\ outcome[c] = "idle"
    /\ outcome' = [outcome EXCEPT ![c] = "waiting"]
    /\ UNCHANGED runs

Run(c) ==
    /\ outcome[c] # "idle"
    /\ runs[c] = 0
    /\ runs' = [runs EXCEPT ![c] = 1]
    /\ UNCHANGED outcome

Succeed(c) ==
    /\ outcome[c] = "waiting"
    /\ runs[c] = 1
    /\ outcome' = [outcome EXCEPT ![c] = "success"]
    /\ UNCHANGED runs

Fail(c) ==
    /\ outcome[c] = "waiting"
    /\ outcome' = [outcome EXCEPT ![c] = "error"]
    /\ UNCHANGED runs

Next == \E c \in Calls : Issue(c) \/ Run(c) \/ Succeed(c) \/ Fail(c)

Spec == Init /\ [][Next]_<<outcome, runs>>
=============================================================================
