------------------------------ MODULE Registry ------------------------------
(***************************************************************************)
(* The registry of 7-day-golang/registry/registry.go and the heartbeats     *)
(* that keep servers in it.                                                 *)
(*                                                                          *)
(* Time is discrete and kept as ages and countdowns, so that it can go on   *)
(* for ever in finitely many states: an age stops at MaxAge.                *)
(***************************************************************************)
EXTENDS Integers

CONSTANTS Servers,   \* the addresses
          Timeout,   \* Registry.timeout, 0 for none
          Period,    \* the duration of the ticker of Heartbeat
          MaxDelay,  \* assumed: a POST returns, or fails, within this time
          MaxAge     \* bound: the largest age that is told from others

ASSUME RegistryAssumption ==
    /\ Timeout \in Nat /\ Period \in Nat \ {0}
    /\ MaxDelay \in Nat /\ MaxDelay < Period
    /\ MaxAge \in Nat /\ MaxAge >= Timeout

VARIABLES up,      \* is the registry running
          age,     \* time since ServerItem.start, Absent if not in the map
          beat,    \* where the Heartbeat of a server is
          wait,    \* time until its ticker fires
          spent,   \* how long its POST has been under way
          silent   \* time since the registry last put the server (history)

registryVars == <<up, age, beat, wait, spent, silent>>

Absent == -1

RegistryTypeOK ==
    /\ up \in BOOLEAN
    /\ age \in [Servers -> {Absent} \cup 0..MaxAge]
    /\ beat \in [Servers -> {"new", "register", "sleep", "post", "stopped", "dead"}]
    /\ wait \in [Servers -> 0..Period]
    /\ spent \in [Servers -> 0..MaxDelay]
    /\ silent \in [Servers -> 0..MaxAge]

RegistryInit ==
    /\ up = TRUE
    /\ age = [s \in Servers |-> Absent]
    /\ beat = [s \in Servers |-> "new"]
    /\ wait = [s \in Servers |-> 0]
    /\ spent = [s \in Servers |-> 0]
    /\ silent = [s \in Servers |-> MaxAge]

-----------------------------------------------------------------------------
(* The registry.                                                            *)

putServer(s) ==
    /\ age' = [age EXCEPT ![s] = 0]
    /\ silent' = [silent EXCEPT ![s] = 0]

\* start.Add(timeout).After(now) is strict.  Faulty, for mutation: one more, or
\* one less, unit of time.
AliveUntil(t) == {s \in Servers : age[s] # Absent /\ (Timeout = 0 \/ age[s] < t)}
AliveLonger == AliveUntil(Timeout + 1)
AliveShorter == AliveUntil(Timeout - 1)
Alive == AliveUntil(Timeout)

\* aliveServers, for a GET: it deletes the servers that it does not return.
aliveServers ==
    /\ up
    /\ age' = [s \in Servers |-> IF s \in Alive THEN age[s] ELSE Absent]
    /\ UNCHANGED <<up, beat, wait, spent, silent>>

\* Nothing is on disk: a registry that restarts knows no server.
Crash ==
    /\ up /\ up' = FALSE
    /\ age' = [s \in Servers |-> Absent]
    /\ UNCHANGED <<beat, wait, spent, silent>>

Restart == ~up /\ up' = TRUE /\ UNCHANGED <<age, beat, wait, spent, silent>>

-----------------------------------------------------------------------------
(* Heartbeat and sendHeartbeat, for server s.                               *)

Posting(s) == beat[s] \in {"register", "post"}

Heartbeat(s) ==
    /\ beat[s] = "new"
    /\ beat' = [beat EXCEPT ![s] = "register"]
    /\ spent' = [spent EXCEPT ![s] = 0]
    /\ UNCHANGED <<up, age, wait, silent>>

\* The goroutine makes its ticker when the first POST has returned.
PostReturns(s) ==
    /\ up
    /\ Posting(s)
    /\ putServer(s)
    /\ beat' = [beat EXCEPT ![s] = "sleep"]
    /\ wait' = IF beat[s] = "register" THEN [wait EXCEPT ![s] = Period] ELSE wait
    /\ spent' = [spent EXCEPT ![s] = 0]
    /\ UNCHANGED up

\* Do returns an error, before or after the registry got the POST: the loop
\* for err == nil ends.
PostFails(s) ==
    /\ Posting(s)
    /\ \/ up /\ putServer(s)
       \/ UNCHANGED <<age, silent>>
    /\ beat' = [beat EXCEPT ![s] = "stopped"]
    /\ wait' = [wait EXCEPT ![s] = 0]
    /\ spent' = [spent EXCEPT ![s] = 0]
    /\ UNCHANGED up

TickerFires(s) ==
    /\ beat[s] = "sleep" /\ wait[s] = 0
    /\ beat' = [beat EXCEPT ![s] = "post"]
    /\ wait' = [wait EXCEPT ![s] = Period]
    /\ UNCHANGED <<up, age, spent, silent>>

\* The process of the server ends, perhaps while a POST of it is under way.
ServerDies(s) ==
    /\ beat[s] # "dead"
    /\ \/ up /\ Posting(s) /\ putServer(s)
       \/ UNCHANGED <<age, silent>>
    /\ beat' = [beat EXCEPT ![s] = "dead"]
    /\ wait' = [wait EXCEPT ![s] = 0]
    /\ spent' = [spent EXCEPT ![s] = 0]
    /\ UNCHANGED up

\* One unit of time passes, unless a goroutine is due.
Older(t) == IF t < MaxAge THEN t + 1 ELSE t
RegistryWaits == \A s \in Servers : /\ Posting(s) => spent[s] < MaxDelay
                                    /\ beat[s] = "sleep" => wait[s] > 0
RegistryAges ==
    /\ age' = [s \in Servers |-> IF age[s] = Absent THEN Absent ELSE Older(age[s])]
    /\ silent' = [s \in Servers |-> Older(silent[s])]
    /\ wait' = [s \in Servers |-> IF wait[s] > 0 THEN wait[s] - 1 ELSE 0]
    /\ spent' = [s \in Servers |-> IF Posting(s) THEN spent[s] + 1 ELSE 0]
    /\ UNCHANGED <<up, beat>>

ServerStep(s) ==
    Heartbeat(s) \/ PostReturns(s) \/ PostFails(s) \/ TickerFires(s) \/ ServerDies(s)

(* The registry alone, with any client that asks for the list.              *)
RegistryNext ==
    \/ \E s \in Servers : ServerStep(s)
    \/ aliveServers \/ Crash \/ Restart
    \/ RegistryWaits /\ RegistryAges

RegistrySpec == RegistryInit /\ [][RegistryNext]_registryVars

\* Time goes on, a registry that is down comes up again, goroutines run, and a
\* POST to a registry that is up often enough does not always fail.
HeartbeatFairness ==
    /\ WF_registryVars(RegistryWaits /\ RegistryAges)
    /\ WF_registryVars(Restart)
    /\ \A s \in Servers : /\ WF_registryVars(Heartbeat(s)) /\ WF_registryVars(TickerFires(s))
                          /\ SF_registryVars(PostReturns(s))
                          /\ WF_registryVars(PostFails(s))
FairRegistrySpec == RegistrySpec /\ HeartbeatFairness

-----------------------------------------------------------------------------
(* Properties.                                                              *)

Beating(s) == beat[s] \in {"sleep", "post"}

\* The registry deletes no server whose heartbeat goroutine runs: the duration
\* leaves enough time for the next heartbeat (registry.go:102-103).
NeverDropsBeating ==
    [][\A s \in Servers : age[s] # Absent /\ age'[s] = Absent /\ up' => ~Beating(s)]_registryVars

\* A server that called Heartbeat and lives sends a heartbeat every once in a
\* while (registry.go:98): it is in the registry again and again.
LiveIsRegistered ==
    \A s \in Servers : beat[s] \notin {"new", "dead"} ~> (s \in Alive \/ beat[s] = "dead")
=============================================================================
