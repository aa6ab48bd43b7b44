------------------------------- MODULE Demo -------------------------------
(***************************************************************************)
(* main/main.go: the registry, the servers and the client of the example    *)
(* are goroutines of one process, kept in order by a WaitGroup; the sleeps  *)
(* of main, which order nothing, are left out.                              *)
(*                                                                          *)
(* call and broadcast have an XClient each, with the default Option: JSON,  *)
(* one connection per server.  Of a connection this module has what          *)
(* RpcServer and RpcClient show: requests that come with the Option may be  *)
(* read ahead and lost, what is left of one ends the connection, and so     *)
(* does a reply to a call that nobody waits for.  Dialling a port of this   *)
(* machine does not take the ten seconds of ConnectTimeout.                 *)
(***************************************************************************)
EXTENDS Integers, Sequences, FiniteSets

CONSTANTS Backends,   \* the goroutines of startServer
          Goroutines  \* those that call and broadcast start

ASSUME DemoAssumption == Goroutines # {} /\ Backends # {} /\ IsFiniteSet(Backends)

VARIABLES main,      \* what main does next
          wg,        \* the counter of its WaitGroup
          registry,  \* the step that startRegistry takes next, 0 before it starts
          server,    \* the step that each startServer takes next, 0 before it starts
          known,     \* Registry.servers
          job,       \* what each goroutine of call and broadcast has to do
          asked,     \* those that have asked for it
          awaits,    \* the servers that have not answered them yet
          conn,      \* the XClient's connection to each server; "new": Option not read
          inFlight,  \* the requests on it that are not answered: <<goroutine, job>>
          readAhead, \* call: an Option decoder has read a request as well (history)
          failed     \* the goroutines of call whose Foo.Sum failed (history)

startupVars == <<main, wg, registry, server, known>>
connVars == <<conn, inFlight>>
callVars == <<readAhead, failed>>
jobVars == <<job, asked, awaits, connVars, callVars>>
demoVars == <<startupVars, jobVars>>

\* Faulty, for mutation: startRegistry does not call Done.
RegistrySilent == <<"listen", "handle", "serve">>
StartRegistry == <<"listen", "handle", "done", "serve">>

\* Faulty, for mutation: the heartbeat comes after Done.
ServerLate == <<"listen", "register", "done", "heartbeat", "accept">>
StartServer == <<"listen", "register", "heartbeat", "done", "accept">>

Jobs == {"none", "call", "sum", "sleep"}

DemoTypeOK ==
    /\ main \in {"starts", "waits_for_registry", "waits_for_servers", "waits_for_calls",
                 "waits_for_broadcasts", "ended"}
    /\ wg \in 0..Cardinality(Backends) + 1
    /\ registry \in 0..Len(StartRegistry) + 1
    /\ server \in [Backends -> 0..Len(StartServer) + 1]
    /\ known \subseteq Backends /\ asked \subseteq Goroutines
    /\ job \in [Goroutines -> Jobs] /\ awaits \in [Goroutines -> SUBSET Backends]
    /\ conn \in [Backends -> {"none", "new", "up", "broken"}]
    /\ inFlight \in [Backends -> SUBSET (Goroutines \X Jobs)]
    /\ readAhead \in BOOLEAN /\ failed \subseteq Goroutines

DemoInit ==
    /\ main = "starts" /\ wg = 0 /\ registry = 0 /\ server = [s \in Backends |-> 0]
    /\ known = {} /\ asked = {} /\ failed = {}
    /\ job = [g \in Goroutines |-> "none"] /\ awaits = [g \in Goroutines |-> {}]
    /\ conn = [s \in Backends |-> "none"] /\ inFlight = [s \in Backends |-> {}]
    /\ readAhead = FALSE

-----------------------------------------------------------------------------
RegistryDid(step) == \E n \in 1..registry - 1 : StartRegistry[n] = step
ServerDid(s, step) == \E n \in 1..server[s] - 1 : StartServer[n] = step
ServerAt(s, step) == server[s] \in 1..Len(StartServer) /\ StartServer[server[s]] = step

MainStarts ==
    /\ main = "starts"
    /\ wg' = 1 /\ registry' = 1 /\ main' = "waits_for_registry"
    /\ UNCHANGED <<server, known, jobVars>>

MainStartsServers ==
    /\ main = "waits_for_registry" /\ wg = 0
    /\ wg' = Cardinality(Backends) /\ server' = [s \in Backends |-> 1]
    /\ main' = "waits_for_servers"
    /\ UNCHANGED <<registry, known, jobVars>>

\* call, then broadcast: one WaitGroup each, which the goroutines' defers count down.
MainCalls ==
    /\ main = "waits_for_servers" /\ wg = 0
    /\ main' = "waits_for_calls" /\ job' = [g \in Goroutines |-> "call"]
    /\ UNCHANGED <<wg, registry, server, known, asked, awaits, connVars, callVars>>

Idle == \A g \in Goroutines : job[g] = "none"

\* call closes its XClient, broadcast makes another.
MainBroadcasts ==
    /\ main = "waits_for_calls" /\ Idle
    /\ main' = "waits_for_broadcasts" /\ job' = [g \in Goroutines |-> "sum"]
    /\ conn' = [s \in Backends |-> "none"] /\ inFlight' = [s \in Backends |-> {}]
    /\ readAhead' = FALSE /\ failed' = {}
    /\ UNCHANGED <<wg, registry, server, known, asked, awaits>>

MainReturns ==
    /\ main = "waits_for_broadcasts" /\ Idle
    /\ main' = "ended"
    /\ UNCHANGED <<wg, registry, server, known, jobVars>>

RegistryStep ==
    /\ main # "ended" /\ registry \in 1..Len(StartRegistry)
    /\ registry' = registry + 1
    /\ wg' = IF StartRegistry[registry] = "done" THEN wg - 1 ELSE wg
    /\ UNCHANGED <<main, server, known, jobVars>>

ServerStep(s) ==
    /\ main # "ended" /\ server[s] \in 1..Len(StartServer) /\ ~ServerAt(s, "heartbeat")
    /\ server' = [server EXCEPT ![s] = @ + 1]
    /\ wg' = IF ServerAt(s, "done") THEN wg - 1 ELSE wg
    /\ UNCHANGED <<main, registry, known, jobVars>>

\* The POST of Heartbeat, whose error startServer does not see: it is refused if
\* nobody listens, waits for Serve, and is lost if the path has no handler.
Heartbeat(s) ==
    /\ main # "ended" /\ ServerAt(s, "heartbeat")
    /\ RegistryDid("listen") => RegistryDid("serve")
    /\ known' = IF RegistryDid("serve") /\ RegistryDid("handle") THEN known \cup {s} ELSE known
    /\ server' = [server EXCEPT ![s] = @ + 1]
    /\ UNCHANGED <<main, wg, registry, jobVars>>

-----------------------------------------------------------------------------
\* The servers that a job goes to: Call takes one of those that the registry
\* knows, Broadcast all of them.
Targets(g) == IF job[g] = "call" THEN {{s} : s \in known} ELSE {known}

\* The connections that are missing are dialled, and the requests are written.
\* Without a server Call fails, and Broadcast has nothing to do.
Ask(g) ==
    /\ job[g] # "none" /\ g \notin asked
    /\ asked' = asked \cup {g}
    /\ \/ \E servers \in Targets(g) :
             /\ awaits' = [awaits EXCEPT ![g] = servers]
             /\ conn' = [s \in Backends |-> IF s \in servers /\ conn[s] = "none"
                                            THEN "new" ELSE conn[s]]
             /\ inFlight' = [s \in Backends |-> IF s \in servers
                                            THEN inFlight[s] \cup {<<g, job[g]>>} ELSE inFlight[s]]
             /\ UNCHANGED failed
       \/ /\ Targets(g) = {}
          /\ failed' = IF job[g] = "call" THEN failed \cup {g} ELSE failed
          /\ UNCHANGED <<awaits, conn, inFlight>>
    /\ UNCHANGED <<startupVars, job, readAhead>>

\* Accept serves the connection.  The decoder that reads the Option may read
\* requests with it, which are lost; if it stops within one, what is left of
\* that makes the client or the server give up the connection.
ReadOption(s, lost) ==
    /\ main # "ended" /\ conn[s] = "new" /\ ServerDid(s, "accept")
    /\ inFlight' = [inFlight EXCEPT ![s] = @ \ lost]
    /\ \/ conn' = [conn EXCEPT ![s] = "up"]
       \/ lost # {} /\ conn' = [conn EXCEPT ![s] = "broken"]
    /\ readAhead' = (readAhead \/ (main = "waits_for_calls" /\ lost # {}))
    /\ UNCHANGED <<startupVars, job, asked, awaits, failed>>

Answered(g, s) ==
    /\ conn[s] = "up" /\ s \in awaits[g] /\ <<g, job[g]>> \in inFlight[s]
    /\ awaits' = [awaits EXCEPT ![g] = @ \ {s}]
    /\ inFlight' = [inFlight EXCEPT ![s] = @ \ {<<g, job[g]>>}]
    /\ UNCHANGED <<startupVars, job, asked, conn, callVars>>

\* Only Foo.Sleep has a context with a timeout.
SleepTimesOut(g) ==
    /\ job[g] = "sleep" /\ awaits[g] # {}
    /\ awaits' = [awaits EXCEPT ![g] = {}]
    /\ UNCHANGED <<startupVars, job, asked, connVars, callVars>>

\* Over JSON the reply to a call that timed out or was cancelled ends the receive
\* loop of the client.
LateReplyBreaks(s) ==
    /\ main # "ended" /\ conn[s] = "up"
    /\ \E r \in inFlight[s] : job[r[1]] # r[2] \/ s \notin awaits[r[1]]
    /\ conn' = [conn EXCEPT ![s] = "broken"]
    /\ UNCHANGED <<startupVars, job, asked, awaits, inFlight, callVars>>

\* The calls that wait on the connection fail; Broadcast cancels its others.
ConnectionEnds(s) ==
    /\ main # "ended" /\ conn[s] = "broken"
    /\ conn' = [conn EXCEPT ![s] = "none"] /\ inFlight' = [inFlight EXCEPT ![s] = {}]
    /\ awaits' = [g \in Goroutines |-> IF s \in awaits[g] THEN {} ELSE awaits[g]]
    /\ failed' = failed \cup {g \in Goroutines : s \in awaits[g] /\ job[g] = "call"}
    /\ UNCHANGED <<startupVars, job, asked, readAhead>>

Finish(g) ==
    /\ g \in asked /\ awaits[g] = {}
    /\ asked' = asked \ {g}
    /\ job' = [job EXCEPT ![g] = IF @ = "sum" THEN "sleep" ELSE "none"]
    /\ UNCHANGED <<startupVars, awaits, connVars, callVars>>

Main == MainStarts \/ MainStartsServers \/ MainCalls \/ MainBroadcasts \/ MainReturns
ServerGoroutine(s) == ServerStep(s) \/ Heartbeat(s)
Serve(s) == ConnectionEnds(s) \/ \E lost \in SUBSET inFlight[s] : ReadOption(s, lost)
Caller(g) == Ask(g) \/ Finish(g) \/ SleepTimesOut(g) \/ \E s \in Backends : Answered(g, s)

DemoNext ==
    \/ Main \/ RegistryStep
    \/ \E s \in Backends : ServerGoroutine(s) \/ Serve(s) \/ LateReplyBreaks(s)
    \/ \E g \in Goroutines : Caller(g)
DemoSpec == DemoInit /\ [][DemoNext]_demoVars

-----------------------------------------------------------------------------
\* The WaitGroup of main alone, without the sleeps, makes sure that call and
\* broadcast find all the servers in the registry, and Foo in each; a Foo.Sum of
\* call, which has a connection to one server, then fails only if requests were
\* read ahead with the Option (main.go:100-113, server.go:107).
CallsReachServers ==
    /\ \A g \in Goroutines : job[g] # "none" =>
          \A s \in Backends : s \in known /\ ServerDid(s, "register")
    /\ failed # {} => readAhead

\* The request that g waits for was read ahead: nobody will answer it.
Unanswerable(g) ==
    job[g] # "sleep" /\ \E s \in awaits[g] : <<g, job[g]>> \notin inFlight[s]

\* The example does not stop on its way (main.go:97-114), whatever times out or
\* breaks in it, unless a goroutine waits for ever for the answer to such a request.
OnItsWay == main \notin {"starts", "ended"}
MainEnds == []<>~OnItsWay \/ \E g \in Goroutines : <>[]Unanswerable(g)
=============================================================================
