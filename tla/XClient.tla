------------------------------ MODULE XClient ------------------------------
(***************************************************************************)
(* XClient of 7-day-golang/xclient/discovery_registry.go: the cache of      *)
(* clients that Call and Broadcast share, with the dialling of client.go    *)
(* that fills it.                                                           *)
(*                                                                          *)
(* xc.call is run by processes: goroutines that call Call again and again,  *)
(* and the goroutine that Broadcast starts for a server, named by it.  A    *)
(* client is what RpcClient shows of it: it is up until its receive loop    *)
(* ends, and a call that was sent returns an answer, an error once the      *)
(* client is not up, or the error of its context.                           *)
(***************************************************************************)
EXTENDS Naturals

CONSTANTS Servers,     \* the addresses that the discovery returns
          Callers,     \* goroutines that call XClient.Call
          MaxClients,  \* bound: the connections that are known at one time
          None         \* nil

ASSUME XClientAssumption ==
    /\ Servers \cap Callers = {} /\ None \notin Servers \cup Callers
    /\ MaxClients \in Nat \ {0}

Procs == Callers \cup Servers
Clients == 1..MaxClients
Nobody == 0

VARIABLES clients,    \* XClient.clients
          mu,         \* the holder of XClient.mu, held across XDial
          status,     \* of a client: "down" before NewClient and after shutdown or Close
          open,       \* the connections that are open
          addr,       \* the server a connection goes to
          pc,         \* where a process is in xc.call
          at,         \* the server it calls
          using,      \* the client it has, or dials
          result,     \* what the calls of Broadcast returned
          broadcast,  \* where Broadcast is
          e,          \* Broadcast's error, "ok" for nil
          reply,      \* the server whose reply was copied
          cancelled,  \* cancel has been called
          expired     \* the context of Broadcast's caller is done

cacheVars == <<clients, mu>>
dialVars == <<status, open, addr>>
procVars == <<pc, at, using, result>>
broadcastVars == <<broadcast, e, reply, cancelled, expired>>
vars == <<cacheVars, dialVars, procVars, broadcastVars>>

Results == {"ok", "failed", "context"}

TypeOK ==
    /\ clients \in [Servers -> Clients \cup {Nobody}]
    /\ status \in [Clients -> {"down", "making", "made", "failed", "up"}]
    /\ open \subseteq Clients
    /\ addr \in [Clients -> Servers \cup {None}]
    /\ pc \in [Procs -> {"idle", "dial", "connect", "dialing", "use", "sent", "report", "ended"}]
    /\ at \in [Procs -> Servers \cup {None}]
    /\ using \in [Procs -> Clients \cup {Nobody}]
    /\ result \in [Servers -> Results \cup {"none"}]
    /\ broadcast \in {"idle", "running", "returned"}
    /\ e \in Results /\ reply \in Servers \cup {None}
    /\ cancelled \in BOOLEAN /\ expired \in BOOLEAN
    /\ mu \in Procs \cup {None} /\ \A p \in Procs : mu = p <=> pc[p] \in {"connect", "dialing"}

Init ==
    /\ clients = [s \in Servers |-> Nobody] /\ mu = None
    /\ status = [k \in Clients |-> "down"] /\ open = {}
    /\ addr = [k \in Clients |-> None]
    /\ pc = [p \in Procs |-> "idle"] /\ at = [p \in Procs |-> None]
    /\ using = [p \in Procs |-> Nobody] /\ result = [s \in Servers |-> "none"]
    /\ broadcast = "idle" /\ e = "ok" /\ reply = None
    /\ cancelled = FALSE /\ expired = FALSE

-----------------------------------------------------------------------------
(* dial, by process p, and XDial.                                           *)

\* xc.call returns: to the user of Call, who may call again, or to the
\* goroutine of Broadcast.
Return(p, r) ==
    /\ using' = [using EXCEPT ![p] = Nobody]
    /\ at' = [at EXCEPT ![p] = None]
    /\ IF p \in Callers
       THEN pc' = [pc EXCEPT ![p] = "idle"] /\ UNCHANGED result
       ELSE pc' = [pc EXCEPT ![p] = "report"] /\ result' = [result EXCEPT ![p] = r]

\* Call: the discovery names a server.
Call(p, s) ==
    /\ p \in Callers /\ pc[p] = "idle"
    /\ pc' = [pc EXCEPT ![p] = "dial"]
    /\ at' = [at EXCEPT ![p] = s]
    /\ UNCHANGED <<cacheVars, dialVars, using, result, broadcastVars>>

IsAvailable(k) == k # Nobody /\ status[k] = "up"

DialCached(p) ==
    /\ pc[p] = "dial" /\ mu = None
    /\ IsAvailable(clients[at[p]])
    /\ using' = [using EXCEPT ![p] = clients[at[p]]]
    /\ pc' = [pc EXCEPT ![p] = "use"]
    /\ UNCHANGED <<cacheVars, dialVars, at, result, broadcastVars>>

\* addr forgets what is closed.
AddrOfOpen == [k \in Clients |-> IF k \in open' THEN addr[k] ELSE None]

\* Client.Close on a set of clients.  Faulty, for mutation: they stay open.
KeepOpen(closing) == UNCHANGED dialVars
CloseClients(closing) ==
    /\ status' = [k \in Clients |-> IF k \in closing THEN "down" ELSE status[k]]
    /\ open' = open \ closing
    /\ addr' = AddrOfOpen

\* mu is held until XDial has returned.
Hold(p) == p

\* A client that is not available is closed and forgotten.
DialAnew(p) ==
    /\ pc[p] = "dial" /\ mu = None
    /\ ~IsAvailable(clients[at[p]])
    /\ mu' = Hold(p)
    /\ CloseClients({clients[at[p]]} \ {Nobody})
    /\ clients' = [clients EXCEPT ![at[p]] = Nobody]
    /\ pc' = [pc EXCEPT ![p] = "connect"]
    /\ UNCHANGED <<at, using, result, broadcastVars>>

\* net.DialTimeout: a connection, numbered like one that nobody knows any more.
Unused(k) == /\ k \notin open
             /\ \A p \in Procs : using[p] # k
             /\ \A s \in Servers : clients[s] # k

Connect(p) ==
    /\ pc[p] = "connect"
    /\ \E k \in Clients :
          /\ Unused(k) /\ \A j \in Clients : j < k => ~Unused(j)
          /\ status' = [status EXCEPT ![k] = "making"]
          /\ open' = open \cup {k}
          /\ addr' = [addr EXCEPT ![k] = at[p]]
          /\ using' = [using EXCEPT ![p] = k]
    /\ pc' = [pc EXCEPT ![p] = "dialing"]
    /\ UNCHANGED <<cacheVars, at, result, broadcastVars>>

\* It fails, or the address or the options are wrong.
ConnectFails(p) ==
    /\ pc[p] = "connect"
    /\ mu' = None
    /\ Return(p, "failed")
    /\ UNCHANGED <<clients, dialVars, broadcastVars>>

\* The goroutine of dialTimeout: NewClient closes the connection if it cannot
\* send the Option, but not if it does not know the codec.
NewClient(k) ==
    /\ status[k] = "making"
    /\ \/ status' = [status EXCEPT ![k] = "made"] /\ UNCHANGED open
       \/ status' = [status EXCEPT ![k] = "failed"] /\ open' \in {open, open \ {k}}
    /\ UNCHANGED <<cacheVars, addr, procVars, broadcastVars>>

DialReturns(p) ==
    /\ pc[p] = "dialing" /\ status[using[p]] = "made"
    /\ status' = [status EXCEPT ![using[p]] = "up"]
    /\ clients' = [clients EXCEPT ![at[p]] = using[p]]
    /\ mu' = None
    /\ pc' = [pc EXCEPT ![p] = "use"]
    /\ UNCHANGED <<open, addr, at, using, result, broadcastVars>>

\* NewClient failed, or ConnectTimeout has passed, whether or not the client
\* is made by now.  The deferred Close of the connection; faulty, for
\* mutation: dialTimeout leaves it open.
LeaveOpen(k) == open
HangUp(k) == open \ {k}
DialFails(p) ==
    /\ pc[p] = "dialing"
    /\ status' = [status EXCEPT ![using[p]] = "down"]
    /\ open' = HangUp(using[p])
    /\ addr' = AddrOfOpen
    /\ mu' = None
    /\ Return(p, "failed")
    /\ UNCHANGED <<clients, broadcastVars>>

-----------------------------------------------------------------------------
(* Client.Call, by process p, and the receive loop of client k.             *)

\* Its receive loop ends; a Write that failed has closed the connection.
Breaks(k) ==
    /\ status[k] = "up"
    /\ status' = [status EXCEPT ![k] = "down"]
    /\ open' \in {open, open \ {k}} /\ addr' = AddrOfOpen
    /\ UNCHANGED <<cacheVars, procVars, broadcastVars>>

Send(p) ==
    /\ pc[p] = "use" /\ IsAvailable(using[p])
    /\ pc' = [pc EXCEPT ![p] = "sent"]
    /\ UNCHANGED <<cacheVars, dialVars, at, using, result, broadcastVars>>

\* The answer may be in Done when the client breaks or is closed.
Answer(p, r) ==
    /\ pc[p] = "sent"
    /\ Return(p, r)
    /\ UNCHANGED <<cacheVars, dialVars, broadcastVars>>

\* ErrShutdown of registerCall, or the error of terminateCalls.
Shutdown(p) ==
    /\ pc[p] \in {"use", "sent"} /\ ~IsAvailable(using[p])
    /\ Return(p, "failed")
    /\ UNCHANGED <<cacheVars, dialVars, broadcastVars>>

\* The calls of Broadcast have its context; those of Call have none that ends.
ContextDone(s) ==
    /\ pc[s] = "sent"
    /\ cancelled \/ expired
    /\ Return(s, "context")
    /\ UNCHANGED <<cacheVars, dialVars, broadcastVars>>

\* XClient.Close, which does not keep later calls from dialling again.
Close ==
    /\ mu = None
    /\ CloseClients({clients[s] : s \in Servers} \ {Nobody})
    /\ clients' = [s \in Servers |-> Nobody]
    /\ UNCHANGED <<mu, procVars, broadcastVars>>

-----------------------------------------------------------------------------
(* Broadcast.                                                               *)

Broadcast(servers) ==
    /\ broadcast = "idle" /\ broadcast' = "running"
    /\ pc' = [p \in Procs |-> IF p \in servers THEN "dial" ELSE pc[p]]
    /\ at' = [p \in Procs |-> IF p \in servers THEN p ELSE at[p]]
    /\ UNCHANGED <<cacheVars, dialVars, using, result, e, reply, cancelled, expired>>

Expires ==
    /\ broadcast = "running" /\ ~expired /\ expired' = TRUE
    /\ UNCHANGED <<cacheVars, dialVars, procVars, broadcast, e, reply, cancelled>>

\* e == nil; faulty, for mutation: the last error is kept.
LastError(r) == r # "ok"
FirstError(r) == r # "ok" /\ e = "ok"

\* Faulty, for mutation: no cancel, or no Wait.
CancelNever(r) == FALSE
Cancel(r) == FirstError(r)
WaitForNone == TRUE
Wait == \A s \in Servers : pc[s] \in {"idle", "ended"}

\* The goroutine of server s, under the mutex of Broadcast.
Report(s) ==
    /\ pc[s] = "report"
    /\ pc' = [pc EXCEPT ![s] = "ended"]
    /\ e' = IF FirstError(result[s]) THEN result[s] ELSE e
    /\ cancelled' = (cancelled \/ Cancel(result[s]))
    /\ reply' = IF result[s] = "ok" /\ reply = None THEN s ELSE reply
    /\ UNCHANGED <<cacheVars, dialVars, at, using, result, broadcast, expired>>

BroadcastReturns ==
    /\ broadcast = "running" /\ broadcast' = "returned"
    /\ Wait
    /\ UNCHANGED <<cacheVars, dialVars, procVars, e, reply, cancelled, expired>>

-----------------------------------------------------------------------------
\* What a process does of itself; whether a server answers is up to the server.
Step(p) ==
    \/ DialCached(p) \/ DialAnew(p) \/ Connect(p) \/ ConnectFails(p)
    \/ DialReturns(p) \/ DialFails(p) \/ Send(p) \/ Shutdown(p)
    \/ p \in Servers /\ (ContextDone(p) \/ Report(p))

Next ==
    \/ \E p \in Procs : Step(p) \/ \E r \in {"ok", "failed"} : Answer(p, r)
    \/ \E p \in Callers, s \in Servers : Call(p, s)
    \/ \E k \in Clients : NewClient(k) \/ Breaks(k)
    \/ \E servers \in SUBSET Servers : Broadcast(servers)
    \/ Expires \/ BroadcastReturns \/ Close
Spec == Init /\ [][Next]_vars

\* Goroutines run, a Write returns, ConnectTimeout is not 0, mu wakes its
\* waiters in the end, and a call whose context is done returns
\* (ContextHonoured of RpcClient).
FairSpec ==
    /\ Spec
    /\ \A p \in Procs : WF_vars(Step(p)) /\ SF_vars(DialCached(p) \/ DialAnew(p))
    /\ WF_vars(BroadcastReturns)

-----------------------------------------------------------------------------
(* Properties.                                                              *)

\* Every open connection is in the cache, where Close finds it, or still being
\* dialled: not after a timeout of dialTimeout, a lost race or a broken client.
NoLeak ==
    \A k \in open : \/ clients[addr[k]] = k
                    \/ \E p \in Procs : pc[p] = "dialing" /\ using[p] = k

\* Processes that dial the same server at once end up with one connection.
OneConnection == \A j, k \in open : addr[j] = addr[k] => j = k

\* The error of Broadcast is the cause of the failure: it is a context's error
\* only if the caller's own context was done, never by Broadcast's cancel.
CauseReported == e = "context" => expired

\* When Broadcast returns nobody writes e or reply any more; without an error
\* every server has answered, and the reply is that of one of them.
BroadcastComplete ==
    broadcast = "returned" =>
        \A s \in Servers : /\ pc[s] \in {"idle", "ended"}
                           /\ e = "ok" /\ pc[s] = "ended" => result[s] = "ok" /\ reply # None
                           /\ reply = s => result[s] = "ok"

\* After the first failure, or when its context is done, Broadcast does not go on
\* for ever, even if other servers never answer.
GivenUp == broadcast = "running" /\ (e # "ok" \/ expired)
BroadcastEnds == []<>~GivenUp
=============================================================================
