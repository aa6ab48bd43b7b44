---------------------------- MODULE XClientProofs ----------------------------
(***************************************************************************)
(* Proofs about XClient, for any servers, callers and number of clients: no *)
(* connection leaks, a server has one connection, and what Broadcast says   *)
(* when it returns.                                                         *)
(***************************************************************************)
EXTENDS XClient, TLAPS

(* What a process has at each of its places: the server it calls, and the    *)
(* client it uses.  The one that dials holds mu, so the cache has no client  *)
(* of its server meanwhile, and the connection it makes goes there.          *)
PlaceInv ==
    \A p \in Procs :
        /\ pc[p] \in {"idle", "report", "ended"} => at[p] = None /\ using[p] = Nobody
        /\ pc[p] \notin {"idle", "report", "ended"} => at[p] \in Servers
        /\ pc[p] \in {"dialing", "use", "sent"} => using[p] \in Clients
        /\ pc[p] \in {"connect", "dialing"} => clients[at[p]] = Nobody
        /\ pc[p] = "dialing" /\ using[p] \in open => addr[using[p]] = at[p]

(* An open connection has an owner that will close it.                       *)
OpenInv == \A k \in open : addr[k] \in Servers

CacheInv == TypeOK /\ PlaceInv /\ OpenInv /\ NoLeak

(* Broadcast and its goroutines: they start together, e is set by the first  *)
(* that reports an error, which is when cancel is called, and until then     *)
(* only the context of Broadcast's caller ends a call.                       *)
StartInv ==
    /\ broadcast = "idle" => \A s \in Servers : pc[s] = "idle"
    /\ broadcast = "returned" => Wait
ResultInv ==
    \A s \in Servers :
        /\ pc[s] \in {"report", "ended"} => result[s] # "none"
        /\ result[s] = "context" => expired \/ e # "ok"
CauseInv == (cancelled => e # "ok") /\ CauseReported
ReplyInv ==
    /\ \A s \in Servers : e = "ok" /\ pc[s] = "ended" => result[s] = "ok" /\ reply # None
    /\ reply # None => pc[reply] = "ended" /\ result[reply] = "ok"

BroadcastInv == StartInv /\ ResultInv /\ CauseInv /\ ReplyInv

XInv == CacheInv /\ BroadcastInv

-----------------------------------------------------------------------------
(* The cache.                                                               *)

\* A call that returns: what it leaves of the types and of the places.
LEMMA ReturnPlaces ==
    ASSUME TypeOK, PlaceInv, NEW p \in Procs, NEW r \in Results, Return(p, r)
    PROVE  /\ pc' \in [Procs -> {"idle", "dial", "connect", "dialing", "use", "sent",
                                 "report", "ended"}]
           /\ at' \in [Procs -> Servers \cup {None}] /\ using' \in [Procs -> Clients \cup {Nobody}]
           /\ result' \in [Servers -> Results \cup {"none"}]
           /\ pc'[p] \in {"idle", "report"} /\ at'[p] = None /\ using'[p] = Nobody
           /\ \A q \in Procs \ {p} : pc'[q] = pc[q] /\ at'[q] = at[q] /\ using'[q] = using[q]
  BY DEF Return, TypeOK, Procs

\* Clients that are closed, are open no longer.
LEMMA ClosedForgotten ==
    ASSUME TypeOK, OpenInv, open' \subseteq open, addr' = AddrOfOpen
    PROVE  /\ open' \subseteq Clients /\ addr' \in [Clients -> Servers \cup {None}]
           /\ \A k \in open' : addr'[k] = addr[k]
           /\ OpenInv'
  BY DEF TypeOK, OpenInv, AddrOfOpen

LEMMA CacheInit == Init => CacheInv
  <1> SUFFICES ASSUME Init PROVE CacheInv
    OBVIOUS
  <1>1. TypeOK
    BY XClientAssumption DEF Init, TypeOK, Procs, Results
  <1>2. PlaceInv /\ OpenInv /\ NoLeak
    BY DEF Init, PlaceInv, OpenInv, NoLeak
  <1>3. QED BY <1>1, <1>2 DEF CacheInv

LEMMA CacheStep == XInv /\ [Next]_vars => CacheInv'
  <1> SUFFICES ASSUME CacheInv, BroadcastInv, [Next]_vars PROVE CacheInv'
    BY DEF XInv
  <1> USE XClientAssumption DEF CacheInv
  <1>a. /\ DOMAIN pc = Procs /\ DOMAIN at = Procs /\ DOMAIN using = Procs
        /\ DOMAIN clients = Servers /\ DOMAIN status = Clients /\ Servers \subseteq Procs
        /\ Nobody \notin Clients /\ None \notin Procs
    BY DEF TypeOK, Procs, Nobody, Clients
  <1>1. ASSUME NEW p \in Procs, DialCached(p) PROVE CacheInv'
    <2>1. /\ pc[p] = "dial" /\ at[p] \in Servers /\ clients[at[p]] \in Clients
          /\ using' = [using EXCEPT ![p] = clients[at[p]]] /\ pc' = [pc EXCEPT ![p] = "use"]
          /\ UNCHANGED <<cacheVars, dialVars, at, result, broadcastVars>>
      BY <1>1 DEF DialCached, IsAvailable, PlaceInv, TypeOK
    <2>2. TypeOK'
      BY <2>1 DEF TypeOK, cacheVars, dialVars, broadcastVars
    <2>3. PlaceInv' /\ OpenInv' /\ NoLeak'
      BY <1>a, <2>1 DEF PlaceInv, OpenInv, NoLeak, cacheVars, dialVars
    <2>4. QED BY <2>2, <2>3
  <1>2. ASSUME NEW p \in Procs, DialAnew(p) PROVE CacheInv'
    <2>1. /\ pc[p] = "dial" /\ mu = None /\ mu' = p /\ at[p] \in Servers
          /\ pc' = [pc EXCEPT ![p] = "connect"]
          /\ open' = open \ ({clients[at[p]]} \ {Nobody}) /\ addr' = AddrOfOpen
          /\ status' = [k \in Clients |-> IF k \in {clients[at[p]]} \ {Nobody} THEN "down"
                                          ELSE status[k]]
          /\ clients' = [clients EXCEPT ![at[p]] = Nobody]
          /\ UNCHANGED <<at, using, result, broadcastVars>>
      BY <1>2 DEF DialAnew, Hold, CloseClients, PlaceInv
    <2>2. /\ open' \subseteq Clients /\ addr' \in [Clients -> Servers \cup {None}]
          /\ OpenInv' /\ \A k \in open' : addr'[k] = addr[k]
      BY <2>1, ClosedForgotten
    <2>3. TypeOK'
      BY <1>a, <2>1, <2>2 DEF TypeOK, broadcastVars
    <2>4. \A q \in Procs : pc[q] \notin {"connect", "dialing"}
      BY <1>a, <2>1 DEF TypeOK
    <2>5. PlaceInv'
      BY <1>a, <2>1, <2>4 DEF PlaceInv, TypeOK
    <2>6. NoLeak'
      BY <1>a, <2>1, <2>2, <2>4 DEF NoLeak, OpenInv, TypeOK
    <2>7. QED BY <2>2, <2>3, <2>5, <2>6
  <1>3. ASSUME NEW p \in Procs, Connect(p) PROVE CacheInv'
    <2>1. PICK k \in Clients :
             /\ Unused(k) /\ status' = [status EXCEPT ![k] = "making"]
             /\ open' = open \cup {k} /\ addr' = [addr EXCEPT ![k] = at[p]]
             /\ using' = [using EXCEPT ![p] = k]
      BY <1>3 DEF Connect
    <2>2. /\ pc[p] = "connect" /\ pc' = [pc EXCEPT ![p] = "dialing"] /\ at[p] \in Servers
          /\ UNCHANGED <<cacheVars, at, result, broadcastVars>> /\ k \notin open
          /\ \A q \in Procs : using[q] # k
      BY <1>3, <2>1 DEF Connect, PlaceInv, Unused
    <2>3. \A q \in Procs : pc[q] \in {"connect", "dialing"} => q = p
      BY <2>2 DEF TypeOK
    <2>4. TypeOK'
      BY <1>a, <2>1, <2>2 DEF TypeOK, cacheVars, broadcastVars
    <2>5. PlaceInv'
      BY <1>a, <2>1, <2>2, <2>3 DEF PlaceInv, TypeOK, cacheVars
    <2>6. OpenInv' /\ NoLeak'
      BY <1>a, <2>1, <2>2, <2>3 DEF OpenInv, NoLeak, TypeOK, cacheVars
    <2>7. QED BY <2>4, <2>5, <2>6
  <1>4. ASSUME NEW p \in Procs, ConnectFails(p) PROVE CacheInv'
    <2>1. /\ pc[p] = "connect" /\ mu' = None /\ Return(p, "failed")
          /\ UNCHANGED <<clients, dialVars, broadcastVars>>
      BY <1>4 DEF ConnectFails
    <2>2. \A q \in Procs : pc[q] \in {"connect", "dialing"} => q = p
      BY <2>1 DEF TypeOK
    <2>3. TypeOK'
      BY <1>a, <2>1, <2>2, ReturnPlaces DEF TypeOK, Results, dialVars, broadcastVars
    <2>4. PlaceInv' /\ OpenInv' /\ NoLeak'
      BY <1>a, <2>1, <2>2, ReturnPlaces DEF PlaceInv, OpenInv, NoLeak, Results, dialVars
    <2>5. QED BY <2>3, <2>4
  <1>5. ASSUME NEW k \in Clients, NewClient(k) PROVE CacheInv'
    <2>1. /\ open' \subseteq open /\ UNCHANGED <<cacheVars, addr, procVars, broadcastVars>>
          /\ status' \in [Clients -> {"down", "making", "made", "failed", "up"}]
      BY <1>5 DEF NewClient, TypeOK
    <2>2. TypeOK'
      BY <2>1 DEF TypeOK, cacheVars, procVars, broadcastVars
    <2>3. PlaceInv' /\ OpenInv' /\ NoLeak'
      BY <2>1 DEF PlaceInv, OpenInv, NoLeak, cacheVars, procVars
    <2>4. QED BY <2>2, <2>3
  <1>6. ASSUME NEW p \in Procs, DialReturns(p) PROVE CacheInv'
    <2>1. /\ pc[p] = "dialing" /\ using[p] \in Clients /\ at[p] \in Servers
          /\ clients[at[p]] = Nobody /\ (using[p] \in open => addr[using[p]] = at[p])
          /\ status' = [status EXCEPT ![using[p]] = "up"]
          /\ clients' = [clients EXCEPT ![at[p]] = using[p]]
          /\ mu' = None /\ pc' = [pc EXCEPT ![p] = "use"]
          /\ UNCHANGED <<open, addr, at, using, result, broadcastVars>>
      BY <1>6 DEF DialReturns, PlaceInv
    <2>2. \A q \in Procs : pc[q] \in {"connect", "dialing"} => q = p
      BY <2>1 DEF TypeOK
    <2>3. TypeOK'
      BY <1>a, <2>1, <2>2 DEF TypeOK, broadcastVars
    <2>4. PlaceInv' /\ OpenInv'
      BY <1>a, <2>1, <2>2 DEF PlaceInv, OpenInv, TypeOK
    <2>5. NoLeak'
      BY <1>a, <2>1, <2>2 DEF NoLeak, OpenInv, TypeOK
    <2>6. QED BY <2>3, <2>4, <2>5
  <1>7. ASSUME NEW p \in Procs, DialFails(p) PROVE CacheInv'
    <2>1. /\ pc[p] = "dialing" /\ using[p] \in Clients /\ mu' = None /\ Return(p, "failed")
          /\ status' = [status EXCEPT ![using[p]] = "down"]
          /\ open' = open \ {using[p]} /\ addr' = AddrOfOpen
          /\ UNCHANGED <<clients, broadcastVars>>
      BY <1>7 DEF DialFails, HangUp, PlaceInv
    <2>2. \A q \in Procs : pc[q] \in {"connect", "dialing"} => q = p
      BY <2>1 DEF TypeOK
    <2>3. /\ open' \subseteq Clients /\ addr' \in [Clients -> Servers \cup {None}]
          /\ OpenInv' /\ \A k \in open' : addr'[k] = addr[k]
      BY <2>1, ClosedForgotten
    <2>4. TypeOK'
      BY <1>a, <2>1, <2>2, <2>3, ReturnPlaces DEF TypeOK, Results, broadcastVars
    <2>5. PlaceInv' /\ NoLeak'
      BY <1>a, <2>1, <2>2, <2>3, ReturnPlaces DEF PlaceInv, NoLeak, OpenInv, Results
    <2>6. QED BY <2>3, <2>4, <2>5
  <1>8. ASSUME NEW k \in Clients, Breaks(k) PROVE CacheInv'
    <2>1. /\ status' = [status EXCEPT ![k] = "down"] /\ open' \subseteq open
          /\ addr' = AddrOfOpen /\ UNCHANGED <<cacheVars, procVars, broadcastVars>>
      BY <1>8 DEF Breaks
    <2>2. /\ open' \subseteq Clients /\ addr' \in [Clients -> Servers \cup {None}]
          /\ OpenInv' /\ \A j \in open' : addr'[j] = addr[j]
      BY <2>1, ClosedForgotten
    <2>3. TypeOK'
      BY <2>1, <2>2 DEF TypeOK, cacheVars, procVars, broadcastVars
    <2>4. PlaceInv' /\ NoLeak'
      BY <2>1, <2>2 DEF PlaceInv, NoLeak, cacheVars, procVars
    <2>5. QED BY <2>2, <2>3, <2>4
  <1>9. ASSUME Close PROVE CacheInv'
    <2> DEFINE K == {clients[s] : s \in Servers} \ {Nobody}
    <2>1. /\ mu = None /\ open' = open \ K /\ addr' = AddrOfOpen
          /\ status' = [k \in Clients |-> IF k \in K THEN "down" ELSE status[k]]
          /\ clients' = [s \in Servers |-> Nobody]
          /\ UNCHANGED <<mu, procVars, broadcastVars>>
      BY <1>9 DEF Close, CloseClients
    <2>2. \A q \in Procs : pc[q] \notin {"connect", "dialing"}
      BY <1>a, <2>1 DEF TypeOK
    <2>3. open' = {}
      BY <1>a, <2>1, <2>2 DEF NoLeak, OpenInv, TypeOK
    <2>4. TypeOK'
      <3>1. status' \in [Clients -> {"down", "making", "made", "failed", "up"}]
        BY <2>1 DEF TypeOK
      <3>2. addr' \in [Clients -> Servers \cup {None}]
        BY <2>1, <2>3 DEF AddrOfOpen
      <3>3. QED BY <2>1, <2>3, <3>1, <3>2 DEF TypeOK, procVars, broadcastVars
    <2>5. PlaceInv' /\ OpenInv' /\ NoLeak'
      BY <1>a, <2>1, <2>2, <2>3 DEF PlaceInv, OpenInv, NoLeak, procVars
    <2>6. QED BY <2>4, <2>5
  <1>10. ASSUME NEW p \in Procs, pc[p] \in {"use", "sent"}, NEW r \in Results, Return(p, r),
                UNCHANGED <<cacheVars, dialVars, broadcastVars>>
         PROVE  CacheInv'
    <2>1. TypeOK'
      BY <1>a, <1>10, ReturnPlaces DEF TypeOK, cacheVars, dialVars, broadcastVars
    <2>2. PlaceInv' /\ OpenInv' /\ NoLeak'
      BY <1>a, <1>10, ReturnPlaces DEF PlaceInv, OpenInv, NoLeak, cacheVars, dialVars
    <2>3. QED BY <2>1, <2>2
  <1>11. ASSUME NEW p \in Procs, NEW to,
                \/ pc[p] = "use" /\ to = "sent"
                \/ p \in Servers /\ pc[p] = "report" /\ to = "ended",
                pc' = [pc EXCEPT ![p] = to], UNCHANGED <<cacheVars, dialVars, at, using, result>>,
                e' \in Results, reply' \in Servers \cup {None}, cancelled' \in BOOLEAN,
                UNCHANGED <<broadcast, expired>>
         PROVE  CacheInv'
    <2>1. TypeOK'
      BY <1>a, <1>11 DEF TypeOK, cacheVars, dialVars
    <2>2. PlaceInv' /\ OpenInv' /\ NoLeak'
      BY <1>a, <1>11 DEF PlaceInv, OpenInv, NoLeak, cacheVars, dialVars
    <2>3. QED BY <2>1, <2>2
  <1>12. ASSUME NEW p \in Callers, NEW s \in Servers, Call(p, s) PROVE CacheInv'
    <2>1. /\ p \in Procs /\ pc[p] = "idle" /\ pc' = [pc EXCEPT ![p] = "dial"]
          /\ at' = [at EXCEPT ![p] = s]
          /\ UNCHANGED <<cacheVars, dialVars, using, result, broadcastVars>>
      BY <1>12 DEF Call, Procs
    <2>2. TypeOK'
      BY <1>a, <2>1 DEF TypeOK, cacheVars, dialVars, broadcastVars
    <2>3. PlaceInv' /\ OpenInv' /\ NoLeak'
      BY <1>a, <2>1 DEF PlaceInv, OpenInv, NoLeak, cacheVars, dialVars
    <2>4. QED BY <2>2, <2>3
  <1>13. ASSUME NEW servers \in SUBSET Servers, Broadcast(servers) PROVE CacheInv'
    <2>1. /\ broadcast' = "running" /\ \A s \in Servers : pc[s] = "idle"
          /\ pc' = [p \in Procs |-> IF p \in servers THEN "dial" ELSE pc[p]]
          /\ at' = [p \in Procs |-> IF p \in servers THEN p ELSE at[p]]
          /\ UNCHANGED <<cacheVars, dialVars, using, result, e, reply, cancelled, expired>>
      BY <1>13 DEF Broadcast, BroadcastInv, StartInv
    <2>2. TypeOK'
      BY <1>a, <2>1 DEF TypeOK, cacheVars, dialVars
    <2>3. PlaceInv' /\ OpenInv' /\ NoLeak'
      BY <1>a, <2>1 DEF PlaceInv, OpenInv, NoLeak, cacheVars, dialVars
    <2>4. QED BY <2>2, <2>3
  <1>14. ASSUME UNCHANGED <<cacheVars, dialVars, procVars, e, reply, cancelled>>,
                broadcast' \in {"idle", "running", "returned"}, expired' \in BOOLEAN
         PROVE  CacheInv'
    BY <1>14 DEF TypeOK, PlaceInv, OpenInv, NoLeak, cacheVars, dialVars, procVars
  <1>15. ASSUME NEW p \in Procs, Step(p) \/ \E r \in {"ok", "failed"} : Answer(p, r)
         PROVE  CacheInv'
    <2>1. CASE Send(p)
      BY <2>1, <1>11 DEF Send, broadcastVars, TypeOK
    <2>2. CASE Shutdown(p)
      BY <2>2, <1>10 DEF Shutdown, Results
    <2>3. CASE ContextDone(p)
      BY <2>3, <1>10 DEF ContextDone, Results
    <2>4. CASE \E r \in {"ok", "failed"} : Answer(p, r)
      BY <2>4, <1>10 DEF Answer, Results
    <2>5. CASE p \in Servers /\ Report(p)
      <3>1. pc[p] = "report" /\ pc' = [pc EXCEPT ![p] = "ended"]
        BY <2>5 DEF Report
      <3>2. e' \in Results /\ reply' \in Servers \cup {None} /\ cancelled' \in BOOLEAN
        <4>1. result[p] \in Results
          BY <2>5, <3>1 DEF BroadcastInv, ResultInv, TypeOK
        <4>2. /\ e' = (IF result[p] # "ok" /\ e = "ok" THEN result[p] ELSE e)
              /\ cancelled' = (cancelled \/ (result[p] # "ok" /\ e = "ok"))
              /\ reply' = (IF result[p] = "ok" /\ reply = None THEN p ELSE reply)
          BY <2>5 DEF Report, FirstError, Cancel
        <4>3. QED BY <2>5, <4>1, <4>2 DEF TypeOK
      <3>3. QED BY <2>5, <3>1, <3>2, <1>11 DEF Report
    <2>6. QED
      BY <1>15, <1>1, <1>2, <1>3, <1>4, <1>6, <1>7, <2>1, <2>2, <2>3, <2>4, <2>5 DEF Step
  <1>16. CASE Expires \/ BroadcastReturns \/ UNCHANGED vars
    BY <1>16, <1>14 DEF Expires, BroadcastReturns, vars, broadcastVars, TypeOK
  <1>17. QED
    BY <1>5, <1>8, <1>9, <1>12, <1>13, <1>15, <1>16 DEF Next

-----------------------------------------------------------------------------
(* Broadcast.                                                               *)

LEMMA BroadcastInit == Init => BroadcastInv
  BY XClientAssumption
  DEF Init, BroadcastInv, StartInv, ResultInv, CauseInv, CauseReported, ReplyInv, Procs, Results

LEMMA BroadcastStep == XInv /\ [Next]_vars => BroadcastInv'
  <1> SUFFICES ASSUME TypeOK, BroadcastInv, [Next]_vars PROVE BroadcastInv'
    BY DEF XInv, CacheInv
  <1> USE XClientAssumption DEF BroadcastInv
  <1>a. /\ DOMAIN pc = Procs /\ result \in [Servers -> Results \cup {"none"}]
        /\ Servers \subseteq Procs /\ \A p \in Callers : p \in Procs /\ p \notin Servers
        /\ reply \in Servers \cup {None} /\ None \notin Servers
        /\ broadcast \in {"idle", "running", "returned"}
    BY DEF TypeOK, Procs
  \* A step that leaves Broadcast and its results alone, and moves a goroutine
  \* that is on its way.
  <1>1. ASSUME UNCHANGED <<result, broadcastVars>>,
               \A s \in Servers : \/ pc'[s] = pc[s]
                                 \/ /\ pc[s] \notin {"idle", "report", "ended"}
                                    /\ pc'[s] \notin {"idle", "report", "ended"}
        PROVE  BroadcastInv'
    <2>1. StartInv' /\ ResultInv'
      BY <1>1 DEF StartInv, Wait, ResultInv, broadcastVars
    <2>2. CauseInv' /\ ReplyInv'
      BY <1>a, <1>1 DEF CauseInv, CauseReported, ReplyInv, broadcastVars
    <2>3. QED BY <2>1, <2>2
  <1>2. ASSUME NEW p \in Procs, pc[p] \notin {"idle", "report", "ended"}, NEW r \in Results,
               Return(p, r), UNCHANGED broadcastVars,
               p \in Servers /\ r = "context" => cancelled \/ expired
        PROVE  BroadcastInv'
    <2>1. CASE p \in Callers
      <3>1. UNCHANGED result /\ \A s \in Servers : pc'[s] = pc[s]
        BY <1>a, <1>2, <2>1 DEF Return
      <3>2. QED BY <1>1, <1>2, <3>1
    <2>2. CASE p \in Servers
      <3>1. /\ pc' = [pc EXCEPT ![p] = "report"] /\ result' = [result EXCEPT ![p] = r]
            /\ r # "none" /\ (r = "context" => expired \/ e # "ok")
        BY <1>a, <1>2, <2>2 DEF Return, Results, CauseInv
      <3>2. StartInv' /\ ResultInv'
        BY <1>a, <1>2, <2>2, <3>1 DEF StartInv, Wait, ResultInv, broadcastVars
      <3>3. CauseInv' /\ ReplyInv'
        BY <1>a, <1>2, <2>2, <3>1 DEF CauseInv, CauseReported, ReplyInv, broadcastVars
      <3>4. QED BY <3>2, <3>3
    <2>3. QED BY <2>1, <2>2 DEF Procs
  <1>3. ASSUME NEW s \in Servers, Report(s) PROVE BroadcastInv'
    <2>1. /\ pc[s] = "report" /\ pc' = [pc EXCEPT ![s] = "ended"]
          /\ e' = (IF result[s] # "ok" /\ e = "ok" THEN result[s] ELSE e)
          /\ cancelled' = (cancelled \/ (result[s] # "ok" /\ e = "ok"))
          /\ reply' = (IF result[s] = "ok" /\ reply = None THEN s ELSE reply)
          /\ UNCHANGED <<result, broadcast, expired>>
      BY <1>3 DEF Report, FirstError, Cancel
    <2>2. /\ result[s] # "none" /\ (result[s] = "context" => expired \/ e # "ok")
          /\ broadcast = "running"
      BY <1>a, <2>1 DEF ResultInv, StartInv, Wait
    <2>3. e # "ok" => e' = e
      BY <2>1
    <2>4. StartInv' /\ ResultInv'
      BY <1>a, <2>1, <2>2, <2>3 DEF StartInv, ResultInv
    <2>5. CauseInv'
      BY <2>1, <2>2 DEF CauseInv, CauseReported
    <2>6. ReplyInv'
      BY <1>a, <2>1, <2>2 DEF ReplyInv
    <2>7. QED BY <2>4, <2>5, <2>6
  <1>4. ASSUME NEW servers \in SUBSET Servers, Broadcast(servers) PROVE BroadcastInv'
    <2>1. /\ broadcast = "idle" /\ broadcast' = "running"
          /\ \A s \in Servers : pc[s] = "idle" /\ pc'[s] \in {"idle", "dial"}
          /\ UNCHANGED <<result, e, reply, cancelled, expired>>
      BY <1>a, <1>4 DEF Broadcast, StartInv
    <2>2. StartInv' /\ ResultInv'
      BY <2>1 DEF StartInv, ResultInv
    <2>3. CauseInv' /\ ReplyInv'
      BY <1>a, <2>1 DEF CauseInv, CauseReported, ReplyInv
    <2>4. QED BY <2>2, <2>3
  <1>5. ASSUME Expires \/ BroadcastReturns PROVE BroadcastInv'
    <2>1. /\ UNCHANGED <<pc, result, e, reply, cancelled>> /\ (expired => expired')
          /\ broadcast = "running" /\ (broadcast' = "running" \/ (broadcast' = "returned" /\ Wait))
      BY <1>5 DEF Expires, BroadcastReturns, procVars
    <2>2. StartInv' /\ ResultInv'
      BY <2>1 DEF StartInv, Wait, ResultInv
    <2>3. CauseInv' /\ ReplyInv'
      BY <2>1 DEF CauseInv, CauseReported, ReplyInv
    <2>4. QED BY <2>2, <2>3
  <1>6. ASSUME NEW p \in Procs, Step(p) \/ \E r \in {"ok", "failed"} : Answer(p, r)
        PROVE  BroadcastInv'
    <2>1. CASE DialCached(p) \/ DialAnew(p) \/ Connect(p) \/ DialReturns(p) \/ Send(p)
      BY <1>a, <1>1, <2>1 DEF DialCached, DialAnew, Connect, DialReturns, Send
    <2>2. CASE ConnectFails(p) \/ DialFails(p) \/ Shutdown(p)
      BY <1>2, <2>2 DEF ConnectFails, DialFails, Shutdown, Results
    <2>3. CASE p \in Servers /\ ContextDone(p)
      BY <1>2, <2>3 DEF ContextDone, Results
    <2>4. CASE \E r \in {"ok", "failed"} : Answer(p, r)
      BY <1>2, <2>4 DEF Answer, Results
    <2>5. CASE p \in Servers /\ Report(p)
      BY <1>3, <2>5
    <2>6. QED BY <1>6, <2>1, <2>2, <2>3, <2>4, <2>5 DEF Step
  <1>7. ASSUME NEW p \in Callers, NEW s \in Servers, Call(p, s) PROVE BroadcastInv'
    BY <1>a, <1>1, <1>7 DEF Call
  <1>8. ASSUME \/ \E k \in Clients : NewClient(k) \/ Breaks(k)
               \/ Close \/ UNCHANGED vars
        PROVE  BroadcastInv'
    BY <1>1, <1>8 DEF NewClient, Breaks, Close, procVars, vars
  <1>9. QED BY <1>4, <1>5, <1>6, <1>7, <1>8 DEF Next

-----------------------------------------------------------------------------
\* The cache, the connections and Broadcast together.
THEOREM XInvariant == Spec => []XInv
  <1>1. QED BY CacheInit, CacheStep, BroadcastInit, BroadcastStep, PTL DEF XInv, Spec

\* discovery_registry.go: the variables keep their types, and mu is held by the
\* goroutine that dials, and by that one only.
THEOREM XTypeCorrect == Spec => []TypeOK
  <1>1. XInv => TypeOK
    BY DEF XInv, CacheInv
  <1>2. QED BY <1>1, XInvariant, PTL

\* discovery_registry.go, client.go: no connection is lost, whether its dialling
\* fails or is late, its client breaks, or the cache is closed meanwhile.
THEOREM XNoLeak == Spec => []NoLeak
  <1>1. XInv => NoLeak
    BY DEF XInv, CacheInv
  <1>2. QED BY <1>1, XInvariant, PTL

\* discovery_registry.go: however many goroutines call a server at once, they
\* share one connection to it.
THEOREM XOneConnection == Spec => []OneConnection
  <1>1. ASSUME CacheInv, NEW j \in open, NEW k \in open, addr[j] = addr[k] PROVE j = k
    <2>1. \A p, q \in Procs : pc[p] = "dialing" /\ pc[q] = "dialing" => p = q
      BY <1>1, XClientAssumption DEF CacheInv, TypeOK
    <2>2. \A p \in Procs : pc[p] = "dialing" /\ using[p] \in open =>
             clients[addr[using[p]]] = Nobody
      BY <1>1 DEF CacheInv, PlaceInv
    <2>3. Nobody \notin open
      BY <1>1 DEF CacheInv, TypeOK, Clients, Nobody
    <2>4. QED BY <1>1, <2>1, <2>2, <2>3 DEF CacheInv, NoLeak
  <1>2. XInv => OneConnection
    BY <1>1 DEF XInv, OneConnection
  <1>3. QED BY <1>2, XInvariant, PTL

\* discovery_registry.go: Broadcast never reports the cancellation it caused.
THEOREM XCauseReported == Spec => []CauseReported
  <1>1. XInv => CauseReported
    BY DEF XInv, BroadcastInv, CauseInv
  <1>2. QED BY <1>1, XInvariant, PTL

\* discovery_registry.go: Broadcast returns after all of its goroutines, with no
\* error only if every server answered, and with the reply of one that did.
THEOREM XBroadcastComplete == Spec => []BroadcastComplete
  <1>1. XInv => BroadcastComplete
    <2> SUFFICES ASSUME XInv, broadcast = "returned", NEW s \in Servers
                 PROVE  /\ pc[s] \in {"idle", "ended"}
                        /\ e = "ok" /\ pc[s] = "ended" => result[s] = "ok" /\ reply # None
                        /\ reply = s => result[s] = "ok"
      BY DEF BroadcastComplete
    <2>1. QED
      BY XClientAssumption DEF XInv, BroadcastInv, StartInv, Wait, ReplyInv
  <1>2. QED BY <1>1, XInvariant, PTL
=============================================================================
