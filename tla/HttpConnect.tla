---------------------------- MODULE HttpConnect ----------------------------
(***************************************************************************)
(* The HTTP transport of 7-day-golang: NewHTTPClient (client/client.go)     *)
(* sends CONNECT and waits for the response before it becomes an RPC        *)
(* client; ServeHTTP (service/server.go) hijacks the connection and becomes *)
(* an RPC server.  Both ends read HTTP through a buffer that they then      *)
(* drop, and with it whatever came behind the message that they wanted.     *)
(* net/http is external: it reads as much as it finds, and answers what     *)
(* ServeHTTP does not.                                                      *)
(***************************************************************************)
EXTENDS Integers, Sequences

CONSTANT Requests  \* bound: the RPC requests that the client sends

ASSUME HttpAssumption == Requests \in Nat

VARIABLES toServer,    \* what is on its way to the server
          toClient,    \* what is on its way to the client
          client,      \* "writes", "reads", "option", "rpc", "failed"
          sent,        \* the RPC requests it has sent
          serves,      \* "http", "option", "rpc", "refused"
          httpBuffer,  \* what net/http has read
          lost         \* what either end dropped with a buffer (history)

httpVars == <<toServer, toClient, client, sent, serves, httpBuffer, lost>>

\* CONNECT to the path of the server, and what other clients of HTTP send.
HttpRequests == {"CONNECT", "CONNECT_elsewhere", "GET"}
Responses == {"200_Connected", "404", "405", "500"}
Frames == {"Option", "request", "reply"}
Items == HttpRequests \cup Responses \cup Frames

HttpTypeOK ==
    /\ toServer \in Seq(Items) /\ toClient \in Seq(Items) /\ httpBuffer \in Seq(Items)
    /\ client \in {"writes", "reads", "option", "rpc", "failed"} /\ sent \in 0..Requests
    /\ serves \in {"http", "option", "rpc", "refused"} /\ lost \subseteq Items

HttpInit ==
    /\ toServer = <<>> /\ toClient = <<>> /\ httpBuffer = <<>>
    /\ client = "writes" /\ serves = "http" /\ sent = 0 /\ lost = {}

-----------------------------------------------------------------------------
\* All that a buffer holds behind its first item.
Behind(buffer) == {buffer[n] : n \in 2..Len(buffer)}

WriteConnect ==
    /\ client = "writes"
    /\ \E request \in HttpRequests : toServer' = Append(toServer, request)
    /\ client' = "reads"
    /\ UNCHANGED <<toClient, sent, serves, httpBuffer, lost>>

\* http.ReadResponse, through a bufio.Reader that is dropped.
ReadResponse ==
    /\ client = "reads" /\ toClient # <<>>
    /\ \E n \in 1..Len(toClient) :
          /\ lost' = lost \cup Behind(SubSeq(toClient, 1, n))
          /\ toClient' = SubSeq(toClient, n + 1, Len(toClient))
    /\ client' = IF Head(toClient) = "200_Connected" THEN "option" ELSE "failed"
    /\ UNCHANGED <<toServer, sent, serves, httpBuffer>>

\* The client can send its Option.  Faulty, for mutation: as soon as it has sent
\* CONNECT.
ConfirmedEarly == client \in {"reads", "option"}
Confirmed == client = "option"

NewRpcClient ==
    /\ Confirmed
    /\ toServer' = Append(toServer, "Option")
    /\ client' = "rpc"
    /\ UNCHANGED <<toClient, sent, serves, httpBuffer, lost>>

SendRequest ==
    /\ client = "rpc" /\ sent < Requests
    /\ toServer' = Append(toServer, "request")
    /\ sent' = sent + 1
    /\ UNCHANGED <<toClient, client, serves, httpBuffer, lost>>

-----------------------------------------------------------------------------
HttpReads ==
    /\ serves = "http" /\ toServer # <<>>
    /\ \E n \in 1..Len(toServer) :
          /\ httpBuffer' = httpBuffer \o SubSeq(toServer, 1, n)
          /\ toServer' = SubSeq(toServer, n + 1, Len(toServer))
    /\ UNCHANGED <<toClient, client, sent, serves, lost>>

\* CONNECT: the connection is hijacked, the buffer that Hijack returns dropped.
ServeHTTP ==
    /\ serves = "http" /\ httpBuffer # <<>> /\ Head(httpBuffer) = "CONNECT"
    /\ toClient' = Append(toClient, "200_Connected")
    /\ serves' = "option"
    /\ lost' = lost \cup Behind(httpBuffer) /\ httpBuffer' = <<>>
    /\ UNCHANGED <<toServer, client, sent>>

\* Another method, another path, or a Hijack that fails.
Refuse ==
    /\ serves = "http" /\ httpBuffer # <<>>
    /\ \/ Head(httpBuffer) = "GET" /\ toClient' = Append(toClient, "405")
       \/ Head(httpBuffer) = "CONNECT_elsewhere" /\ toClient' = Append(toClient, "404")
       \/ Head(httpBuffer) = "CONNECT" /\ toClient' = Append(toClient, "500")
    /\ serves' = "refused"
    /\ lost' = lost \cup Behind(httpBuffer) /\ httpBuffer' = <<>>
    /\ UNCHANGED <<toServer, client, sent>>

\* ServerConn on the connection: the Option, then requests, each with its reply.
ServeRpc ==
    /\ serves \in {"option", "rpc"} /\ toServer # <<>>
    /\ toServer' = Tail(toServer)
    /\ serves' = "rpc"
    /\ toClient' = IF serves = "rpc" THEN Append(toClient, "reply") ELSE toClient
    /\ UNCHANGED <<client, sent, httpBuffer, lost>>

HttpNext ==
    \/ WriteConnect \/ ReadResponse \/ NewRpcClient \/ SendRequest
    \/ HttpReads \/ ServeHTTP \/ Refuse \/ ServeRpc
HttpSpec == HttpInit /\ [][HttpNext]_httpVars

-----------------------------------------------------------------------------
\* The handover from HTTP to RPC drops nothing of either stream, although both
\* ends drop a buffer: each waits for the other before it sends what is not HTTP
\* (client.go:286-290, server.go:243-249).
HandoverLosesNothing == lost = {}
=============================================================================
