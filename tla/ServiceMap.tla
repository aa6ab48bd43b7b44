---------------------------- MODULE ServiceMap ----------------------------
(***************************************************************************)
(* The services of one Server (service/server.go) and the methods that      *)
(* reflection finds in them (service/service.go): goroutines register       *)
(* values while requests look methods up and call them.  Server.serviceMap  *)
(* is a sync.Map, whose operations are atomic.                              *)
(***************************************************************************)
EXTENDS Integers, FiniteSets

CONSTANTS Rcvrs,    \* the values that are registered
          NameOf,   \* the name of the type of each
          Exported, \* those whose type is exported
          Methods,  \* [ins, outs, error, exported, reply] of the exported methods of all
          MaxCalls, \* bound: the calls of a method
          NoRcvr    \* no service

\* The type of a method's reply: a pointer, another type that has an element, as
\* a slice or a map, or one that has none.
Replies == {"pointer", "elem", "plain"}

ASSUME ServiceAssumption ==
    /\ Exported \subseteq Rcvrs /\ NoRcvr \notin Rcvrs /\ MaxCalls \in Nat
    /\ \A m \in Methods : m.reply \in Replies

Names == {NameOf[r] : r \in Rcvrs}

VARIABLES serviceMap,  \* Server.serviceMap: the value registered under each name
          method,      \* service.method of each value, {} before newService
          registering, \* the values between newService and LoadOrStore
          accepted,    \* those whose Register returned nil (history)
          refused,     \* those whose Register returned an error (history)
          numCalls,    \* methodType.numCalls of the methods of each value
          found,       \* what findService returned: values and methods not called yet
          serving      \* "on", "fatal" after log.Fatalf, "panic" after one of reflect's

serviceVars ==
    <<serviceMap, method, registering, accepted, refused, numCalls, found, serving>>

ServiceTypeOK ==
    /\ serviceMap \in [Names -> Rcvrs \cup {NoRcvr}]
    /\ method \in [Rcvrs -> SUBSET Methods]
    /\ registering \subseteq Rcvrs /\ accepted \subseteq Rcvrs /\ refused \subseteq Rcvrs
    /\ numCalls \in [Rcvrs \X Methods -> 0..MaxCalls]
    /\ found \subseteq Rcvrs \X Methods /\ serving \in {"on", "fatal", "panic"}

ServiceInit ==
    /\ serviceMap = [n \in Names |-> NoRcvr] /\ method = [r \in Rcvrs |-> {}]
    /\ registering = {} /\ accepted = {} /\ refused = {} /\ found = {}
    /\ numCalls = [c \in Rcvrs \X Methods |-> 0] /\ serving = "on"

-----------------------------------------------------------------------------
\* registerMethods takes m.  It does not ask whether the reply is a pointer.
Eligible(m) == m.ins = 3 /\ m.outs = 1 /\ m.error /\ m.exported

NewService(r) ==
    /\ serving = "on" /\ r \notin registering \cup accepted \cup refused
    /\ IF r \in Exported
       THEN /\ method' = [method EXCEPT ![r] = {m \in Methods : Eligible(m)}]
            /\ registering' = registering \cup {r}
            /\ UNCHANGED serving
       ELSE serving' = "fatal" /\ UNCHANGED <<method, registering>>
    /\ UNCHANGED <<serviceMap, accepted, refused, numCalls, found>>

\* The map after LoadOrStore.  Faulty, for mutation: it stores over what is there.
Stored(r) == [serviceMap EXCEPT ![NameOf[r]] = r]
LoadedOrStored(r) ==
    IF serviceMap[NameOf[r]] = NoRcvr THEN [serviceMap EXCEPT ![NameOf[r]] = r] ELSE serviceMap

LoadOrStore(r) ==
    /\ serving = "on" /\ r \in registering
    /\ registering' = registering \ {r}
    /\ serviceMap' = LoadedOrStored(r)
    /\ IF serviceMap[NameOf[r]] = NoRcvr
       THEN accepted' = accepted \cup {r} /\ UNCHANGED refused
       ELSE refused' = refused \cup {r} /\ UNCHANGED accepted
    /\ UNCHANGED <<method, numCalls, found, serving>>

\* readRequest: findService for a service and a method that exist, for any other
\* it changes nothing; newReplyv asks the type of the reply for its element.
FindService(name, m) ==
    /\ serving = "on" /\ serviceMap[name] # NoRcvr /\ m \in method[serviceMap[name]]
    /\ found' = found \cup {<<serviceMap[name], m>>}
    /\ serving' = IF m.reply = "plain" THEN "panic" ELSE "on"
    /\ UNCHANGED <<serviceMap, method, registering, accepted, refused, numCalls>>

\* service.call counts, and reflect calls with the receiver, the arguments and a
\* pointer to what the type of the reply is made of.
CallMethod(r, m) ==
    /\ serving = "on" /\ <<r, m>> \in found /\ numCalls[<<r, m>>] < MaxCalls
    /\ numCalls' = [numCalls EXCEPT ![<<r, m>>] = @ + 1]
    /\ found' = found \ {<<r, m>>}
    /\ serving' = IF m.ins = 3 /\ m.reply = "pointer" THEN "on" ELSE "panic"
    /\ UNCHANGED <<serviceMap, method, registering, accepted, refused>>

ServiceNext ==
    \/ \E r \in Rcvrs : NewService(r) \/ LoadOrStore(r)
    \/ \E n \in Names, m \in Methods : FindService(n, m)
    \/ \E r \in Rcvrs, m \in Methods : CallMethod(r, m)
ServiceSpec == ServiceInit /\ [][ServiceNext]_serviceVars

-----------------------------------------------------------------------------
\* Whatever registers at the same time, a value that Register accepted is the
\* one that its name finds, for good, and no request has found a method of any
\* other: not of one that lost a race for the name (server.go:23-29, 44-50).
RegisteredIsServed ==
    /\ \A r \in accepted : serviceMap[NameOf[r]] = r
    /\ \A f \in found : f[1] \in accepted
=============================================================================
