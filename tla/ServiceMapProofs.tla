-------------------------- MODULE ServiceMapProofs --------------------------
(***************************************************************************)
(* Proofs about ServiceMap: whatever is registered, under whatever names    *)
(* and from however many goroutines, what was accepted is served, and a     *)
(* request finds nothing else.                                              *)
(***************************************************************************)
EXTENDS ServiceMap, TLAPS

(* The map holds accepted values, and each of them under its name.           *)
MapInv ==
    /\ \A n \in Names : serviceMap[n] # NoRcvr => serviceMap[n] \in accepted
    /\ \A r \in accepted : serviceMap[NameOf[r]] = r

(* What requests have found belongs to accepted values.                      *)
FoundInv == \A f \in found : f[1] \in accepted

ServiceInv == ServiceTypeOK /\ MapInv /\ FoundInv

-----------------------------------------------------------------------------
\* An empty server satisfies the invariant.
LEMMA ServiceInitInv == ServiceInit => ServiceInv
  BY ServiceAssumption
  DEF ServiceInit, ServiceInv, ServiceTypeOK, MapInv, FoundInv, Names

\* The first half of Register keeps it: it touches no value that is accepted.
LEMMA NewServiceInv ==
    ASSUME ServiceInv, NEW r \in Rcvrs, NewService(r)
    PROVE  ServiceInv'
  <1> USE ServiceAssumption DEF ServiceInv, ServiceTypeOK, MapInv, FoundInv, NewService
  <1>1. ServiceTypeOK'
    OBVIOUS
  <1>2. MapInv'
    OBVIOUS
  <1>3. FoundInv'
    OBVIOUS
  <1>4. QED BY <1>1, <1>2, <1>3

\* The second half keeps it: a name that is taken stays with its value.
LEMMA LoadOrStoreInv ==
    ASSUME ServiceInv, NEW r \in Rcvrs, LoadOrStore(r)
    PROVE  ServiceInv'
  <1> USE ServiceAssumption DEF ServiceInv, ServiceTypeOK, MapInv, FoundInv, Names
  <1>1. CASE serviceMap[NameOf[r]] = NoRcvr
    <2>1. /\ serviceMap' = [serviceMap EXCEPT ![NameOf[r]] = r]
          /\ accepted' = accepted \cup {r} /\ refused' = refused
      BY <1>1 DEF LoadOrStore, LoadedOrStored
    <2>2. ServiceTypeOK'
      BY <2>1 DEF LoadOrStore
    <2>3. \A s \in accepted : NameOf[s] # NameOf[r]
      BY <1>1
    <2>4. MapInv'
      BY <2>1, <2>3
    <2>5. FoundInv'
      BY <2>1 DEF LoadOrStore
    <2>6. QED BY <2>2, <2>4, <2>5
  <1>2. CASE serviceMap[NameOf[r]] # NoRcvr
    BY <1>2 DEF LoadOrStore, LoadedOrStored
  <1>3. QED BY <1>1, <1>2

\* A request finds a method of an accepted value.
LEMMA FindServiceInv ==
    ASSUME ServiceInv, NEW n \in Names, NEW m \in Methods, FindService(n, m)
    PROVE  ServiceInv'
  <1> USE ServiceAssumption DEF ServiceInv, ServiceTypeOK, MapInv, FoundInv, FindService
  <1>1. serviceMap[n] \in Rcvrs /\ serviceMap[n] \in accepted
    OBVIOUS
  <1>2. found' = found \cup {<<serviceMap[n], m>>}
    OBVIOUS
  <1>3. ServiceTypeOK'
    BY <1>1, <1>2
  <1>4. MapInv'
    OBVIOUS
  <1>5. FoundInv'
    BY <1>1, <1>2
  <1>6. QED BY <1>3, <1>4, <1>5

\* A call changes only what it counts.
LEMMA CallFoundInv ==
    ASSUME ServiceInv, NEW r \in Rcvrs, NEW m \in Methods, CallMethod(r, m)
    PROVE  ServiceInv'
  <1> USE ServiceAssumption DEF ServiceInv, ServiceTypeOK, MapInv, FoundInv, CallMethod
  <1>1. numCalls[<<r, m>>] + 1 \in 0..MaxCalls
    OBVIOUS
  <1>2. numCalls' \in [Rcvrs \X Methods -> 0..MaxCalls]
    BY <1>1
  <1>3. QED BY <1>2

\* What Register accepted is served for good, and a request has found nothing
\* else, for every set of values, names and methods (server.go:23-29, 44-50).
THEOREM ServiceRegisteredIsServed == ServiceSpec => []RegisteredIsServed
  <1>1. ServiceInv /\ UNCHANGED serviceVars => ServiceInv'
    BY DEF ServiceInv, ServiceTypeOK, MapInv, FoundInv, serviceVars
  <1>2. ServiceInv /\ [ServiceNext]_serviceVars => ServiceInv'
    BY <1>1, NewServiceInv, LoadOrStoreInv, FindServiceInv, CallFoundInv DEF ServiceNext
  <1>3. ServiceInv => RegisteredIsServed
    BY DEF ServiceInv, MapInv, FoundInv, RegisteredIsServed
  <1>4. QED BY <1>2, <1>3, ServiceInitInv, PTL DEF ServiceSpec
=============================================================================
