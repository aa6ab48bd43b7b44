----------------------------- MODULE Discovery -----------------------------
(***************************************************************************)
(* RegistryDiscovery and MultiServersDiscovery of 7-day-golang/xclient: the *)
(* list of servers a client caches, refreshed from the registry, and the    *)
(* choice of one of them, by goroutines that call Get and GetAll.           *)
(***************************************************************************)
EXTENDS Registry, FiniteSets, SequencesExt

CONSTANTS Getters,        \* goroutines that call Get or GetAll
          UpdateTimeout,  \* RegistryDiscovery.timeout
          MaxFetch,       \* assumed: http.Get returns within this time
          Order,          \* where sort.Strings puts an address among all
          MaxIndex        \* bound: the random index of a new discovery

ASSUME DiscoveryAssumption ==
    /\ UpdateTimeout \in Nat \ {0} /\ MaxFetch \in Nat
    /\ IsFiniteSet(Servers)
    /\ Order \in [Servers -> Nat] /\ IsInjective(Order)
    /\ MaxAge >= Timeout + UpdateTimeout + MaxFetch - 1
    /\ MaxIndex \in Nat /\ MaxIndex >= Cardinality(Servers) - 1

VARIABLES servers,  \* the cached list
          index,    \* the position of the round robin
          updated,  \* time since lastUpdate
          mu,       \* is the mutex held across http.Get
          getter,   \* where a goroutine is in Get or GetAll
          answer,   \* the list in the registry's answer
          fetching, \* how long http.Get has been under way
          round     \* servers the round robin chose since all had their turn

discoveryVars == <<servers, index, updated, mu, getter, answer, fetching, round>>
vars == <<registryVars, discoveryVars>>

DiscoveryTypeOK ==
    /\ servers \in Seq(Servers) /\ answer \in Seq(Servers)
    /\ index \in 0..MaxIndex
    /\ updated \in 0..UpdateTimeout
    /\ mu \in BOOLEAN
    /\ getter \in [Getters -> {"idle", "refresh", "fetch", "answered", "choose"}]
    /\ fetching \in 0..MaxFetch
    /\ round \subseteq Servers

TypeOK == RegistryTypeOK /\ DiscoveryTypeOK

\* lastUpdate is the zero time.
DiscoveryInit ==
    /\ servers = <<>> /\ answer = <<>>
    /\ index \in 0..MaxIndex
    /\ updated = UpdateTimeout
    /\ mu = FALSE
    /\ getter = [g \in Getters |-> "idle"]
    /\ fetching = 0
    /\ round = {}

At(g, place) == getter[g] = place
Go(g, place) == getter' = [getter EXCEPT ![g] = place]

-----------------------------------------------------------------------------
(* Get and GetAll, called by goroutine g in any mode, which matters only    *)
(* once Refresh has returned.                                               *)

Call(g) ==
    /\ At(g, "idle") /\ Go(g, "refresh")
    /\ UNCHANGED <<registryVars, servers, index, updated, mu, answer, fetching, round>>

\* Refresh: lastUpdate.Add(timeout).After(now).
Fresh == updated < UpdateTimeout

RefreshCached(g) ==
    /\ At(g, "refresh") /\ Go(g, "choose")
    /\ ~mu /\ Fresh
    /\ UNCHANGED <<registryVars, servers, index, updated, mu, answer, fetching, round>>

RefreshFetch(g) ==
    /\ At(g, "refresh") /\ Go(g, "fetch")
    /\ ~mu /\ ~Fresh
    /\ mu' = TRUE
    /\ fetching' = 0
    /\ UNCHANGED <<registryVars, servers, index, updated, answer, round>>

\* What the registry may answer to a GET: the list is sorted.  Faulty, for
\* mutation: in any order of the map.
Listings(S) == {q \in [1..Cardinality(S) -> S] : IsInjective(q)}
Unsorted(S) == Listings(S)
Answers(S) ==
    {q \in Listings(S) : \A i, j \in DOMAIN q : i < j => Order[q[i]] < Order[q[j]]}

FetchAnswered(g) ==
    /\ At(g, "fetch") /\ Go(g, "answered")
    /\ aliveServers
    /\ answer' \in Answers(Alive)
    /\ UNCHANGED <<servers, index, updated, mu, fetching, round>>

FetchReturns(g) ==
    /\ At(g, "answered") /\ Go(g, "choose")
    /\ servers' = answer /\ answer' = <<>>
    /\ updated' = 0
    /\ mu' = FALSE /\ fetching' = 0
    /\ round' = IF ToSet(servers') = ToSet(servers) THEN round ELSE {}
    /\ UNCHANGED <<registryVars, index>>

\* http.Get fails before or after the registry has answered; the old list and
\* lastUpdate stay.
FetchFails(g) ==
    /\ At(g, "fetch") \/ At(g, "answered")
    /\ Go(g, "idle")
    /\ mu' = FALSE /\ fetching' = 0
    /\ answer' = <<>>
    /\ UNCHANGED <<registryVars, servers, index, updated, round>>

\* MultiServersDiscovery: Get of an empty list, Get in mode random, GetAll.
ChooseAny(g) ==
    /\ At(g, "choose") /\ Go(g, "idle")
    /\ ~mu
    /\ UNCHANGED <<registryVars, servers, index, updated, mu, answer, fetching, round>>

\* d.index = (d.index + 1) % n; faulty, for mutation: without % n.
NextUnwrapped(n) == index + 1
NextIndex(n) == (index + 1) % n
Chosen == servers[(index % Len(servers)) + 1]

ChooseRobin(g) ==
    /\ At(g, "choose") /\ Go(g, "idle")
    /\ ~mu
    /\ servers # <<>>
    /\ index' = NextIndex(Len(servers))
    /\ round' = IF round \cup {Chosen} = ToSet(servers) THEN {} ELSE round \cup {Chosen}
    /\ UNCHANGED <<registryVars, servers, updated, mu, answer, fetching>>

GetterStep(g) ==
    \/ RefreshCached(g) \/ RefreshFetch(g) \/ FetchAnswered(g) \/ FetchReturns(g)
    \/ FetchFails(g) \/ ChooseAny(g) \/ ChooseRobin(g)

DiscoveryWaits == mu => fetching < MaxFetch
Tick ==
    /\ RegistryWaits /\ DiscoveryWaits
    /\ RegistryAges
    /\ updated' = IF Fresh THEN updated + 1 ELSE updated
    /\ fetching' = IF mu THEN fetching + 1 ELSE 0
    /\ UNCHANGED <<servers, index, mu, getter, answer, round>>

Init == RegistryInit /\ DiscoveryInit
Next ==
    \/ \E s \in Servers : ServerStep(s) /\ UNCHANGED discoveryVars
    \/ (Crash \/ Restart) /\ UNCHANGED discoveryVars
    \/ \E g \in Getters : Call(g) \/ GetterStep(g)
    \/ Tick
Spec == Init /\ [][Next]_vars

-----------------------------------------------------------------------------
(* Properties.                                                              *)

\* A server that Refresh leaves in the list was heard of by the registry in
\* the time that the three timeouts allow: a dead one is not used for longer.
HeardOf == \A s \in ToSet(servers) : silent[s] <= (Timeout - 1) + MaxFetch + (UpdateTimeout - 1)
RefreshedIsRecent ==
    [][\A g \in Getters : At(g, "choose")' /\ ~At(g, "choose") => HeardOf']_vars

\* The round robin chooses no server twice before it chose every other one,
\* for as long as the list has the same servers, across refreshes.
RoundRobinFair ==
    [][index' # index => Chosen \notin round]_vars
=============================================================================
