-------------------------- MODULE DiscoveryProofs --------------------------
(***************************************************************************)
(* Proofs about Registry and Discovery: the registry keeps every server     *)
(* whose heartbeat runs, a refreshed list has no server that it last heard  *)
(* of longer ago than the timeouts allow, and the round robin is fair.      *)
(***************************************************************************)
EXTENDS Discovery, TLAPS, FiniteSetTheorems

(* The time since a server was put is bounded while its heartbeat runs: when *)
(* it sleeps, its ticker fires within Period of it; when it posts, the       *)
(* ticker fired at most spent ago.                                           *)
Sleeps(s) == beat[s] = "sleep" /\ age[s] # Absent => age[s] + wait[s] <= Period
Posts(s) == beat[s] = "post" /\ age[s] # Absent => age[s] <= Period + spent[s]
BeatInv == \A s \in Servers : Sleeps(s) /\ Posts(s)

(* What is in the map was put there when its age says so.                    *)
AgeInv == \A s \in Servers : age[s] # Absent => silent[s] = age[s]

RegistryInv == RegistryTypeOK /\ BeatInv /\ AgeInv

-----------------------------------------------------------------------------
\* The registry starts in the invariant.
LEMMA RegistryInitInv == RegistryInit => RegistryInv
  BY RegistryAssumption DEF RegistryInit, RegistryInv, RegistryTypeOK, BeatInv, AgeInv,
     Sleeps, Posts, Absent

\* What a server does keeps it.
LEMMA ServerStepInv ==
    ASSUME RegistryInv, NEW s \in Servers, ServerStep(s)
    PROVE  RegistryInv'
  <1> USE RegistryAssumption DEF RegistryInv, RegistryTypeOK, BeatInv, AgeInv, Sleeps,
                                 Posts, Absent
  <1>1. CASE Heartbeat(s)
    BY <1>1 DEF Heartbeat
  <1>2. CASE PostReturns(s)
    BY <1>2 DEF PostReturns, putServer, Posting
  <1>3. CASE PostFails(s)
    BY <1>3 DEF PostFails, putServer, Posting
  <1>4. CASE TickerFires(s)
    BY <1>4 DEF TickerFires
  <1>5. CASE ServerDies(s)
    BY <1>5 DEF ServerDies, putServer, Posting
  <1>6. QED BY <1>1, <1>2, <1>3, <1>4, <1>5 DEF ServerStep

\* So does what the registry does.
LEMMA RegistryStepInv ==
    ASSUME RegistryInv, aliveServers \/ Crash \/ Restart
    PROVE  RegistryInv'
  BY DEF RegistryInv, RegistryTypeOK, BeatInv, AgeInv, Sleeps, Posts, Absent, aliveServers,
         Crash, Restart

\* And the passage of time, as it waits for tickers and POSTs.
LEMMA AgesInv ==
    ASSUME RegistryInv, RegistryWaits, RegistryAges
    PROVE  RegistryInv'
  <1> USE RegistryAssumption DEF RegistryInv, RegistryTypeOK, BeatInv, AgeInv, Absent, Posting
  <1>1. RegistryTypeOK'
    BY DEF RegistryAges, RegistryWaits, Older
  <1>2. AgeInv'
    BY DEF RegistryAges, Older
  <1>3. ASSUME NEW s \in Servers PROVE Sleeps(s)' /\ Posts(s)'
    BY <1>3 DEF RegistryAges, RegistryWaits, Older, Sleeps, Posts
  <1>4. QED BY <1>1, <1>2, <1>3

\* The invariant holds at every state of the registry.
THEOREM RegistryInvariant == RegistrySpec => []RegistryInv
  <1>1. RegistryInv /\ [RegistryNext]_registryVars => RegistryInv'
    <2> SUFFICES ASSUME RegistryInv, [RegistryNext]_registryVars PROVE RegistryInv'
      OBVIOUS
    <2>1. CASE UNCHANGED registryVars
      BY <2>1 DEF registryVars, RegistryInv, RegistryTypeOK, BeatInv, AgeInv, Sleeps, Posts
    <2>2. CASE RegistryNext
      BY <2>2, ServerStepInv, RegistryStepInv, AgesInv DEF RegistryNext
    <2>3. QED BY <2>1, <2>2
  <1>2. QED BY RegistryInitInv, <1>1, PTL DEF RegistrySpec

-----------------------------------------------------------------------------
\* The registry deletes no server whose heartbeat runs (registry.go:102-103),
\* if the ticker leaves the time that a POST takes.
THEOREM HeartbeatKeepsServer ==
    ASSUME Timeout = 0 \/ Period + MaxDelay < Timeout
    PROVE  RegistrySpec => NeverDropsBeating
  <1>1. RegistryInv /\ [RegistryNext]_registryVars
        => [\A s \in Servers : age[s] # Absent /\ age'[s] = Absent /\ up' => ~Beating(s)]_registryVars
    <2> SUFFICES ASSUME RegistryInv, RegistryNext, NEW s \in Servers,
                        age[s] # Absent, age'[s] = Absent, up', Beating(s)
                 PROVE  FALSE
      OBVIOUS
    <2> USE RegistryAssumption DEF RegistryInv, RegistryTypeOK, Absent
    <2>1. ASSUME NEW t \in Servers, ServerStep(t) PROVE FALSE
      <3>1. age' = age \/ age' = [age EXCEPT ![t] = 0]
        BY <2>1 DEF ServerStep, Heartbeat, PostReturns, PostFails, TickerFires, ServerDies,
                    putServer
      <3>2. QED BY <3>1
    <2>2. CASE aliveServers
      <3>1. age[s] <= Period + MaxDelay
        BY DEF BeatInv, Sleeps, Posts, Beating
      <3>2. s \in Alive
        BY <3>1 DEF Alive, AliveUntil
      <3>3. QED BY <2>2, <3>2 DEF aliveServers
    <2>3. CASE Crash \/ Restart
      BY <2>3 DEF Crash, Restart
    <2>4. CASE RegistryAges
      BY <2>4 DEF RegistryAges, Older
    <2>5. QED BY <2>1, <2>2, <2>3, <2>4 DEF RegistryNext
  <1>2. QED BY RegistryInvariant, <1>1, PTL DEF RegistrySpec, NeverDropsBeating

-----------------------------------------------------------------------------
(* The cached list.                                                          *)

Fetches(g) == At(g, "fetch") \/ At(g, "answered")

(* The goroutine that fetches holds mu.                                      *)
MutexInv ==
    /\ \A g \in Getters : Fetches(g) => mu
    /\ \A g, h \in Getters : Fetches(g) /\ Fetches(h) => g = h

(* An answer is as old as its fetch, a fresh list as its last update.        *)
AnswerInv ==
    /\ Len(answer) <= Cardinality(Servers)
    /\ \A g \in Getters : At(g, "answered") =>
         \A i \in DOMAIN answer :
             Timeout # 0 => silent[answer[i]] <= Timeout - 1 + fetching
ListInv ==
    /\ Len(servers) <= Cardinality(Servers)
    /\ Fresh => \A i \in DOMAIN servers :
         Timeout # 0 => silent[servers[i]] <= Timeout - 1 + MaxFetch + updated

DiscoveryInv == DiscoveryTypeOK /\ MutexInv /\ AnswerInv /\ ListInv

\* A discovery takes no step of the registry but those of its specification.
LEMMA StepsOfRegistry == [Next]_vars => [RegistryNext]_registryVars
  <1> SUFFICES ASSUME Next PROVE [RegistryNext]_registryVars
    BY DEF vars
  <1>1. CASE \E s \in Servers : ServerStep(s) /\ UNCHANGED discoveryVars
    BY <1>1 DEF RegistryNext
  <1>2. CASE (Crash \/ Restart) /\ UNCHANGED discoveryVars
    BY <1>2 DEF RegistryNext
  <1>3. ASSUME NEW g \in Getters, Call(g) \/ GetterStep(g)
        PROVE  [RegistryNext]_registryVars
    BY <1>3 DEF RegistryNext, Call, GetterStep, RefreshCached, RefreshFetch, FetchAnswered,
                FetchReturns, FetchFails, ChooseAny, ChooseRobin
  <1>4. CASE Tick
    BY <1>4 DEF Tick, RegistryNext
  <1>5. QED BY <1>1, <1>2, <1>3, <1>4 DEF Next

\* A discovery has a registry of RegistrySpec.
THEOREM DiscoveryHasRegistry == Spec => RegistrySpec
  BY StepsOfRegistry, PTL DEF Spec, Init, RegistrySpec

\* What the registry answers: as many servers as there are at most, all alive.
LEMMA AnswersAlive ==
    ASSUME NEW S \in SUBSET Servers, NEW q \in Answers(S)
    PROVE  /\ q \in Seq(Servers) /\ Len(q) <= Cardinality(Servers)
           /\ \A i \in DOMAIN q : q[i] \in S
  <1>1. Cardinality(S) \in Nat /\ Cardinality(S) <= Cardinality(Servers)
    BY DiscoveryAssumption, FS_Subset, FS_CardinalityType DEF DiscoveryAssumption
  <1>2. q \in [1..Cardinality(S) -> S]
    BY DEF Answers, Listings
  <1>3. QED BY <1>1, <1>2

\* The discovery starts in the invariant.
LEMMA DiscoveryInitInv == DiscoveryInit => DiscoveryInv
  <1> SUFFICES ASSUME DiscoveryInit PROVE DiscoveryInv
    OBVIOUS
  <1> USE DiscoveryAssumption DEF DiscoveryAssumption, DiscoveryInit
  <1>1. Cardinality(Servers) \in Nat
    BY FS_CardinalityType
  <1>2. DiscoveryTypeOK
    <2>1. <<>> \in Seq(Servers)
      OBVIOUS
    <2>2. servers \in Seq(Servers) /\ answer \in Seq(Servers)
      BY <2>1
    <2>3. getter \in [Getters -> {"idle", "refresh", "fetch", "answered", "choose"}]
      OBVIOUS
    <2>4. index \in 0..MaxIndex /\ updated \in 0..UpdateTimeout /\ fetching \in 0..MaxFetch
      OBVIOUS
    <2>5. mu \in BOOLEAN /\ round \subseteq Servers
      OBVIOUS
    <2>9. QED BY ONLY <2>2, <2>3, <2>4, <2>5 DEF DiscoveryTypeOK
  <1>3. MutexInv
    BY DEF MutexInv, Fetches, At
  <1>4. AnswerInv /\ ListInv
    BY <1>1 DEF AnswerInv, ListInv, At, Fresh
  <1>5. QED BY <1>2, <1>3, <1>4 DEF DiscoveryInv

\* What servers and the registry do, but for time, keeps it: silent only falls.
LEMMA RegistryKeepsDiscovery ==
    ASSUME RegistryTypeOK, RegistryTypeOK', DiscoveryInv,
           \/ \E s \in Servers : ServerStep(s)
           \/ Crash \/ Restart,
           UNCHANGED discoveryVars
    PROVE  DiscoveryInv'
  <1> USE RegistryAssumption, DiscoveryAssumption
      DEF RegistryAssumption, DiscoveryAssumption, DiscoveryInv, DiscoveryTypeOK, discoveryVars
  <1>1. \A s \in Servers : silent[s] \in Nat /\ (silent'[s] = silent[s] \/ silent'[s] = 0)
    <2>1. silent' = silent \/ \E s \in Servers : silent' = [silent EXCEPT ![s] = 0]
      BY DEF ServerStep, Heartbeat, PostReturns, PostFails, TickerFires, ServerDies,
             putServer, Crash, Restart
    <2>2. QED BY <2>1 DEF RegistryTypeOK
  <1>2. DiscoveryTypeOK' /\ MutexInv'
    BY DEF MutexInv, Fetches, At
  <1>3. AnswerInv'
    <2> SUFFICES ASSUME NEW g \in Getters, At(g, "answered"), NEW i \in DOMAIN answer,
                        Timeout # 0
                 PROVE  silent'[answer[i]] <= Timeout - 1 + fetching
      BY DEF AnswerInv, At
    <2>1. answer[i] \in Servers
      OBVIOUS
    <2>2. silent[answer[i]] <= Timeout - 1 + fetching
      BY DEF AnswerInv
    <2>3. fetching \in Nat
      OBVIOUS
    <2>4. QED BY ONLY <1>1, <2>1, <2>2, <2>3, Timeout \in Nat, Timeout # 0
  <1>4. ListInv'
    <2> SUFFICES ASSUME Fresh, NEW i \in DOMAIN servers, Timeout # 0
                 PROVE  silent'[servers[i]] <= Timeout - 1 + MaxFetch + updated
      BY DEF ListInv, Fresh
    <2>1. servers[i] \in Servers
      OBVIOUS
    <2>2. silent[servers[i]] <= Timeout - 1 + MaxFetch + updated
      BY DEF ListInv
    <2>3. updated \in Nat
      OBVIOUS
    <2>4. QED BY ONLY <1>1, <2>1, <2>2, <2>3, Timeout \in Nat, Timeout # 0, MaxFetch \in Nat
  <1>5. QED BY <1>2, <1>3, <1>4

\* So does the passage of time: silent, fetching and updated grow together.
LEMMA TickKeepsDiscovery ==
    ASSUME RegistryTypeOK, DiscoveryInv, Tick
    PROVE  DiscoveryInv'
  <1> USE RegistryAssumption, DiscoveryAssumption
      DEF RegistryAssumption, DiscoveryAssumption, DiscoveryInv, DiscoveryTypeOK, Tick
  <1>1. \A s \in Servers : silent'[s] <= silent[s] + 1 /\ silent[s] \in Nat /\ silent'[s] \in Nat
    BY DEF RegistryAges, RegistryTypeOK, Older
  <1>2. DiscoveryTypeOK'
    BY DEF DiscoveryWaits, Fresh
  <1>3. MutexInv'
    BY DEF MutexInv, Fetches, At
  <1>4. AnswerInv'
    <2> SUFFICES ASSUME NEW g \in Getters, At(g, "answered"), NEW i \in DOMAIN answer,
                        Timeout # 0
                 PROVE  silent'[answer[i]] <= Timeout - 1 + fetching'
      BY DEF AnswerInv, At
    <2>1. answer[i] \in Servers
      OBVIOUS
    <2>2. silent[answer[i]] <= Timeout - 1 + fetching
      BY DEF AnswerInv
    <2>3. fetching' = fetching + 1
      BY DEF MutexInv, Fetches
    <2>4. fetching \in Nat /\ Timeout \in Nat
      OBVIOUS
    <2>5. QED BY ONLY <1>1, <2>1, <2>2, <2>3, <2>4
  <1>5. ListInv'
    <2> SUFFICES ASSUME Fresh', NEW i \in DOMAIN servers, Timeout # 0
                 PROVE  silent'[servers[i]] <= Timeout - 1 + MaxFetch + updated'
      BY DEF ListInv
    <2>1. servers[i] \in Servers
      OBVIOUS
    <2>2. Fresh /\ updated' = updated + 1
      BY DEF Fresh
    <2>3. silent[servers[i]] <= Timeout - 1 + MaxFetch + updated
      BY <2>2 DEF ListInv
    <2>4. updated \in Nat /\ Timeout \in Nat /\ MaxFetch \in Nat
      OBVIOUS
    <2>5. QED BY ONLY <1>1, <2>1, <2>2, <2>3, <2>4
  <1>6. QED BY <1>2, <1>3, <1>4, <1>5

\* And what the goroutines do.
LEMMA GetterKeepsDiscovery ==
    ASSUME RegistryInv, DiscoveryInv, NEW g \in Getters,
           Call(g) \/ GetterStep(g)
    PROVE  DiscoveryInv'
  <1> USE RegistryAssumption, DiscoveryAssumption
      DEF RegistryAssumption, DiscoveryAssumption, DiscoveryInv, DiscoveryTypeOK
  <1> USE DEF At, Go, MutexInv, Fetches
  <1>1. CASE Call(g)
    BY <1>1 DEF Call, registryVars, AnswerInv, ListInv, Fresh
  <1>2. CASE RefreshCached(g)
    BY <1>2 DEF RefreshCached, registryVars, AnswerInv, ListInv, Fresh
  <1>3. CASE RefreshFetch(g)
    BY <1>3 DEF RefreshFetch, registryVars, AnswerInv, ListInv, Fresh
  <1>4. CASE FetchAnswered(g)
    <2> USE <1>4 DEF FetchAnswered
    <2>1. /\ Alive \in SUBSET Servers
          /\ Timeout # 0 => \A s \in Alive : silent[s] <= Timeout - 1
      BY DEF Alive, AliveUntil, RegistryInv, RegistryTypeOK, AgeInv, Absent
    <2>2. /\ answer' \in Seq(Servers) /\ Len(answer') <= Cardinality(Servers)
          /\ \A i \in DOMAIN answer' : answer'[i] \in Alive
      BY <2>1, AnswersAlive
    <2>3. DiscoveryTypeOK' /\ MutexInv'
      BY <2>2 DEF aliveServers
    <2>4. AnswerInv'
      <3> SUFFICES ASSUME NEW i \in DOMAIN answer', Timeout # 0
                   PROVE  silent'[answer'[i]] <= Timeout - 1 + fetching'
        BY <2>2 DEF AnswerInv
      <3>1. silent[answer'[i]] <= Timeout - 1
        BY <2>1, <2>2
      <3>2. silent[answer'[i]] \in Nat
        BY <2>1, <2>2 DEF RegistryInv, RegistryTypeOK
      <3>3. QED BY <3>1, <3>2 DEF aliveServers
    <2>5. ListInv'
      BY DEF ListInv, Fresh, aliveServers
    <2>6. QED BY <2>3, <2>4, <2>5
  <1>5. CASE FetchReturns(g)
    <2> USE <1>5 DEF FetchReturns
    <2>1. round' \subseteq Servers /\ <<>> \in Seq(Servers)
      OBVIOUS
    <2> MutexInv'
      OBVIOUS
    <2> DiscoveryTypeOK'
      <3>1. servers' \in Seq(Servers) /\ answer' \in Seq(Servers)
        BY <2>1
      <3>2. /\ getter' \in [Getters -> {"idle", "refresh", "fetch", "answered", "choose"}]
            /\ mu' \in BOOLEAN
        OBVIOUS
      <3>3. index' \in 0..MaxIndex /\ updated' \in 0..UpdateTimeout /\ fetching' \in 0..MaxFetch
        OBVIOUS
      <3>4. QED BY ONLY <2>1, <3>1, <3>2, <3>3 DEF DiscoveryTypeOK
    <2>2. AnswerInv'
      BY FS_CardinalityType DEF AnswerInv
    <2>3. ListInv'
      <3> SUFFICES ASSUME NEW i \in DOMAIN answer, Timeout # 0
                   PROVE  silent[answer[i]] <= Timeout - 1 + MaxFetch
        BY DEF ListInv, AnswerInv, registryVars
      <3>1. answer[i] \in Servers /\ silent[answer[i]] \in Nat
        BY DEF RegistryInv, RegistryTypeOK
      <3>2. QED BY <3>1 DEF AnswerInv
    <2>4. QED BY <2>2, <2>3
  <1>6. CASE FetchFails(g)
    <2> USE <1>6 DEF FetchFails
    <2>1. <<>> \in Seq(Servers) /\ Cardinality(Servers) \in Nat
      BY FS_CardinalityType
    <2> MutexInv'
      OBVIOUS
    <2>2. DiscoveryTypeOK'
      <3>1. servers' \in Seq(Servers) /\ answer' \in Seq(Servers) /\ round' \subseteq Servers
        BY <2>1
      <3>2. /\ getter' \in [Getters -> {"idle", "refresh", "fetch", "answered", "choose"}]
            /\ mu' \in BOOLEAN
        OBVIOUS
      <3>3. index' \in 0..MaxIndex /\ updated' \in 0..UpdateTimeout /\ fetching' \in 0..MaxFetch
        OBVIOUS
      <3>4. QED BY ONLY <3>1, <3>2, <3>3 DEF DiscoveryTypeOK
    <2>3. AnswerInv' /\ ListInv'
      BY <2>1 DEF registryVars, AnswerInv, ListInv, Fresh
    <2>4. QED BY <2>2, <2>3
  <1>7. CASE ChooseAny(g)
    BY <1>7 DEF ChooseAny, registryVars, AnswerInv, ListInv, Fresh
  <1>8. CASE ChooseRobin(g)
    <2> USE <1>8 DEF ChooseRobin
    <2>1. Len(servers) \in Nat \ {0} /\ Len(servers) <= MaxIndex + 1
      BY FS_CardinalityType DEF ListInv
    <2>2. index' \in 0..MaxIndex
      BY <2>1 DEF NextIndex
    <2>3. Chosen \in Servers
      BY <2>1 DEF Chosen
    <2>4. DiscoveryTypeOK' /\ MutexInv'
      BY <2>2, <2>3
    <2>5. AnswerInv' /\ ListInv'
      BY DEF registryVars, AnswerInv, ListInv, Fresh
    <2>6. QED BY <2>4, <2>5
  <1>9. QED
    BY <1>1, <1>2, <1>3, <1>4, <1>5, <1>6, <1>7, <1>8 DEF GetterStep

\* Both invariants hold of a discovery with its registry.
THEOREM DiscoveryInvariant == Spec => [](RegistryInv /\ DiscoveryInv)
  <1>1. RegistryInv /\ DiscoveryInv /\ [Next]_vars => RegistryInv' /\ DiscoveryInv'
    <2> SUFFICES ASSUME RegistryInv, DiscoveryInv, [Next]_vars
                 PROVE  RegistryInv' /\ DiscoveryInv'
      OBVIOUS
    <2>1. RegistryInv'
      <3>1. CASE UNCHANGED registryVars
        BY <3>1 DEF registryVars, RegistryInv, RegistryTypeOK, BeatInv, AgeInv, Sleeps, Posts
      <3>2. CASE RegistryNext
        BY <3>2, ServerStepInv, RegistryStepInv, AgesInv DEF RegistryNext
      <3>3. QED BY <3>1, <3>2, StepsOfRegistry
    <2>2. CASE UNCHANGED vars
      <3>1. UNCHANGED <<silent, servers, index, updated, mu, getter, answer, fetching, round>>
        BY <2>2 DEF vars, registryVars, discoveryVars
      <3>2. DiscoveryTypeOK' /\ MutexInv'
        BY <3>1 DEF DiscoveryInv, DiscoveryTypeOK, MutexInv, Fetches, At
      <3>3. AnswerInv' /\ ListInv'
        BY <3>1 DEF DiscoveryInv, AnswerInv, ListInv, At, Fresh
      <3>4. QED BY <2>1, <3>2, <3>3 DEF DiscoveryInv
    <2>3. CASE UNCHANGED discoveryVars /\ (Crash \/ Restart \/ \E s \in Servers : ServerStep(s))
      BY <2>1, <2>3, RegistryKeepsDiscovery DEF RegistryInv
    <2>4. ASSUME NEW g \in Getters, Call(g) \/ GetterStep(g) PROVE DiscoveryInv'
      BY <2>4, GetterKeepsDiscovery
    <2>5. CASE Tick
      <3>1. RegistryTypeOK
        BY DEF RegistryInv
      <3>2. QED BY <2>1, <2>5, <3>1, TickKeepsDiscovery
    <2>6. QED BY <2>1, <2>2, <2>3, <2>4, <2>5 DEF Next
  <1>2. QED BY RegistryInitInv, DiscoveryInitInv, <1>1, PTL DEF Spec, Init

\* Every variable of registry and discovery keeps its type, and a choice leaves the
\* index within the list it chose from (Discovery.go:71-72).  The index that a new
\* discovery draws, and one that outlives a longer list, may be beyond its end.
THEOREM DiscoveryTypeCorrect ==
    Spec => []TypeOK /\ [][index' # index => index' \in 0..Len(servers) - 1]_vars
  <1>1. RegistryInv /\ DiscoveryInv => TypeOK
    BY DEF RegistryInv, DiscoveryInv, TypeOK
  <1>2. DiscoveryInv /\ [Next]_vars => [index' # index => index' \in 0..Len(servers) - 1]_vars
    <2> SUFFICES ASSUME DiscoveryInv, [Next]_vars, index' # index
                 PROVE  index' \in 0..Len(servers) - 1
      OBVIOUS
    <2>1. servers \in Seq(Servers) /\ index \in Nat
      BY DiscoveryAssumption DEF DiscoveryInv, DiscoveryTypeOK
    <2>2. PICK g \in Getters : ChooseRobin(g)
      BY DEF Next, vars, discoveryVars, Call, GetterStep, RefreshCached, RefreshFetch, FetchAnswered,
             FetchReturns, FetchFails, ChooseAny, Tick
    <2>3. servers # <<>> /\ index' = (index + 1) % Len(servers)
      BY <2>2 DEF ChooseRobin, NextIndex
    <2>4. Len(servers) \in Nat \ {0}
      BY <2>1, <2>3
    <2>5. QED BY <2>1, <2>3, <2>4
  <1>3. QED BY DiscoveryInvariant, <1>1, <1>2, PTL DEF Spec

\* What Refresh leaves in the list was heard of within the three timeouts
\* (discovery_registry.go:53-74), although the mutex is released before use.
THEOREM RefreshBoundsStaleness ==
    ASSUME Timeout # 0
    PROVE  Spec => RefreshedIsRecent
  <1>1. RegistryInv /\ DiscoveryInv /\ [Next]_vars
        => [\A g \in Getters : At(g, "choose")' /\ ~At(g, "choose") => HeardOf']_vars
    <2> SUFFICES ASSUME RegistryInv, DiscoveryInv, Next, NEW g \in Getters,
                        At(g, "choose")', ~At(g, "choose")
                 PROVE  HeardOf'
      OBVIOUS
    <2> USE RegistryAssumption, DiscoveryAssumption
        DEF RegistryAssumption, DiscoveryAssumption, DiscoveryInv, DiscoveryTypeOK, At, Go
    <2>1. ASSUME NEW h \in Getters, Call(h) \/ GetterStep(h)
          PROVE  RefreshCached(g) \/ FetchReturns(g)
      BY <2>1 DEF Call, GetterStep, RefreshCached, RefreshFetch, FetchAnswered, FetchReturns,
                  FetchFails, ChooseAny, ChooseRobin
    <2>2. CASE RefreshCached(g)
      <3>1. UNCHANGED <<servers, silent>> /\ Fresh
        BY <2>2 DEF RefreshCached, registryVars
      <3>2. \A i \in DOMAIN servers :
              silent[servers[i]] <= (Timeout - 1) + MaxFetch + (UpdateTimeout - 1)
        <4> SUFFICES ASSUME NEW i \in DOMAIN servers
                     PROVE  silent[servers[i]] <= (Timeout - 1) + MaxFetch + (UpdateTimeout - 1)
          OBVIOUS
        <4>1. silent[servers[i]] <= Timeout - 1 + MaxFetch + updated
          BY <3>1 DEF ListInv
        <4>2. silent[servers[i]] \in Nat
          BY DEF RegistryInv, RegistryTypeOK
        <4>3. updated \in Nat /\ updated <= UpdateTimeout - 1
          BY <3>1 DEF Fresh
        <4>4. QED BY ONLY <4>1, <4>2, <4>3, RegistryAssumption, DiscoveryAssumption
                  DEF RegistryAssumption, DiscoveryAssumption
      <3>3. QED BY <3>1, <3>2 DEF HeardOf, ToSet
    <2>3. CASE FetchReturns(g)
      <3>1. servers' = answer /\ silent' = silent
        BY <2>3 DEF FetchReturns, registryVars
      <3>2. \A i \in DOMAIN answer :
              silent[answer[i]] <= (Timeout - 1) + MaxFetch + (UpdateTimeout - 1)
        <4> SUFFICES ASSUME NEW i \in DOMAIN answer
                     PROVE  silent[answer[i]] <= (Timeout - 1) + MaxFetch + (UpdateTimeout - 1)
          OBVIOUS
        <4>1. silent[answer[i]] <= Timeout - 1 + fetching
          BY <2>3 DEF AnswerInv, FetchReturns
        <4>2. silent[answer[i]] \in Nat
          BY DEF RegistryInv, RegistryTypeOK
        <4>3. fetching \in 0..MaxFetch
          OBVIOUS
        <4>4. QED BY ONLY <4>1, <4>2, <4>3, RegistryAssumption, DiscoveryAssumption
                  DEF RegistryAssumption, DiscoveryAssumption
      <3>3. QED BY <3>1, <3>2 DEF HeardOf, ToSet
    <2>4. CASE UNCHANGED getter
      BY <2>4
    <2>5. QED BY <2>1, <2>2, <2>3, <2>4 DEF Next, Tick, discoveryVars
  <1>2. QED BY DiscoveryInvariant, <1>1, PTL DEF Spec, RefreshedIsRecent

-----------------------------------------------------------------------------
(* The round robin.  Both lists are sorted, and the servers that had their   *)
(* turn are those at the positions from some start up to the one whose turn  *)
(* it is, around the end of the list.                                        *)
Sorted(q) == \A i, j \in 1..Len(q) : i < j => Order[q[i]] < Order[q[j]]
Position == index % Len(servers)
Arc(start, end, n) ==
    {i \in 0..n - 1 : \/ start <= i /\ i < end
                      \/ end < start /\ (start <= i \/ i < end)}
Turns(start) == {servers[i + 1] : i \in Arc(start, Position, Len(servers))}
TurnInv ==
    /\ Sorted(servers) /\ Sorted(answer)
    /\ servers = <<>> => round = {}
    /\ servers # <<>> => \E start \in 0..Len(servers) - 1 : round = Turns(start)

\* The place of a server in a sorted list is the number of those not after it,
\* so that a set of servers has one sorted list.
NotAfter(q, i) == {s \in ToSet(q) : Order[s] <= Order[q[i]]}
LEMMA PlaceInSorted ==
    ASSUME NEW q \in Seq(Servers), Sorted(q), NEW i \in 1..Len(q)
    PROVE  Cardinality(NotAfter(q, i)) = i
  <1> USE DiscoveryAssumption
  <1>1. \A j \in 1..Len(q) : q[j] \in Servers /\ Order[q[j]] \in Nat
    BY DEF DiscoveryAssumption
  <1>2. \A j, k \in 1..Len(q) : j < k => Order[q[j]] < Order[q[k]]
    BY DEF Sorted
  <1> DEFINE f == [j \in 1..i |-> q[j]]
  <1>3. NotAfter(q, i) = {q[j] : j \in 1..i}
    <2>1. ToSet(q) = {q[j] : j \in 1..Len(q)}
      BY DEF ToSet
    <2>2. ASSUME NEW j \in 1..Len(q)
          PROVE  Order[q[j]] <= Order[q[i]] <=> j <= i
      <3>1. Order[q[j]] \in Nat /\ Order[q[i]] \in Nat /\ j \in Int /\ i \in Int
        BY <1>1
      <3>2. (j < i => Order[q[j]] < Order[q[i]]) /\ (i < j => Order[q[i]] < Order[q[j]])
        BY <1>2
      <3>3. QED BY ONLY <3>1, <3>2
    <2>3. QED BY <2>1, <2>2 DEF NotAfter
  <1>4. f \in Bijection(1..i, NotAfter(q, i))
    <2>1. ASSUME NEW j \in 1..i, NEW k \in 1..i, f[j] = f[k] PROVE j = k
      <3>1. j \in 1..Len(q) /\ k \in 1..Len(q) /\ q[j] = q[k]
        BY <2>1
      <3>2. Order[q[j]] \in Nat /\ Order[q[j]] = Order[q[k]] /\ j \in Int /\ k \in Int
        BY <1>1, <3>1
      <3>3. (j < k => Order[q[j]] < Order[q[k]]) /\ (k < j => Order[q[k]] < Order[q[j]])
        BY <1>2, <3>1
      <3>4. QED BY ONLY <3>2, <3>3
    <2>2. f \in [1..i -> NotAfter(q, i)] /\ \A s \in NotAfter(q, i) : \E j \in 1..i : f[j] = s
      BY <1>3
    <2> HIDE DEF f
    <2>3. f \in Injection(1..i, NotAfter(q, i))
      BY <2>1, <2>2 DEF Injection, IsInjective
    <2>4. f \in Surjection(1..i, NotAfter(q, i))
      BY <2>2 DEF Surjection
    <2>5. QED BY <2>3, <2>4 DEF Bijection
  <1>5. ExistsBijection(1..i, NotAfter(q, i))
    BY <1>4 DEF ExistsBijection
  <1>6. QED BY <1>5, FS_CountingElements

LEMMA SortedListIsOne ==
    ASSUME NEW q \in Seq(Servers), NEW r \in Seq(Servers), Sorted(q), Sorted(r),
           ToSet(q) = ToSet(r)
    PROVE  q = r
  <1>1. ASSUME NEW i \in 1..Len(q), NEW j \in 1..Len(r), q[i] = r[j] PROVE i = j
    <2>1. NotAfter(q, i) = NotAfter(r, j)
      BY <1>1 DEF NotAfter
    <2>2. QED BY <2>1, PlaceInSorted
  <1>s. ToSet(q) = {q[i] : i \in 1..Len(q)} /\ ToSet(r) = {r[j] : j \in 1..Len(r)}
    BY DEF ToSet
  <1>2. \A i \in 1..Len(q) : \E j \in 1..Len(r) : q[i] = r[j]
    BY <1>s
  <1>3. \A j \in 1..Len(r) : \E i \in 1..Len(q) : q[i] = r[j]
    BY <1>s
  <1>4. \A i \in 1..Len(q) : i \in 1..Len(r) /\ q[i] = r[i]
    BY <1>1, <1>2
  <1>5. \A j \in 1..Len(r) : j \in 1..Len(q)
    BY <1>1, <1>3
  <1>6. Len(q) = Len(r)
    BY <1>4, <1>5
  <1>7. QED BY <1>4, <1>6

\* What one step does to the position.
LEMMA NextPosition ==
    ASSUME NEW n \in Nat, n > 0, index \in Nat
    PROVE  /\ index % n \in 0..n - 1
           /\ NextIndex(n) % n = IF (index % n) + 1 < n THEN (index % n) + 1 ELSE 0
  <1> DEFINE turn == index \div n
             place == index % n
  <1>1. /\ turn \in Int /\ place \in 0..n - 1 /\ place = index - n * turn
        /\ n * turn \in Int
    BY SMT
  <1>2. turn >= 0
    BY SMT
  <1>3. (index + 1) % n \in 0..n - 1
    BY SMT
  <1>4. NextIndex(n) % n = (index + 1) % n
    BY <1>3 DEF NextIndex
  <1> HIDE DEF turn, place
  <1>5. CASE place + 1 < n
    <2>1. index + 1 = n * turn + (place + 1) /\ place + 1 \in 0..n - 1 /\ turn \in Nat
      BY <1>1, <1>2, <1>5
    <2>2. (n * turn + (place + 1)) % n = place + 1
      BY ONLY <2>1, n \in Nat, n > 0, SMT
    <2>3. QED BY <1>1, <1>4, <1>5, <2>1, <2>2 DEF place
  <1>6. CASE ~(place + 1 < n)
    <2>1. place + 1 = n
      BY <1>1, <1>6
    <2>2. index + 1 = n * turn + n /\ turn \in Nat
      BY <1>1, <1>2, <2>1
    <2>3. n * (turn + 1) = n * turn + n
      BY <2>2, SMT
    <2>4. index + 1 = n * (turn + 1) + 0
      BY <2>2, <2>3
    <2>5. (n * (turn + 1) + 0) % n = 0
      BY <2>2, SMT
    <2>6. QED BY <1>1, <1>4, <1>6, <2>4, <2>5 DEF place
  <1>7. QED BY <1>5, <1>6

\* The servers that had their turn, and the one whose turn it is, are all of them
\* or those before the next position.
LEMMA NextArc ==
    ASSUME NEW n \in Nat, NEW start \in 0..n - 1, NEW p \in 0..n - 1,
           NEW q, q = IF p + 1 < n THEN p + 1 ELSE 0
    PROVE  /\ p \notin Arc(start, p, n)
           /\ \/ Arc(start, p, n) \cup {p} = 0..n - 1
              \/ Arc(start, p, n) \cup {p} = Arc(start, q, n)
  <1>1. p \notin Arc(start, p, n)
    BY DEF Arc
  <1>2. CASE p + 1 = start \/ (start = 0 /\ p + 1 = n)
    <2>1. Arc(start, p, n) \cup {p} = 0..n - 1
      BY <1>2 DEF Arc
    <2>2. QED BY <1>1, <2>1
  <1>3. CASE ~(p + 1 = start \/ (start = 0 /\ p + 1 = n))
    <2>1. CASE p + 1 < n
      <3>1. q = p + 1
        BY <2>1
      <3>2. Arc(start, p, n) \cup {p} = Arc(start, q, n)
        BY <1>3, <2>1, <3>1 DEF Arc
      <3>3. QED BY <1>1, <3>2
    <2>2. CASE ~(p + 1 < n)
      <3>1. q = 0 /\ p = n - 1 /\ start > 0
        BY <1>3, <2>2
      <3>2. Arc(start, p, n) \cup {p} = Arc(start, q, n)
        BY <1>3, <3>1 DEF Arc
      <3>3. QED BY <1>1, <3>2
    <2>3. QED BY <2>1, <2>2
  <1>4. QED BY <1>2, <1>3

\* The round robin goes on from where it is.
LEMMA RobinTurn ==
    ASSUME DiscoveryTypeOK, TurnInv, NEW g \in Getters, ChooseRobin(g)
    PROVE  TurnInv' /\ Chosen \notin round
  <1> USE DiscoveryAssumption DEF DiscoveryAssumption
  <1> DEFINE n == Len(servers)
             p == Position
  <1>1. /\ servers # <<>> /\ servers \in Seq(Servers) /\ UNCHANGED <<servers, answer>>
        /\ Chosen = servers[p + 1] /\ index' = NextIndex(n)
        /\ round' = IF round \cup {Chosen} = ToSet(servers) THEN {} ELSE round \cup {Chosen}
    BY DEF ChooseRobin, DiscoveryTypeOK, Position, Chosen
  <1>2. n \in Nat /\ n > 0 /\ index \in Nat
    BY <1>1 DEF DiscoveryTypeOK
  <1>3. p \in 0..n - 1 /\ Position' = IF p + 1 < n THEN p + 1 ELSE 0
    BY <1>1, <1>2, NextPosition DEF Position
  <1>4. PICK start \in 0..n - 1 : round = Turns(start)
    BY <1>1 DEF TurnInv
  <1> DEFINE had == Arc(start, p, n)
  <1>5. round = {servers[i + 1] : i \in had} /\ had \subseteq 0..n - 1
    BY <1>4 DEF Turns, Arc
  <1>6. /\ p \notin had
        /\ had \cup {p} = 0..n - 1 \/ had \cup {p} = Arc(start, Position', n)
    BY <1>2, <1>3, NextArc
  <1> HIDE DEF n, p, had
  <1>7. \A i, j \in 0..n - 1 : servers[i + 1] = servers[j + 1] => i = j
    <2> SUFFICES ASSUME NEW i \in 0..n - 1, NEW j \in 0..n - 1,
                        servers[i + 1] = servers[j + 1], i # j
                 PROVE  FALSE
      OBVIOUS
    <2>1. /\ i + 1 \in 1..Len(servers) /\ j + 1 \in 1..Len(servers)
          /\ i + 1 < j + 1 \/ j + 1 < i + 1
      BY <1>2 DEF n
    <2>2. Order[servers[i + 1]] \in Nat
      BY <1>1, <2>1
    <2>3. QED BY <2>1, <2>2 DEF TurnInv, Sorted
  <1>8. Chosen \notin round
    BY <1>1, <1>3, <1>5, <1>6, <1>7
  <1>9. round \cup {Chosen} = {servers[i + 1] : i \in had \cup {p}}
    BY <1>1, <1>5
  <1>10. ToSet(servers) = {servers[i + 1] : i \in 0..n - 1}
    <2>1. ToSet(servers) = {servers[i] : i \in 1..Len(servers)}
      BY <1>1 DEF ToSet
    <2>2. ASSUME NEW i \in 1..Len(servers) PROVE \E j \in 0..n - 1 : j + 1 = i
      <3>1. i - 1 \in 0..n - 1 /\ (i - 1) + 1 = i
        BY <1>2 DEF n
      <3>2. QED BY <3>1
    <2>3. \A j \in 0..n - 1 : j + 1 \in 1..Len(servers)
      BY <1>2 DEF n
    <2>4. QED BY <2>1, <2>2, <2>3
  <1>11. \E q \in 0..n - 1 : round' = {servers[i + 1] : i \in Arc(q, Position', n)}
    <2>1. CASE round' = {}
      <3>1. Arc(Position', Position', n) = {} /\ Position' \in 0..n - 1
        BY <1>2, <1>3 DEF Arc
      <3>2. QED BY <2>1, <3>1
    <2>2. CASE round' # {}
      <3>1. round' = round \cup {Chosen} /\ round \cup {Chosen} # ToSet(servers)
        BY <1>1, <2>2
      <3>2. had \cup {p} = Arc(start, Position', n)
        BY <1>6, <1>9, <1>10, <3>1
      <3>3. QED BY <1>4, <1>9, <3>1, <3>2
    <2>3. QED BY <2>1, <2>2
  <1>12. TurnInv'
    <2>1. PICK q \in 0..n - 1 : round' = {servers[i + 1] : i \in Arc(q, Position', n)}
      BY <1>11
    <2>2. q \in 0..Len(servers') - 1 /\ round' = Turns(q)'
      BY <1>1, <2>1 DEF Turns, n
    <2>3. Sorted(servers)' /\ Sorted(answer)' /\ servers' # <<>>
      BY <1>1 DEF TurnInv, Sorted
    <2>4. QED BY <2>2, <2>3 DEF TurnInv
  <1>13. QED BY <1>8, <1>12

\* A refresh keeps the turns, if the set of servers is the same.
LEMMA RefreshTurn ==
    ASSUME DiscoveryTypeOK, TurnInv, NEW g \in Getters, FetchReturns(g)
    PROVE  TurnInv'
  <1> USE DiscoveryAssumption DEF DiscoveryAssumption
  <1>1. /\ servers' = answer /\ answer' = <<>> /\ index' = index
        /\ round' = IF ToSet(answer) = ToSet(servers) THEN round ELSE {}
    BY DEF FetchReturns
  <1>2. Sorted(servers)' /\ Sorted(answer)'
    BY <1>1 DEF TurnInv, Sorted
  <1>3. CASE ToSet(answer) = ToSet(servers)
    <2>1. answer = servers
      BY <1>3, SortedListIsOne DEF TurnInv, DiscoveryTypeOK
    <2>2. QED BY <1>1, <1>2, <1>3, <2>1 DEF TurnInv, Turns, Position
  <1>4. CASE ToSet(answer) # ToSet(servers)
    <2>1. round' = {}
      BY <1>1, <1>4
    <2>2. ASSUME servers' # <<>> PROVE \E start \in 0..Len(servers') - 1 : Turns(start)' = {}
      <3>1. Len(servers') \in Nat /\ Len(servers') > 0 /\ index \in Nat
        BY <1>1, <2>2 DEF DiscoveryTypeOK
      <3>2. PICK start \in 0..Len(servers') - 1 : start = Position'
        BY <1>1, <3>1, NextPosition DEF Position
      <3>3. Arc(start, Position', Len(servers')) = {}
        BY <3>1, <3>2 DEF Arc
      <3>4. Turns(start)' = {}
        BY <3>3 DEF Turns
      <3>5. QED BY <3>2, <3>4
    <2>3. QED BY <1>2, <2>1, <2>2 DEF TurnInv
  <1>5. QED BY <1>3, <1>4

LEMMA TurnStep ==
    ASSUME DiscoveryTypeOK, TurnInv, [Next]_vars
    PROVE  TurnInv' /\ (index' # index => Chosen \notin round)
  <1>1. CASE UNCHANGED <<servers, answer, index, round>>
    BY <1>1 DEF TurnInv, Turns, Position, Sorted
  <1>2. CASE (\E s \in Servers : ServerStep(s) /\ UNCHANGED discoveryVars)
             \/ ((Crash \/ Restart) /\ UNCHANGED discoveryVars) \/ Tick \/ UNCHANGED vars
    BY <1>1, <1>2 DEF Tick, vars, discoveryVars
  <1>3. ASSUME NEW g \in Getters, Call(g) \/ GetterStep(g)
        PROVE  TurnInv' /\ (index' # index => Chosen \notin round)
    <2>1. CASE Call(g) \/ RefreshCached(g) \/ RefreshFetch(g) \/ ChooseAny(g)
      BY <1>1, <2>1 DEF Call, RefreshCached, RefreshFetch, ChooseAny
    <2>2. CASE FetchAnswered(g)
      <3>1. PICK S \in SUBSET Servers : answer' \in Answers(S)
        BY <2>2 DEF FetchAnswered, Alive, AliveUntil
      <3>2. Sorted(answer)'
        <4>1. /\ answer' \in [1..Cardinality(S) -> S]
              /\ \A i, j \in DOMAIN answer' : i < j => Order[answer'[i]] < Order[answer'[j]]
          BY <3>1 DEF Answers, Listings
        <4>2. Cardinality(S) \in Nat
          BY DiscoveryAssumption, FS_Subset, FS_CardinalityType DEF DiscoveryAssumption
        <4>3. QED BY <4>1, <4>2 DEF Sorted
      <3>3. UNCHANGED <<servers, index, round>>
        BY <2>2 DEF FetchAnswered
      <3>4. QED BY <3>2, <3>3 DEF TurnInv, Turns, Position, Sorted
    <2>3. CASE FetchReturns(g)
      <3>1. index' = index
        BY <2>3 DEF FetchReturns
      <3>2. QED BY <2>3, <3>1, RefreshTurn
    <2>4. CASE FetchFails(g)
      <3>1. answer' = <<>> /\ UNCHANGED <<servers, index, round>>
        BY <2>4 DEF FetchFails
      <3>2. QED BY <3>1 DEF TurnInv, Turns, Position, Sorted
    <2>5. CASE ChooseRobin(g)
      BY <2>5, RobinTurn
    <2>6. QED BY <1>3, <2>1, <2>2, <2>3, <2>4, <2>5 DEF GetterStep
  <1>4. QED BY <1>2, <1>3 DEF Next

\* The round robin chooses no server twice before it chose every other one, as
\* long as the list has the same servers: refreshes in between change neither the
\* order nor the index (Discovery.go:67-72, discovery_registry.go:68-72).
THEOREM RoundRobinIsFair == Spec => RoundRobinFair
  <1>1. Init => TurnInv
    BY DEF Init, DiscoveryInit, TurnInv, Sorted
  <1>2. RegistryInv /\ DiscoveryInv /\ TurnInv /\ [Next]_vars => TurnInv'
    BY TurnStep DEF DiscoveryInv
  <1>3. RegistryInv /\ DiscoveryInv /\ TurnInv /\ [Next]_vars
          => [index' # index => Chosen \notin round]_vars
    BY TurnStep DEF DiscoveryInv
  <1>4. QED BY DiscoveryInvariant, <1>1, <1>2, <1>3, PTL DEF Spec, RoundRobinFair
=============================================================================
