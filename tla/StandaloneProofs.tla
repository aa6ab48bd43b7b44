-------------------------- MODULE StandaloneProofs --------------------------
(***************************************************************************)
(* Proofs about the parts that run on their own: the two delay queues, the  *)
(* handover from HTTP to RPC, and the demo program, for any number of       *)
(* messages, runs, requests, servers and goroutines.                        *)
(***************************************************************************)
EXTENDS RedisQueue, RabbitQueue, HttpConnect, Demo, TLAPS,
        FiniteSetTheorems, SequenceTheorems

(* What is in the sorted set was made when its score says so, at least a     *)
(* second apart, and nothing was acted on before its time.                   *)
Made(z) == /\ z.member \in 0..Count - 1 /\ z.made \in Nat /\ z.made <= fractions
           /\ z.score = Unix(z.made)
SpacedInv ==
    /\ \A z \in zset : z.member < next /\ z.made + Fraction <= wakeup
    /\ \A y, z \in zset : y.member < z.member => y.made + Fraction <= z.made
    /\ \A y, z \in zset : y.member = z.member => y = z
AgeInv ==
    /\ fractions \in Nat /\ wakeup \in Nat /\ next \in 0..Count /\ failures \in Nat
    /\ consumed \in Seq(0..Count - 1) /\ youngest \in Nat
    /\ \A z \in zset : Made(z)
    /\ consumer \in {"act", "remove"} => Made(head)
    /\ SpacedInv /\ NeverEarly

(* The producer is in time, and makes its first message before the consumer  *)
(* starts.                                                                   *)
ProducerInv ==
    /\ next < Count => fractions <= wakeup + Late
    /\ next = 0 => wakeup < Fraction
    /\ consumer # "off" => next > 0 \/ Count = 0

(* While no call fails the set holds the messages that were made and not     *)
(* removed, and the consumer is at the first of them.                        *)
Oldest == IF consumer = "remove" THEN Len(consumed) - 1 ELSE Len(consumed)
QueuedInv ==
    /\ Oldest \in 0..next
    /\ \A z \in zset : z.member \in Oldest..next - 1
    /\ \A n \in Oldest..next - 1 : \E z \in zset : z.member = n
    /\ \A z \in zset : z.member = next - 1 => wakeup = z.made + Fraction
ConsumerInv ==
    /\ \A n \in 1..Len(consumed) : consumed[n] = n - 1
    /\ consumer = "off" => consumed = <<>>
    /\ consumer \in {"act", "remove"} => head \in zset /\ head.member = Oldest
    /\ Len(consumed) > 0 => next > Len(consumed) \/ next = Count
    /\ consumer = "ended" => Len(consumed) = Count
RedisInv == AgeInv /\ ProducerInv /\ (failures = 0 => QueuedInv /\ ConsumerInv)

(* A publisher that is still connected finds what it has declared, and so    *)
(* does a message in the normal queue; a message is in one place at most.    *)
BoundInv ==
    /\ "publisher" \in connected => publisher \in 2..9
    /\ "publisher" \in connected /\ publisher \in 7..9 => "normal_binding" \in declared
    /\ "publisher" \in connected /\ publisher \in 8..9 => "dead_binding" \in declared
    /\ normal # {} => "dead_binding" \in declared
Somewhere == normal \cup dead \cup received
OnceInv ==
    /\ publisher < Over => running > 0
    /\ \A m \in Messages : acted[m] = 0 \/ (acted[m] = 1 /\ m \notin Somewhere)
    /\ normal \cap dead = {} /\ normal \cap received = {} /\ dead \cap received = {}
    /\ \A m \in Messages : m > running \/ (m = running /\ publisher < 9) =>
           m \notin Somewhere /\ acted[m] = 0
RabbitInv == RabbitTypeOK /\ BoundInv /\ OnceInv /\ dropped = {}

(* Until both ends speak RPC there is one message at most, in one place.     *)
HttpInv ==
    /\ HttpTypeOK /\ lost = {}
    /\ client = "writes" =>
         serves = "http" /\ toServer = <<>> /\ httpBuffer = <<>> /\ toClient = <<>>
    /\ client = "reads" /\ serves = "http" =>
         /\ toClient = <<>>
         /\ \/ Len(toServer) = 1 /\ httpBuffer = <<>>
            \/ toServer = <<>> /\ Len(httpBuffer) = 1
    /\ client = "reads" /\ serves # "http" =>
         /\ toServer = <<>> /\ httpBuffer = <<>> /\ Len(toClient) = 1
         /\ serves = (IF toClient[1] = "200_Connected" THEN "option" ELSE "refused")
    /\ client = "option" =>
         serves = "option" /\ toServer = <<>> /\ httpBuffer = <<>> /\ toClient = <<>>
    /\ client = "failed" =>
         serves = "refused" /\ toServer = <<>> /\ httpBuffer = <<>> /\ toClient = <<>>
    /\ client = "rpc" => serves \in {"option", "rpc"} /\ httpBuffer = <<>>

(* main waits until the registry serves, and then until every server is      *)
(* known there: the counter is the number of those that are not.             *)
Unknown == {s \in Backends : server[s] < 5}
Started == main \notin {"starts", "waits_for_registry", "waits_for_servers"}
StartupInv ==
    /\ main = "starts" => registry = 0
    /\ main \in {"starts", "waits_for_registry"} => \A s \in Backends : server[s] = 0
    /\ main = "waits_for_registry" => registry > 0 /\ wg = (IF registry < 4 THEN 1 ELSE 0)
    /\ main \notin {"starts", "waits_for_registry"} => registry > 3
    /\ main = "waits_for_servers" => wg = Cardinality(Unknown)
    /\ Started => Unknown = {}
    /\ \A s \in Backends : server[s] > 3 => s \in known
(* While call runs: a goroutine waits for one server at most, a request that  *)
(* is not answered is waited for, and a connection breaks only by a request    *)
(* that was read ahead.  Broadcast begins with connections of its own.         *)
CallsInv ==
    /\ \A g \in Goroutines :
          /\ job[g] \in {"call", "none"}
          /\ g \notin asked => awaits[g] = {}
          /\ \A s, t \in awaits[g] : s = t
    /\ \A s \in Backends :
          /\ \A r \in inFlight[s] : job[r[1]] = r[2] /\ s \in awaits[r[1]]
          /\ conn[s] = "broken" => readAhead
PhaseInv ==
    /\ ~Started => /\ \A g \in Goroutines : job[g] = "none" /\ awaits[g] = {}
                   /\ \A s \in Backends : conn[s] = "none" /\ inFlight[s] = {}
    /\ main = "waits_for_calls" => CallsInv
    /\ main \in {"waits_for_broadcasts", "ended"} => \A g \in Goroutines : job[g] # "call"
    /\ failed # {} => readAhead
DemoInv == DemoTypeOK /\ StartupInv /\ PhaseInv

-----------------------------------------------------------------------------
(* The delay queue on redis.                                                *)

\* A time is its second and the fractions that are cut off.
LEMMA UnixIsWhole ==
    ASSUME NEW a \in Int
    PROVE  \E r \in 0..Fraction - 1 : Unix(a) \in Int /\ a = Fraction * Unix(a) + r
  <1> USE RedisAssumption DEF Unix
  <1>1. Unix(a) \in Int /\ Fraction * Unix(a) \in Int
    OBVIOUS
  <1>2. Fraction * Unix(a) <= a
    OBVIOUS
  <1>3. a < Fraction * Unix(a) + Fraction
    OBVIOUS
  <1> HIDE DEF Unix
  <1>4. a - Fraction * Unix(a) \in 0..Fraction - 1
    BY <1>1, <1>2, <1>3
  <1>5. QED BY <1>1, <1>4

\* Seconds are in the order of the times, and a whole second makes a difference.
LEMMA UnixOrder ==
    ASSUME NEW a \in Int, NEW b \in Int
    PROVE  /\ Unix(a) \in Int
           /\ Unix(a) < Unix(b) => a < b
           /\ a + Fraction <= b => Unix(a) < Unix(b)
  <1> USE RedisAssumption
  <1>1. PICK r \in 0..Fraction - 1 : Unix(a) \in Int /\ a = Fraction * Unix(a) + r
    BY UnixIsWhole
  <1>2. PICK t \in 0..Fraction - 1 : Unix(b) \in Int /\ b = Fraction * Unix(b) + t
    BY UnixIsWhole
  <1>3. ASSUME NEW m \in Int, NEW n \in Int, m < n PROVE Fraction * m + Fraction <= Fraction * n
    <2>1. n - m - 1 \in Nat /\ Fraction * (n - m - 1) >= 0
      BY <1>3
    <2>2. Fraction * n = Fraction * m + Fraction + Fraction * (n - m - 1)
      BY <1>3
    <2>3. QED BY <2>1, <2>2
  <1>4. ASSUME Unix(a) < Unix(b) PROVE a < b
    <2>1. Fraction * Unix(a) + Fraction <= Fraction * Unix(b)
      BY <1>1, <1>2, <1>3, <1>4
    <2>2. QED BY <1>1, <1>2, <2>1
  <1>5. ASSUME a + Fraction <= b, ~(Unix(a) < Unix(b)) PROVE FALSE
    <2>1. CASE Unix(a) = Unix(b)
      BY <1>1, <1>2, <1>5, <2>1
    <2>2. CASE Unix(b) < Unix(a)
      <3>1. Fraction * Unix(b) + Fraction <= Fraction * Unix(a)
        BY <1>1, <1>2, <1>3, <2>2
      <3>2. QED BY <1>1, <1>2, <1>5, <3>1
    <2>3. QED BY <1>1, <1>2, <1>5, <2>1, <2>2
  <1>6. QED BY <1>1, <1>4, <1>5

\* A head that is due was made more than Delay seconds ago.
LEMMA DueIsOld ==
    ASSUME fractions \in Nat, Made(head), Due(head)
    PROVE  Delay * Fraction \in Nat /\ fractions - head.made > Delay * Fraction
  <1>1. Delay * Fraction \in Nat
    BY RedisAssumption
  <1>2. Unix(head.made) < Unix(fractions - Delay * Fraction)
    BY DEF Made, Due
  <1>3. head.made \in Int /\ fractions - Delay * Fraction \in Int
    BY <1>1 DEF Made
  <1>4. head.made < fractions - Delay * Fraction
    BY <1>2, <1>3, UnixOrder
  <1>5. QED BY <1>1, <1>3, <1>4

\* What the set holds has a first member, whatever was lost of it.
LEMMA FirstMember ==
    ASSUME NEW S, S # {}, \A z \in S : z.member \in Nat
    PROVE  \E z \in S : \A y \in S : z.member <= y.member
  <1> DEFINE T == {z.member : z \in S}
  <1>1. T \subseteq Nat /\ T # {}
    OBVIOUS
  <1>2. PICK n \in T : \A m \in T : ~(<<m, n>> \in OpToRel(<, Nat))
    BY <1>1, NatLessThanWellFounded, WFMin
  <1>3. OpToRel(<, Nat) = {pair \in Nat \X Nat : pair[1] < pair[2]}
    BY Zenon DEF OpToRel
  <1> HIDE DEF T
  <1>4. ASSUME NEW m \in T PROVE n <= m
    <2>1. m \in Nat /\ n \in Nat /\ <<m, n>> \notin {pair \in Nat \X Nat : pair[1] < pair[2]}
      BY <1>1, <1>2, <1>3, Zenon
    <2>2. QED BY <2>1
  <1>5. QED BY <1>2, <1>4 DEF T

\* ZRange answers a member of the set: no other is before it.
LEMMA FirstInSet ==
    ASSUME AgeInv, zset # {}
    PROVE  \E z \in zset : \A y \in zset : Before(z, y)
  <1> USE RedisAssumption
  <1>1. PICK z \in zset : \A y \in zset : z.member <= y.member
    BY FirstMember DEF AgeInv, Made
  <1>2. ASSUME NEW y \in zset PROVE Before(z, y)
    <2>1. CASE z.member < y.member
      <3>1. /\ z.made \in Int /\ y.made \in Int /\ z.made + Fraction <= y.made
            /\ z.score = Unix(z.made) /\ y.score = Unix(y.made)
        BY <2>1 DEF AgeInv, SpacedInv, Made
      <3>2. QED BY <3>1, UnixOrder DEF Before
    <2>2. CASE z.member = y.member
      <3>1. z = y /\ z.score = Unix(z.made) /\ z.made \in Int /\ z.member \in Int
        BY <2>2 DEF AgeInv, SpacedInv, Made
      <3>2. QED BY <3>1, UnixOrder DEF Before
    <2>3. QED BY <1>1, <2>1, <2>2 DEF AgeInv, Made
  <1>3. QED BY <1>1, <1>2

\* The times of the initial state are whole.
LEMMA RedisAgeInit == RedisInit => AgeInv
  <1> SUFFICES ASSUME RedisInit PROVE AgeInv
    OBVIOUS
  <1> USE RedisAssumption DEF RedisInit
  <1>1. (Count + Delay + 2) * Fraction = Delay * Fraction + (Count + 2) * Fraction
    OBVIOUS
  <1>2. (Count + 2) * Fraction \in Nat /\ Delay * Fraction \in Nat /\ Count * Late \in Nat
    OBVIOUS
  <1>3. EndOfTime \in Nat /\ EndOfTime >= Delay * Fraction
    BY <1>1, <1>2 DEF EndOfTime
  <1>4. <<>> \in Seq(0..Count - 1)
    OBVIOUS
  <1>5. QED BY <1>3, <1>4 DEF AgeInv, SpacedInv, NeverEarly

LEMMA RedisAgeStep == AgeInv /\ [RedisNext]_redisVars => AgeInv'
  <1> SUFFICES ASSUME AgeInv, [RedisNext]_redisVars PROVE AgeInv'
    OBVIOUS
  <1> USE RedisAssumption
  <1>1. CASE ZAdd
    <2> DEFINE made == [member |-> next, score |-> Unix(fractions), made |-> fractions]
    <2>1. /\ next < Count /\ fractions >= wakeup /\ next' = next + 1
          /\ wakeup' = fractions + Fraction
          /\ UNCHANGED <<fractions, consumer, head, consumed, youngest>>
          /\ failures' = failures \/ failures' = failures + 1
          /\ zset' \subseteq zset \cup {made}
      BY <1>1 DEF ZAdd, Calls
    <2>2. /\ made.member = next /\ made.score = Unix(fractions) /\ made.made = fractions
      OBVIOUS
    <2> HIDE DEF made
    <2>3. /\ \A z \in zset' : Made(z)'
          /\ consumer' \in {"act", "remove"} => Made(head)'
      BY <2>1, <2>2 DEF AgeInv, Made
    <2>4. /\ \A z \in zset : z.member < next /\ z.made + Fraction <= fractions
          /\ \A z \in zset : z.member \in Int /\ z.made \in Int
      BY <2>1 DEF AgeInv, SpacedInv, Made
    <2>5. SpacedInv'
      <3>1. \A z \in zset' : z.member < next' /\ z.made + Fraction <= wakeup'
        BY <2>1, <2>2, <2>4 DEF AgeInv
      <3>2. ASSUME NEW y \in zset', NEW z \in zset'
            PROVE  /\ y.member < z.member => y.made + Fraction <= z.made
                   /\ y.member = z.member => y = z
        <4>1. CASE y \in zset /\ z \in zset
          BY <4>1 DEF AgeInv, SpacedInv
        <4>2. CASE y \in zset /\ z = made
          BY <4>2, <2>1, <2>2, <2>4 DEF AgeInv
        <4>3. CASE y = made /\ z \in zset
          BY <4>3, <2>1, <2>2, <2>4 DEF AgeInv
        <4>4. CASE y = made /\ z = made
          BY <4>4, <2>2 DEF AgeInv
        <4>5. QED BY <2>1, <4>1, <4>2, <4>3, <4>4
      <3>3. QED BY <3>1, <3>2 DEF SpacedInv
    <2>6. QED BY <2>1, <2>3, <2>5 DEF AgeInv, NeverEarly
  <1>2. CASE StartConsumer
    BY <1>2 DEF StartConsumer, AgeInv, SpacedInv, Made, NeverEarly
  <1>3. CASE ZRange
    <2>1. /\ zset # {} /\ head' = CHOOSE z \in zset : \A y \in zset : Before(z, y)
          /\ UNCHANGED <<zset, fractions, next, wakeup, consumed, youngest, failures>>
      BY <1>3 DEF ZRange
    <2>2. head' \in zset
      BY <2>1, FirstInSet
    <2>3. QED BY <2>1, <2>2 DEF AgeInv, SpacedInv, Made, NeverEarly
  <1>4. CASE ZRangeBreaks
    BY <1>4 DEF ZRangeBreaks, AgeInv, SpacedInv, Made, NeverEarly
  <1>5. CASE Act
    <2>1. /\ consumer = "act" /\ Made(head)
          /\ UNCHANGED <<zset, fractions, next, wakeup, failures>>
      BY <1>5 DEF Act, AgeInv
    <2>2. CASE Due(head)
      <3>1. /\ consumed' = Append(consumed, head.member) /\ UNCHANGED head
            /\ youngest' = IF fractions - head.made < youngest
                           THEN fractions - head.made ELSE youngest
        BY <1>5, <2>2 DEF Act
      <3>2. Delay * Fraction \in Nat /\ fractions - head.made > Delay * Fraction
        BY <2>1, <2>2, DueIsOld DEF AgeInv
      <3>3. /\ head.made \in Nat /\ head.made <= fractions /\ head.member \in 0..Count - 1
            /\ fractions \in Nat /\ youngest \in Nat /\ youngest >= Delay * Fraction
        BY <2>1 DEF AgeInv, Made, NeverEarly
      <3>4. youngest' \in Nat /\ youngest' >= Delay * Fraction
        BY <3>1, <3>2, <3>3
      <3>5. QED BY <2>1, <3>1, <3>3, <3>4 DEF AgeInv, SpacedInv, Made, NeverEarly
    <2>3. CASE ~Due(head)
      BY <1>5, <2>1, <2>3 DEF Act, AgeInv, SpacedInv, Made, NeverEarly
    <2>4. QED BY <2>2, <2>3
  <1>6. CASE ZRem
    <2>1. /\ zset' \subseteq zset /\ consumer' = "range"
          /\ failures' = failures \/ failures' = failures + 1
          /\ UNCHANGED <<fractions, next, wakeup, consumed, youngest>>
      BY <1>6 DEF ZRem, Calls, WithoutMember
    <2>2. QED BY <2>1 DEF AgeInv, SpacedInv, Made, NeverEarly
  <1>7. CASE TimeGoesOn
    BY <1>7 DEF TimeGoesOn, AgeInv, SpacedInv, Made, NeverEarly
  <1>8. CASE UNCHANGED redisVars
    BY <1>8 DEF redisVars, AgeInv, SpacedInv, Made, NeverEarly
  <1>9. QED
    BY <1>1, <1>2, <1>3, <1>4, <1>5, <1>6, <1>7, <1>8 DEF RedisNext, Consumer

\* A message is acted on when it is Delay seconds old, whichever calls to redis
\* fail, whenever the consumer starts, and although both times are cut.
THEOREM RedisNeverEarly == RedisSpec => []NeverEarly
  <1>1. AgeInv => NeverEarly
    BY DEF AgeInv
  <1>2. QED BY RedisAgeInit, RedisAgeStep, <1>1, PTL DEF RedisSpec

\* The producer keeps ahead of a consumer that starts late enough.
LEMMA RedisProducerStep ==
    ASSUME AgeInv, ProducerInv, [RedisNext]_redisVars, Start >= Fraction + Late
    PROVE  ProducerInv'
  <1> USE RedisAssumption
  <1>1. CASE ZAdd
    BY <1>1 DEF ZAdd, AgeInv, ProducerInv
  <1>2. CASE StartConsumer
    BY <1>2 DEF StartConsumer, AgeInv, ProducerInv
  <1>3. CASE TimeGoesOn
    BY <1>3 DEF TimeGoesOn, AgeInv, ProducerInv
  <1>4. CASE ZRange \/ ZRangeBreaks \/ Act \/ ZRem \/ UNCHANGED redisVars
    <2>1. /\ UNCHANGED <<fractions, next, wakeup>>
          /\ consumer' # "off" => consumer # "off"
      BY <1>4 DEF ZRange, ZRangeBreaks, Act, ZRem, redisVars
    <2>2. QED BY <2>1 DEF ProducerInv
  <1>5. QED
    BY <1>1, <1>2, <1>3, <1>4 DEF RedisNext, Consumer

\* What ZRange answers while no call fails.
LEMMA HeadIsOldest ==
    ASSUME AgeInv, QueuedInv, zset # {}, NEW z \in zset, \A y \in zset : Before(z, y)
    PROVE  z.member = Oldest
  <1>1. Oldest \in Int /\ next \in Int /\ z.member \in Oldest..next - 1
    BY DEF AgeInv, QueuedInv
  <1>2. PICK y \in zset : y.member = Oldest
    BY <1>1 DEF QueuedInv
  <1>3. SUFFICES ASSUME y.member < z.member PROVE FALSE
    BY <1>1, <1>2
  <1>4. /\ y.made \in Int /\ z.made \in Int /\ y.made + Fraction <= z.made
        /\ y.score = Unix(y.made) /\ z.score = Unix(z.made)
    BY <1>3 DEF AgeInv, SpacedInv, Made
  <1>5. Unix(y.made) \in Int /\ Unix(z.made) \in Int /\ Unix(y.made) < Unix(z.made)
    BY <1>4, UnixOrder
  <1>6. QED BY <1>4, <1>5 DEF Before

\* When the consumer acts on a message the producer has made the next one: it is
\* a second apart, and the head more than two seconds old.
LEMMA NotOutrun ==
    ASSUME AgeInv, ProducerInv, QueuedInv, Delay >= 2, Due(head), Made(head), head \in zset,
           head.member = next - 1
    PROVE  next = Count
  <1> USE RedisAssumption
  <1>1. SUFFICES ASSUME next < Count PROVE FALSE
    BY DEF AgeInv
  <1>2. /\ fractions \in Nat /\ head.made \in Nat /\ wakeup = head.made + Fraction
        /\ fractions <= wakeup + Late
    BY <1>1 DEF AgeInv, ProducerInv, QueuedInv, Made
  <1>3. Delay * Fraction \in Nat /\ fractions - head.made > Delay * Fraction
    BY <1>2, DueIsOld
  <1>4. Delay * Fraction >= 2 * Fraction
    <2>1. Delay - 2 \in Nat /\ (Delay - 2) * Fraction >= 0
      OBVIOUS
    <2>2. Delay * Fraction = (Delay - 2) * Fraction + 2 * Fraction
      OBVIOUS
    <2>3. QED BY <2>1, <2>2
  <1>5. QED BY <1>2, <1>3, <1>4

LEMMA RedisOrderStep ==
    ASSUME AgeInv, ProducerInv, QueuedInv, ConsumerInv, [RedisNext]_redisVars,
           failures' = failures, Delay >= 2
    PROVE  QueuedInv' /\ ConsumerInv'
  <1> USE RedisAssumption
  <1>t. /\ next \in 0..Count /\ Len(consumed) \in Nat /\ Oldest \in 0..next
        /\ consumed \in Seq(0..Count - 1)
        /\ \A z \in zset : z.member \in Int
        /\ fractions \in Nat /\ wakeup \in Nat
    BY DEF AgeInv, QueuedInv, Made
  <1>1. CASE ZAdd
    <2> DEFINE made == [member |-> next, score |-> Unix(fractions), made |-> fractions]
    <2>1. /\ next < Count /\ next' = next + 1 /\ wakeup' = fractions + Fraction
          /\ UNCHANGED <<fractions, consumer, head, consumed>>
          /\ zset' = zset \cup {made}
      BY <1>1, <1>t DEF ZAdd, Calls, AgeInv
    <2>2. /\ made.member = next /\ made.made = fractions
      OBVIOUS
    <2> HIDE DEF made
    <2>3. Oldest' = Oldest
      BY <2>1 DEF Oldest
    <2>4. \A n \in Oldest'..next' - 1 : n = next \/ n \in Oldest..next - 1
      BY <2>1, <2>3, <1>t
    <2>5. \A z \in zset : z.member \in Oldest..next - 1
      BY DEF QueuedInv
    <2>6. QueuedInv'
      BY <2>1, <2>2, <2>3, <2>4, <2>5, <1>t DEF QueuedInv
    <2>7. ConsumerInv'
      BY <2>1, <2>3, <1>t DEF ConsumerInv
    <2>8. QED BY <2>6, <2>7
  <1>2. CASE StartConsumer
    <2>1. /\ consumer = "off" /\ consumer' = "range"
          /\ UNCHANGED <<zset, next, wakeup, head, consumed>>
      BY <1>2 DEF StartConsumer
    <2>2. Oldest' = Oldest
      BY <2>1 DEF Oldest
    <2>3. QED BY <2>1, <2>2 DEF QueuedInv, ConsumerInv
  <1>3. CASE ZRange
    <2>1. /\ zset # {} /\ head' = CHOOSE z \in zset : \A y \in zset : Before(z, y)
          /\ consumer = "range" /\ consumer' = "act"
          /\ UNCHANGED <<zset, next, wakeup, consumed>>
      BY <1>3 DEF ZRange
    <2>2. Oldest' = Oldest
      BY <2>1 DEF Oldest
    <2>3. head' \in zset /\ \A y \in zset : Before(head', y)
      BY <2>1, FirstInSet
    <2>4. head'.member = Oldest
      <3>1. ASSUME NEW z, z \in zset, \A y \in zset : Before(z, y) PROVE z.member = Oldest
        BY <3>1, <2>1, HeadIsOldest
      <3>2. QED BY <2>3, <3>1
    <2>5. QED BY <2>1, <2>2, <2>3, <2>4 DEF QueuedInv, ConsumerInv
  <1>4. CASE ZRangeBreaks
    <2>1. /\ consumer = "range" /\ consumer' = "ended" /\ zset = {}
          /\ UNCHANGED <<zset, next, wakeup, head, consumed>>
      BY <1>4 DEF ZRangeBreaks, AgeInv
    <2>2. Oldest = Len(consumed) /\ Oldest' = Oldest
      BY <2>1 DEF Oldest
    <2>3. Oldest = next
      BY <2>1, <1>t DEF QueuedInv
    <2>4. Len(consumed) = Count
      BY <2>1, <2>2, <2>3, <1>t DEF ConsumerInv, ProducerInv
    <2>5. QED BY <2>1, <2>2, <2>4 DEF QueuedInv, ConsumerInv
  <1>5. CASE Act /\ Due(head)
    <2>1. /\ consumer = "act" /\ consumer' = "remove"
          /\ consumed' = Append(consumed, head.member)
          /\ UNCHANGED <<zset, next, wakeup, head>>
      BY <1>5 DEF Act
    <2>2. /\ head \in zset /\ head.member = Len(consumed) /\ Oldest = Len(consumed)
          /\ Made(head) /\ head.member \in 0..Count - 1
      BY <2>1 DEF ConsumerInv, Oldest, AgeInv, Made
    <2>3. /\ Len(consumed') = Len(consumed) + 1
          /\ \A n \in 1..Len(consumed') : consumed'[n] = n - 1
      BY <2>1, <2>2, <1>t DEF ConsumerInv
    <2>4. Oldest' = Oldest
      BY <2>1, <2>2, <2>3, <1>t DEF Oldest
    <2>5. head.member \in Oldest..next - 1
      BY <2>2 DEF QueuedInv
    <2>6. next > Len(consumed') \/ next = Count
      BY <1>5, <2>2, <2>3, <2>5, <1>t, NotOutrun
    <2>7. QueuedInv'
      BY <2>1, <2>4 DEF QueuedInv
    <2>8. ConsumerInv'
      BY <2>1, <2>2, <2>3, <2>4, <2>6 DEF ConsumerInv
    <2>9. QED BY <2>7, <2>8
  <1>6. CASE Act /\ ~Due(head)
    <2>1. /\ consumer = "act" /\ consumer' = "range"
          /\ UNCHANGED <<zset, next, wakeup, consumed>>
      BY <1>6 DEF Act
    <2>2. Oldest' = Oldest
      BY <2>1 DEF Oldest
    <2>3. QED BY <2>1, <2>2 DEF QueuedInv, ConsumerInv
  <1>7. CASE ZRem
    <2>1. /\ consumer = "remove" /\ consumer' = "range"
          /\ zset' = {y \in zset : y.member # head.member}
          /\ UNCHANGED <<next, wakeup, consumed>>
      BY <1>7 DEF ZRem, Calls, WithoutMember, AgeInv
    <2>2. head \in zset /\ head.member = Oldest /\ Oldest' = Oldest + 1
      BY <2>1, <1>t DEF Oldest, ConsumerInv
    <2>3. Oldest \in 0..next - 1 /\ \A z \in zset : z.member \in Oldest..next - 1
      BY <2>2 DEF QueuedInv
    <2>4. \A n \in Oldest'..next' - 1 : n \in Oldest..next - 1 /\ n # head.member
      BY <2>1, <2>2, <1>t
    <2>5. QueuedInv'
      BY <2>1, <2>2, <2>3, <2>4, <1>t DEF QueuedInv
    <2>6. QED BY <2>1, <2>5 DEF ConsumerInv
  <1>8. CASE TimeGoesOn \/ UNCHANGED redisVars
    <2>1. UNCHANGED <<zset, next, wakeup, consumer, head, consumed>>
      BY <1>8 DEF TimeGoesOn, redisVars
    <2>2. Oldest' = Oldest
      BY <2>1 DEF Oldest
    <2>3. QED BY <2>1, <2>2 DEF QueuedInv, ConsumerInv
  <1>9. QED
    BY <1>1, <1>2, <1>3, <1>4, <1>5, <1>6, <1>7, <1>8 DEF RedisNext, Consumer

\* Nothing is overtaken, lost or acted on twice, if the consumer starts after the
\* producer's first message at the latest, and acts on nothing younger than two
\* seconds: it sleeps for five, and waits for twenty (redis.go:31, 35-45).
THEOREM RedisAllConsumedInOrder ==
    ASSUME Start >= Fraction + Late, Delay >= 2
    PROVE  RedisSpec => []AllConsumedInOrder
  <1>1. RedisInit => RedisInv
    <2> SUFFICES ASSUME RedisInit PROVE RedisInv
      OBVIOUS
    <2>1. ProducerInv /\ QueuedInv /\ ConsumerInv
      BY RedisAssumption DEF RedisInit, ProducerInv, QueuedInv, ConsumerInv, Oldest
    <2>2. QED BY <2>1, RedisAgeInit DEF RedisInv
  <1>2. RedisInv /\ [RedisNext]_redisVars => RedisInv'
    <2> SUFFICES ASSUME RedisInv, [RedisNext]_redisVars PROVE RedisInv'
      OBVIOUS
    <2>1. failures' = failures \/ failures' = failures + 1
      BY DEF RedisNext, Consumer, ZAdd, StartConsumer, ZRange, ZRangeBreaks, Act, ZRem, TimeGoesOn,
             Calls, redisVars
    <2>2. failures' = 0 => failures = 0 /\ failures' = failures
      BY <2>1 DEF RedisInv, AgeInv
    <2>3. failures' = 0 => QueuedInv' /\ ConsumerInv'
      BY <2>2, RedisOrderStep DEF RedisInv
    <2>4. QED BY <2>3, RedisAgeStep, RedisProducerStep DEF RedisInv
  <1>3. RedisInv => AllConsumedInOrder
    <2> SUFFICES ASSUME RedisInv, consumer = "ended", failures = 0
                 PROVE  consumed = [n \in 1..Count |-> n - 1]
      BY DEF AllConsumedInOrder
    <2>1. /\ consumed \in Seq(0..Count - 1) /\ Len(consumed) = Count
          /\ \A n \in 1..Len(consumed) : consumed[n] = n - 1
      BY DEF RedisInv, AgeInv, ConsumerInv
    <2>2. QED BY <2>1
  <1>4. QED BY <1>1, <1>2, <1>3, PTL DEF RedisSpec

-----------------------------------------------------------------------------
(* The delay queue on RabbitMQ.                                             *)

LEMMA RabbitInitInv == RabbitInit => RabbitInv
  <1> SUFFICES ASSUME RabbitInit PROVE RabbitInv
    OBVIOUS
  <1> USE RabbitAssumption DEF RabbitInit
  <1>1. Over = 10
    BY DEF Over, Publish
  <1>2. RabbitTypeOK
    BY <1>1 DEF RabbitTypeOK
  <1>3. BoundInv
    BY DEF BoundInv
  <1>4. OnceInv
    BY <1>1 DEF OnceInv, Somewhere, Messages
  <1>5. QED BY <1>2, <1>3, <1>4 DEF RabbitInv

\* The order of the steps of Publish.
LEMMA PublishSteps ==
    ASSUME publisher \in 1..10
    PROVE  /\ At("dial") => publisher = 1
           /\ \A entity \in Declarations : At(entity) => publisher \in 2..5
           /\ At("normal_binding") => publisher = 6
           /\ At("dead_binding") => publisher = 7
           /\ At("publish") => publisher = 8
           /\ At("destroy") => publisher = 9
  <1>1. /\ Publish[1] = "dial" /\ Publish[2] = "dead_exchange" /\ Publish[3] = "normal_exchange"
        /\ Publish[4] = "dead_queue" /\ Publish[5] = "normal_queue"
        /\ Publish[6] = "normal_binding" /\ Publish[7] = "dead_binding"
        /\ Publish[8] = "publish" /\ Publish[9] = "destroy" /\ Over = 10
    BY DEF Publish, Over
  <1>2. ASSUME NEW step, At(step), step # "dead_exchange", step # "normal_exchange",
               step # "dead_queue", step # "normal_queue"
        PROVE  /\ step = "dial" => publisher = 1
               /\ step = "normal_binding" => publisher = 6
               /\ step = "dead_binding" => publisher = 7
               /\ step = "publish" => publisher = 8
               /\ step = "destroy" => publisher = 9
    <2>1. publisher \in 1..9 /\ Publish[publisher] = step
      BY <1>1, <1>2 DEF At
    <2>2. \/ publisher = 1 \/ publisher = 2 \/ publisher = 3 \/ publisher = 4 \/ publisher = 5
          \/ publisher = 6 \/ publisher = 7 \/ publisher = 8 \/ publisher = 9
      BY <2>1
    <2>3. QED BY <1>1, <1>2, <2>1, <2>2
  <1>3. ASSUME NEW step \in Declarations, At(step) PROVE publisher \in 2..5
    <2>1. publisher \in 1..9 /\ Publish[publisher] = step
      BY <1>1, <1>3 DEF At
    <2>2. publisher \in 2..5 \/ publisher = 1 \/ publisher = 6 \/ publisher = 7
          \/ publisher = 8 \/ publisher = 9
      BY <2>1
    <2>3. QED BY <1>1, <1>3, <2>1, <2>2 DEF Declarations
  <1>4. QED BY <1>2, <1>3

LEMMA RabbitStep == RabbitInv /\ [RabbitNext]_rabbitVars => RabbitInv'
  <1> SUFFICES ASSUME RabbitInv, [RabbitNext]_rabbitVars PROVE RabbitInv'
    OBVIOUS
  <1> USE RabbitAssumption
  <1>o. Over = 10
    BY DEF Over, Publish
  <1>t. publisher \in 1..10 /\ RabbitTypeOK /\ BoundInv /\ OnceInv /\ dropped = {}
    BY <1>o DEF RabbitInv, RabbitTypeOK
  <1>1. CASE Run
    <2>1. /\ publisher = 10 /\ running < MaxRuns /\ running' = running + 1 /\ publisher' = 1
          /\ consumes' = "dials"
          /\ UNCHANGED <<declared, normal, dead, dropped, restarts, connected, received, acted>>
      BY <1>1, <1>o, <1>t DEF Run, Stopped, brokerVars
    <2>2. RabbitTypeOK'
      BY <2>1, <1>o, <1>t DEF RabbitTypeOK
    <2>3. BoundInv'
      BY <2>1, <1>o, <1>t DEF BoundInv
    <2>4. OnceInv'
      BY <2>1, <1>o, <1>t DEF RabbitTypeOK, OnceInv, Somewhere, Messages
    <2>5. QED BY <2>1, <2>2, <2>3, <2>4, <1>t DEF RabbitInv
  <1>2. CASE Crash
    <2>1. /\ publisher' = 10 /\ consumes' = "over" /\ connected' = {} /\ received' = {}
          /\ UNCHANGED <<declared, normal, dead, dropped, restarts, running, acted>>
      BY <1>2, <1>o, <1>t DEF Crash, brokerVars
    <2>2. RabbitTypeOK'
      BY <2>1, <1>o, <1>t DEF RabbitTypeOK
    <2>3. BoundInv'
      BY <2>1, <1>o, <1>t DEF BoundInv
    <2>4. OnceInv'
      BY <2>1, <1>o, <1>t DEF RabbitTypeOK, OnceInv, Somewhere
    <2>5. QED BY <2>1, <2>2, <2>3, <2>4, <1>t DEF RabbitInv
  <1>3. CASE DialPublisher
    <2>1. /\ publisher = 1 /\ publisher' = 2 /\ connected' = connected \cup {"publisher"}
          /\ UNCHANGED <<declared, normal, dead, dropped, restarts, consumes, received, running,
                         acted>>
      BY <1>3, <1>o, <1>t, PublishSteps DEF DialPublisher, brokerVars
    <2>2. RabbitTypeOK'
      BY <2>1, <1>o, <1>t DEF RabbitTypeOK
    <2>3. BoundInv'
      BY <2>1, <1>o, <1>t DEF BoundInv
    <2>4. OnceInv'
      BY <2>1, <1>o, <1>t DEF RabbitTypeOK, OnceInv, Somewhere, Messages
    <2>5. QED BY <2>1, <2>2, <2>3, <2>4, <1>t DEF RabbitInv
  <1>4. ASSUME NEW entity \in Declarations \cup Bindings, Declare(entity) PROVE RabbitInv'
    <2>1. /\ publisher \in 2..7 /\ publisher' = publisher + 1 /\ declared \subseteq declared'
          /\ declared' \subseteq declared \cup {entity}
          /\ publisher = 6 => "normal_binding" \in declared'
          /\ publisher = 7 => "dead_binding" \in declared'
          /\ UNCHANGED <<normal, dead, dropped, restarts, consumes, connected, received, running,
                         acted>>
      BY <1>4, <1>o, <1>t, PublishSteps DEF Declare, Bindings
    <2>2. RabbitTypeOK'
      BY <2>1, <1>o, <1>t DEF RabbitTypeOK
    <2>3. BoundInv'
      BY <2>1, <1>o, <1>t DEF BoundInv
    <2>4. OnceInv'
      BY <2>1, <1>o, <1>t DEF RabbitTypeOK, OnceInv, Somewhere, Messages
    <2>5. QED BY <2>1, <2>2, <2>3, <2>4, <1>t DEF RabbitInv
  <1>5. CASE SendMessage
    <2>1. /\ publisher = 8 /\ publisher' = 9 /\ "publisher" \in connected
          /\ "normal_binding" \in declared /\ "dead_binding" \in declared
          /\ UNCHANGED <<declared, dead, restarts, consumes, connected, received, running, acted>>
      BY <1>5, <1>o, <1>t, PublishSteps DEF SendMessage, BoundInv
    <2>2. normal' = normal \cup {running} /\ UNCHANGED dropped
      BY <1>5, <2>1 DEF SendMessage
    <2>3. running \in Messages /\ running \notin Somewhere /\ acted[running] = 0
      BY <2>1, <1>o, <1>t DEF RabbitTypeOK, OnceInv, Messages
    <2>4. RabbitTypeOK'
      BY <2>1, <2>2, <2>3, <1>o, <1>t DEF RabbitTypeOK
    <2>5. BoundInv'
      BY <2>1, <2>2, <1>o, <1>t DEF BoundInv
    <2>6. OnceInv'
      BY <2>1, <2>2, <2>3, <1>o, <1>t DEF RabbitTypeOK, OnceInv, Somewhere, Messages
    <2>7. QED BY <2>2, <2>4, <2>5, <2>6, <1>t DEF RabbitInv
  <1>6. CASE GoesOn
    <2>1. /\ publisher \in 6..8 /\ publisher' = publisher + 1 /\ "publisher" \notin connected
          /\ UNCHANGED <<declared, normal, dead, dropped, restarts, consumes, connected, received,
                         running, acted>>
      BY <1>6, <1>o, <1>t, PublishSteps DEF GoesOn, Bindings, brokerVars
    <2>2. RabbitTypeOK'
      BY <2>1, <1>o, <1>t DEF RabbitTypeOK
    <2>3. BoundInv'
      BY <2>1, <1>o, <1>t DEF BoundInv
    <2>4. OnceInv'
      BY <2>1, <1>o, <1>t DEF RabbitTypeOK, OnceInv, Somewhere, Messages
    <2>5. QED BY <2>1, <2>2, <2>3, <2>4, <1>t DEF RabbitInv
  <1>7. CASE DestroyMq
    <2>1. /\ publisher = 9 /\ publisher' = 10 /\ connected' = connected \ {"publisher"}
          /\ UNCHANGED <<declared, normal, dead, dropped, restarts, consumes, received, running,
                         acted>>
      BY <1>7, <1>o, <1>t, PublishSteps DEF DestroyMq, brokerVars
    <2>2. RabbitTypeOK'
      BY <2>1, <1>o, <1>t DEF RabbitTypeOK
    <2>3. BoundInv'
      BY <2>1, <1>o, <1>t DEF BoundInv
    <2>4. OnceInv'
      BY <2>1, <1>o, <1>t DEF RabbitTypeOK, OnceInv, Somewhere, Messages
    <2>5. QED BY <2>1, <2>2, <2>3, <2>4, <1>t DEF RabbitInv
  <1>8. CASE ConsumerStarts
    <2>1. /\ consumes' \in {"declares", "consumes", "receives", "hangs"}
          /\ declared' = declared \/ declared' = declared \cup {"dead_queue"}
          /\ connected' = connected \/ connected' = connected \cup {"consumer"}
          /\ UNCHANGED <<normal, dead, dropped, restarts, publisher, received, running, acted>>
      BY <1>8, <1>o, <1>t DEF ConsumerStarts
    <2>2. RabbitTypeOK'
      BY <2>1, <1>o, <1>t DEF RabbitTypeOK, Declarations
    <2>3. BoundInv'
      BY <2>1, <1>o, <1>t DEF BoundInv
    <2>4. OnceInv'
      BY <2>1, <1>o, <1>t DEF RabbitTypeOK, OnceInv, Somewhere
    <2>5. QED BY <2>1, <2>2, <2>3, <2>4, <1>t DEF RabbitInv
  <1>9. CASE LoopEnds
    <2>1. /\ consumes' = "over"
          /\ UNCHANGED <<declared, normal, dead, dropped, restarts, publisher, connected, received,
                         running, acted>>
      BY <1>9, <1>o, <1>t DEF LoopEnds, brokerVars
    <2>2. RabbitTypeOK'
      BY <2>1, <1>o, <1>t DEF RabbitTypeOK
    <2>3. BoundInv'
      BY <2>1, <1>o, <1>t DEF BoundInv
    <2>4. OnceInv'
      BY <2>1, <1>o, <1>t DEF RabbitTypeOK, OnceInv, Somewhere
    <2>5. QED BY <2>1, <2>2, <2>3, <2>4, <1>t DEF RabbitInv
  <1>10. ASSUME NEW m \in Messages, Deliver(m) PROVE RabbitInv'
    <2>1. /\ m \in dead /\ dead' = dead \ {m} /\ received' = received \cup {m}
          /\ UNCHANGED <<declared, normal, dropped, restarts, publisher, consumes, connected,
                         running, acted>>
      BY <1>10, <1>o, <1>t DEF Deliver
    <2>2. RabbitTypeOK'
      BY <2>1, <1>o, <1>t DEF RabbitTypeOK
    <2>3. BoundInv'
      BY <2>1, <1>o, <1>t DEF BoundInv
    <2>4. OnceInv'
      BY <2>1, <1>o, <1>t DEF RabbitTypeOK, OnceInv, Somewhere
    <2>5. QED BY <2>1, <2>2, <2>3, <2>4, <1>t DEF RabbitInv
  <1>11. ASSUME NEW m \in Messages, Handle(m) PROVE RabbitInv'
    <2>1. /\ m \in received /\ received' = received \ {m} /\ acted' = [acted EXCEPT ![m] = @ + 1]
          /\ UNCHANGED <<declared, normal, dead, dropped, restarts, publisher, consumes, connected,
                         running>>
      BY <1>11, <1>o, <1>t DEF Handle, brokerVars
    <2>2. RabbitTypeOK'
      BY <2>1, <1>o, <1>t DEF RabbitTypeOK
    <2>3. BoundInv'
      BY <2>1, <1>o, <1>t DEF BoundInv
    <2>4. OnceInv'
      BY <2>1, <1>o, <1>t DEF RabbitTypeOK, OnceInv, Somewhere
    <2>5. QED BY <2>1, <2>2, <2>3, <2>4, <1>t DEF RabbitInv
  <1>12. ASSUME NEW m \in Messages, Expire(m) PROVE RabbitInv'
    <2>1. /\ m \in normal /\ normal' = normal \ {m} /\ dead' = dead \cup {m}
          /\ UNCHANGED <<declared, dropped, restarts, publisher, consumes, connected, received,
                         running, acted>>
      BY <1>12, <1>o, <1>t DEF Expire, BoundInv, programVars
    <2>2. RabbitTypeOK'
      BY <2>1, <1>o, <1>t DEF RabbitTypeOK
    <2>3. BoundInv'
      BY <2>1, <1>o, <1>t DEF BoundInv
    <2>4. OnceInv'
      BY <2>1, <1>o, <1>t DEF RabbitTypeOK, OnceInv, Somewhere
    <2>5. QED BY <2>1, <2>2, <2>3, <2>4, <1>t DEF RabbitInv
  <1>13. CASE Restart
    <2>1. /\ restarts < MaxRestarts /\ restarts' = restarts + 1
          /\ declared' = {} /\ normal' = {} /\ dead' = {} /\ connected' = {}
          /\ UNCHANGED <<dropped, publisher, consumes, received, running, acted>>
      BY <1>13, <1>o, <1>t DEF Restart
    <2>2. RabbitTypeOK'
      BY <2>1, <1>o, <1>t DEF RabbitTypeOK
    <2>3. BoundInv'
      BY <2>1, <1>o, <1>t DEF BoundInv
    <2>4. OnceInv'
      BY <2>1, <1>o, <1>t DEF RabbitTypeOK, OnceInv, Somewhere
    <2>5. QED BY <2>1, <2>2, <2>3, <2>4, <1>t DEF RabbitInv
  <1>14. CASE UNCHANGED rabbitVars
    <2>1. UNCHANGED <<declared, normal, dead, dropped, restarts, publisher, consumes, connected,
                      received, running, acted>>
      BY <1>14, <1>o, <1>t DEF rabbitVars, brokerVars, programVars
    <2>2. RabbitTypeOK'
      BY <2>1, <1>o, <1>t DEF RabbitTypeOK
    <2>3. BoundInv'
      BY <2>1, <1>o, <1>t DEF BoundInv
    <2>4. OnceInv'
      BY <2>1, <1>o, <1>t DEF RabbitTypeOK, OnceInv, Somewhere
    <2>5. QED BY <2>1, <2>2, <2>3, <2>4, <1>t DEF RabbitInv
  <1>15. QED
    BY <1>1, <1>2, <1>3, <1>4, <1>5, <1>6, <1>7, <1>8, <1>9, <1>10, <1>11, <1>12, <1>13, <1>14
       DEF RabbitNext

\* Whenever the broker restarts and the program crashes, a message that expires
\* finds the dead queue bound, and is acted on once at most.
THEOREM RabbitNotDroppedNorRepeated == RabbitSpec => []NotDroppedNorRepeated
  <1>1. RabbitInv => NotDroppedNorRepeated
    BY DEF RabbitInv, OnceInv, NotDroppedNorRepeated
  <1>2. QED BY RabbitInitInv, RabbitStep, <1>1, PTL DEF RabbitSpec

-----------------------------------------------------------------------------
(* The handover from HTTP to RPC.                                           *)

\* What a read takes of a stream that holds one item.
LEMMA OneItem ==
    ASSUME NEW S, NEW s \in Seq(S), Len(s) = 1, NEW n \in 1..Len(s)
    PROVE  /\ SubSeq(s, 1, n) = s /\ SubSeq(s, n + 1, Len(s)) = <<>> /\ Behind(s) = {}
           /\ Head(s) = s[1] /\ <<>> \o s = s
  <1>1. n = 1
    OBVIOUS
  <1>2. Behind(s) = {}
    BY DEF Behind
  <1>3. SubSeq(s, 1, 1) = s /\ SubSeq(s, 2, 1) = <<>>
    OBVIOUS
  <1>4. Head(s) = s[1]
    BY SMT
  <1>5. <<>> \o s = s
    BY ConcatEmptySeq
  <1>6. QED BY <1>1, <1>2, <1>3, <1>4, <1>5

LEMMA HttpStep == HttpInv /\ [HttpNext]_httpVars => HttpInv'
  <1> SUFFICES ASSUME HttpInv, [HttpNext]_httpVars PROVE HttpInv'
    OBVIOUS
  <1> USE HttpAssumption DEF HttpInv, HttpTypeOK
  <1>i. /\ HttpRequests \subseteq Items /\ "Option" \in Items /\ "request" \in Items
        /\ "reply" \in Items /\ Responses \subseteq Items
    BY DEF Items, HttpRequests, Responses, Frames
  <1>1. CASE WriteConnect
    <2>1. PICK request \in HttpRequests : toServer' = Append(toServer, request)
      BY <1>1 DEF WriteConnect
    <2>2. /\ client = "writes" /\ client' = "reads"
          /\ UNCHANGED <<toClient, sent, serves, httpBuffer, lost>>
      BY <1>1 DEF WriteConnect
    <2>3. toServer' \in Seq(Items) /\ Len(toServer') = 1
      BY <1>i, <2>1, <2>2
    <2>4. QED BY <2>2, <2>3
  <1>2. CASE ReadResponse
    <2>1. /\ client = "reads" /\ toClient # <<>> /\ toClient \in Seq(Items)
          /\ client' = (IF Head(toClient) = "200_Connected" THEN "option" ELSE "failed")
          /\ UNCHANGED <<toServer, sent, serves, httpBuffer>>
      BY <1>2 DEF ReadResponse
    <2>2. PICK n \in 1..Len(toClient) : /\ lost' = lost \cup Behind(SubSeq(toClient, 1, n))
                                       /\ toClient' = SubSeq(toClient, n + 1, Len(toClient))
      BY <1>2 DEF ReadResponse
    <2>3. serves # "http" /\ Len(toClient) = 1
      BY <2>1
    <2>4. toClient' = <<>> /\ lost' = {} /\ Head(toClient) = toClient[1]
      BY <2>1, <2>2, <2>3, OneItem
    <2>5. QED BY <2>1, <2>3, <2>4
  <1>3. CASE NewRpcClient
    BY <1>3, <1>i DEF NewRpcClient, Confirmed
  <1>4. CASE SendRequest
    BY <1>4, <1>i DEF SendRequest
  <1>5. CASE HttpReads
    <2>1. /\ serves = "http" /\ toServer # <<>> /\ toServer \in Seq(Items)
          /\ UNCHANGED <<toClient, client, sent, serves, lost>>
      BY <1>5 DEF HttpReads
    <2>2. PICK n \in 1..Len(toServer) :
              /\ httpBuffer' = httpBuffer \o SubSeq(toServer, 1, n)
              /\ toServer' = SubSeq(toServer, n + 1, Len(toServer))
      BY <1>5 DEF HttpReads
    <2>3. client = "reads" /\ Len(toServer) = 1 /\ httpBuffer = <<>>
      BY <2>1
    <2>4. httpBuffer' = toServer /\ toServer' = <<>>
      BY <2>1, <2>2, <2>3, OneItem
    <2>5. QED BY <2>1, <2>3, <2>4
  <1>6. CASE ServeHTTP
    <2>1. /\ serves = "http" /\ httpBuffer # <<>> /\ httpBuffer \in Seq(Items)
          /\ toClient' = Append(toClient, "200_Connected") /\ serves' = "option"
          /\ lost' = lost \cup Behind(httpBuffer) /\ httpBuffer' = <<>>
          /\ UNCHANGED <<toServer, client, sent>>
      BY <1>6 DEF ServeHTTP
    <2>2. client = "reads" /\ toServer = <<>> /\ Len(httpBuffer) = 1 /\ toClient = <<>>
      BY <2>1
    <2>3. lost' = {}
      BY <2>1, <2>2, OneItem
    <2>4. toClient' \in Seq(Items) /\ Len(toClient') = 1 /\ toClient'[1] = "200_Connected"
      BY <1>i, <2>1, <2>2 DEF Responses
    <2>5. QED BY <2>1, <2>2, <2>3, <2>4
  <1>7. CASE Refuse
    <2>1. /\ serves = "http" /\ httpBuffer # <<>> /\ httpBuffer \in Seq(Items)
          /\ serves' = "refused"
          /\ lost' = lost \cup Behind(httpBuffer) /\ httpBuffer' = <<>>
          /\ UNCHANGED <<toServer, client, sent>>
      BY <1>7 DEF Refuse
    <2>2. PICK status \in {"404", "405", "500"} : toClient' = Append(toClient, status)
      BY <1>7 DEF Refuse
    <2>3. client = "reads" /\ toServer = <<>> /\ Len(httpBuffer) = 1 /\ toClient = <<>>
      BY <2>1
    <2>4. lost' = {}
      BY <2>1, <2>3, OneItem
    <2>5. toClient' \in Seq(Items) /\ Len(toClient') = 1 /\ toClient'[1] # "200_Connected"
      BY <1>i, <2>2, <2>3 DEF Responses
    <2>6. QED BY <2>1, <2>3, <2>4, <2>5
  <1>8. CASE ServeRpc
    <2>1. /\ serves \in {"option", "rpc"} /\ toServer # <<>> /\ toServer \in Seq(Items)
          /\ toServer' = Tail(toServer) /\ serves' = "rpc"
          /\ toClient' = toClient \/ toClient' = Append(toClient, "reply")
          /\ UNCHANGED <<client, sent, httpBuffer, lost>>
      BY <1>8 DEF ServeRpc
    <2>2. client = "rpc"
      BY <2>1
    <2>3. toServer' \in Seq(Items) /\ toClient' \in Seq(Items)
      <3>1. toServer' \in Seq(Items)
        BY <2>1
      <3>2. toClient \in Seq(Items) /\ Append(toClient, "reply") \in Seq(Items)
        BY <1>i
      <3>3. QED BY <2>1, <3>1, <3>2
    <2>4. QED BY <2>1, <2>2, <2>3
  <1>9. CASE UNCHANGED httpVars
    BY <1>9 DEF httpVars
  <1>10. QED
    BY <1>1, <1>2, <1>3, <1>4, <1>5, <1>6, <1>7, <1>8, <1>9 DEF HttpNext

\* Neither end reads beyond what it wants of the other, however long the buffers,
\* whatever the server answers, and however many requests follow.
THEOREM HttpHandoverLosesNothing == HttpSpec => []HandoverLosesNothing
  <1>1. HttpInit => HttpInv
    BY HttpAssumption DEF HttpInit, HttpInv, HttpTypeOK
  <1>2. HttpInv => HandoverLosesNothing
    BY DEF HttpInv, HandoverLosesNothing
  <1>3. QED BY <1>1, HttpStep, <1>2, PTL DEF HttpSpec

-----------------------------------------------------------------------------
(* The demo program.                                                        *)

\* The steps of the goroutines, and what the counters of main start with.
LEMMA DemoSteps ==
    /\ Len(StartRegistry) = 4 /\ StartRegistry[1] # "done" /\ StartRegistry[2] # "done"
    /\ StartRegistry[3] = "done" /\ StartRegistry[4] # "done"
    /\ Len(StartServer) = 5 /\ StartServer[1] = "listen" /\ StartServer[2] = "register"
    /\ StartServer[3] = "heartbeat" /\ StartServer[4] = "done" /\ StartServer[5] = "accept"
  BY DEF StartRegistry, StartServer

\* The counter, when a server becomes known to main, and when none is left.
LEMMA UnknownCount ==
    /\ IsFiniteSet(Unknown) /\ Cardinality(Unknown) \in 0..Cardinality(Backends)
    /\ Cardinality(Backends) \in Nat
    /\ Cardinality(Unknown) = 0 => Unknown = {}
  <1>1. Unknown \in SUBSET Backends
    BY DEF Unknown
  <1>2. IsFiniteSet(Unknown) /\ Cardinality(Unknown) <= Cardinality(Backends)
    BY <1>1, DemoAssumption, FS_Subset
  <1>3. Cardinality(Unknown) \in Nat /\ Cardinality(Backends) \in Nat
    BY <1>2, DemoAssumption, FS_CardinalityType
  <1>4. Cardinality(Unknown) = 0 => Unknown = {}
    BY <1>2, FS_EmptySet
  <1>5. QED BY <1>2, <1>3, <1>4

LEMMA StartupStep ==
    ASSUME DemoTypeOK, StartupInv, [DemoNext]_demoVars
    PROVE  DemoTypeOK' /\ StartupInv'
  <1> USE DemoAssumption
  <1>t. /\ Cardinality(Backends) \in Nat /\ registry \in 0..5 /\ server \in [Backends -> 0..6]
        /\ wg \in 0..Cardinality(Backends) + 1
    <2>1. Len(StartRegistry) + 1 = 5 /\ Len(StartServer) + 1 = 6
      BY DemoSteps
    <2>2. QED BY <2>1, UnknownCount DEF DemoTypeOK
  <1>1. CASE MainStarts
    <2>1. /\ main = "starts" /\ wg' = 1 /\ registry' = 1 /\ main' = "waits_for_registry"
          /\ UNCHANGED <<server, known, jobVars>>
      BY <1>1 DEF MainStarts
    <2>2. DemoTypeOK'
      BY <2>1, <1>t, DemoSteps DEF DemoTypeOK, jobVars, connVars, callVars
    <2>3. StartupInv'
      BY <2>1, <1>t DEF StartupInv, Started
    <2>4. QED BY <2>2, <2>3
  <1>2. CASE MainStartsServers
    <2>1. /\ main = "waits_for_registry" /\ wg = 0 /\ wg' = Cardinality(Backends)
          /\ server' = [s \in Backends |-> 1] /\ main' = "waits_for_servers"
          /\ UNCHANGED <<registry, known, jobVars>>
      BY <1>2 DEF MainStartsServers
    <2>2. DemoTypeOK'
      BY <2>1, <1>t, DemoSteps DEF DemoTypeOK, jobVars, connVars, callVars
    <2>3. Unknown' = Backends /\ registry' > 3
      BY <2>1, <1>t DEF Unknown, StartupInv
    <2>4. StartupInv'
      BY <2>1, <2>3, <1>t DEF StartupInv, Started
    <2>5. QED BY <2>2, <2>4
  <1>3. CASE MainCalls \/ MainBroadcasts \/ MainReturns
    <2>1. /\ UNCHANGED <<wg, registry, server, known, asked, awaits>>
          /\ job' \in [Goroutines -> Jobs]
          /\ conn' \in [Backends -> {"none", "new", "up", "broken"}]
          /\ inFlight' \in [Backends -> SUBSET (Goroutines \X Jobs)]
          /\ readAhead' \in BOOLEAN /\ failed' \subseteq Goroutines
      BY <1>3 DEF MainCalls, MainBroadcasts, MainReturns, jobVars, connVars, callVars,
                  DemoTypeOK, Jobs
    <2>2. /\ (main = "waits_for_servers" /\ wg = 0) \/ Started
          /\ main' \in {"waits_for_calls", "waits_for_broadcasts", "ended"}
      BY <1>3 DEF MainCalls, MainBroadcasts, MainReturns, Started
    <2>3. DemoTypeOK'
      BY <2>1, <2>2, DemoSteps DEF DemoTypeOK
    <2>4. Unknown = {} /\ Unknown' = Unknown /\ main \notin {"starts", "waits_for_registry"}
      <3>1. CASE Started
        BY <2>1, <3>1 DEF StartupInv, Unknown, Started
      <3>2. CASE main = "waits_for_servers" /\ wg = 0
        <4>1. Cardinality(Unknown) = 0
          BY <3>2 DEF StartupInv
        <4>2. Unknown = {}
          BY <4>1, UnknownCount
        <4>3. QED BY <2>1, <3>2, <4>2 DEF Unknown
      <3>3. QED BY <2>2, <3>1, <3>2
    <2>5. StartupInv'
      BY <2>1, <2>2, <2>4, <1>t DEF StartupInv, Started
    <2>6. QED BY <2>3, <2>5
  <1>4. CASE RegistryStep
    <2>1. /\ registry \in 1..4 /\ registry' = registry + 1
          /\ wg' = (IF registry = 3 THEN wg - 1 ELSE wg)
          /\ UNCHANGED <<main, server, known, jobVars>>
      <3>1. registry \in 1..4
        BY <1>4, DemoSteps DEF RegistryStep
      <3>2. registry = 1 \/ registry = 2 \/ registry = 3 \/ registry = 4
        BY <3>1
      <3>3. (StartRegistry[registry] = "done") <=> registry = 3
        BY <3>2, DemoSteps
      <3>4. QED BY <1>4, <3>1, <3>3 DEF RegistryStep
    <2>2. registry = 3 => main = "waits_for_registry" /\ wg = 1
      BY <2>1, <1>t DEF StartupInv
    <2>3. DemoTypeOK'
      BY <2>1, <2>2, <1>t, DemoSteps DEF DemoTypeOK, jobVars, connVars, callVars
    <2>4. Unknown' = Unknown /\ Started' = Started
      BY <2>1 DEF Unknown, Started
    <2>5. StartupInv'
      BY <2>1, <2>2, <2>4, <1>t DEF StartupInv
    <2>6. QED BY <2>3, <2>5
  <1>5. ASSUME NEW s \in Backends, ServerStep(s) \/ Heartbeat(s)
        PROVE  DemoTypeOK' /\ StartupInv'
    <2>1. server[s] \in 1..5
      BY <1>5, DemoSteps DEF ServerStep, Heartbeat, ServerAt
    <2>2. server[s] = 1 \/ server[s] = 2 \/ server[s] = 3 \/ server[s] = 4 \/ server[s] = 5
      BY <2>1
    <2>3. /\ ServerAt(s, "heartbeat") <=> server[s] = 3
          /\ ServerAt(s, "done") <=> server[s] = 4
      BY <2>2, DemoSteps DEF ServerAt
    <2>4. main \notin {"starts", "waits_for_registry"} /\ registry > 3
      BY <2>1, <1>t DEF StartupInv
    <2>5. /\ server' = [server EXCEPT ![s] = @ + 1]
          /\ UNCHANGED <<main, registry, jobVars>>
          /\ wg' = (IF server[s] = 4 THEN wg - 1 ELSE wg)
      BY <1>5, <2>3 DEF ServerStep, Heartbeat
    <2>6. /\ known \subseteq known' /\ known' \subseteq Backends
          /\ server[s] = 3 => s \in known'
      <3>1. CASE ServerStep(s)
        BY <3>1, <2>3 DEF ServerStep, DemoTypeOK
      <3>2. CASE Heartbeat(s)
        <4>1. RegistryDid("listen") /\ RegistryDid("handle")
          BY <2>4, <1>t DEF RegistryDid, StartRegistry
        <4>2. QED BY <3>2, <4>1 DEF Heartbeat, DemoTypeOK
      <3>3. QED BY <1>5, <3>1, <3>2
    <2>7. Unknown' = IF server[s] = 4 THEN Unknown \ {s} ELSE Unknown
      BY <2>1, <2>5, <1>t DEF Unknown
    <2>8. server[s] = 4 => s \in Unknown /\ main = "waits_for_servers"
      BY <2>4, <1>t DEF Unknown, StartupInv, Started
    <2>9. main = "waits_for_servers" => wg' = Cardinality(Unknown')
      <3>1. s \in Unknown => Cardinality(Unknown \ {s}) = Cardinality(Unknown) - 1
        BY UnknownCount, FS_RemoveElement
      <3>2. QED BY <2>5, <2>7, <2>8, <3>1 DEF StartupInv
    <2>10. wg' \in 0..Cardinality(Backends) + 1
      <3>1. server[s] = 4 => Cardinality(Unknown \ {s}) \in Nat
        BY UnknownCount, FS_RemoveElement, FS_CardinalityType
      <3>2. QED BY <2>5, <2>7, <2>8, <2>9, <3>1, <1>t
    <2>11. DemoTypeOK'
      BY <2>1, <2>5, <2>6, <2>10, <1>t, DemoSteps DEF DemoTypeOK, jobVars, connVars, callVars
    <2>12. StartupInv'
      <3>1. Started' = Started
        BY <2>5 DEF Started
      <3>2. \A q \in Backends : server'[q] > 3 => q \in known'
        BY <2>1, <2>5, <2>6, <1>t DEF StartupInv
      <3>3. Started => Unknown' = {}
        BY <2>7 DEF StartupInv
      <3>4. QED BY <2>4, <2>5, <2>9, <3>1, <3>2, <3>3 DEF StartupInv
    <2>13. QED BY <2>11, <2>12
  <1>6. ASSUME \/ \E g \in Goroutines : Caller(g)
               \/ \E s \in Backends : Serve(s) \/ LateReplyBreaks(s)
        PROVE  DemoTypeOK' /\ StartupInv'
    <2>1. UNCHANGED <<main, wg, registry, server, known>>
      BY <1>6 DEF Caller, Ask, Finish, SleepTimesOut, Answered, Serve, ReadOption,
                  ConnectionEnds, LateReplyBreaks, startupVars
    <2>2. /\ asked' \subseteq Goroutines /\ job' \in [Goroutines -> Jobs]
          /\ readAhead' \in BOOLEAN /\ failed' \subseteq Goroutines
      BY <1>6 DEF Caller, Ask, Finish, SleepTimesOut, Answered, Serve, ReadOption, ConnectionEnds,
                  LateReplyBreaks, callVars, DemoTypeOK, Jobs
    <2> DEFINE Typed == /\ awaits' \in [Goroutines -> SUBSET Backends]
                        /\ conn' \in [Backends -> {"none", "new", "up", "broken"}]
                        /\ inFlight' \in [Backends -> SUBSET (Goroutines \X Jobs)]
    <2>3. Typed
      <3>1. ASSUME NEW g \in Goroutines, Ask(g) PROVE Typed
        <4>1. \A servers \in Targets(g) : servers \subseteq Backends
          BY DEF Targets, DemoTypeOK
        <4>2. CASE Targets(g) = {} /\ UNCHANGED <<awaits, conn, inFlight>>
          BY <4>2 DEF DemoTypeOK
        <4>3. ASSUME NEW servers \in Targets(g),
                     awaits' = [awaits EXCEPT ![g] = servers],
                     conn' = [s \in Backends |-> IF s \in servers /\ conn[s] = "none"
                                                 THEN "new" ELSE conn[s]],
                     inFlight' = [s \in Backends |-> IF s \in servers
                                    THEN inFlight[s] \cup {<<g, job[g]>>} ELSE inFlight[s]]
              PROVE Typed
          BY <4>1, <4>3 DEF DemoTypeOK
        <4>4. QED BY <3>1, <4>2, <4>3 DEF Ask
      <3>2. ASSUME NEW g \in Goroutines, Finish(g) \/ SleepTimesOut(g) PROVE Typed
        BY <3>2 DEF Finish, SleepTimesOut, connVars, DemoTypeOK
      <3>3. ASSUME NEW g \in Goroutines, NEW s \in Backends, Answered(g, s) PROVE Typed
        BY <3>3 DEF Answered, DemoTypeOK
      <3>4. ASSUME NEW s \in Backends, NEW read, ReadOption(s, read) PROVE Typed
        BY <3>4 DEF ReadOption, DemoTypeOK
      <3>5. ASSUME NEW s \in Backends, ConnectionEnds(s) \/ LateReplyBreaks(s) PROVE Typed
        BY <3>5 DEF ConnectionEnds, LateReplyBreaks, DemoTypeOK
      <3>6. QED BY <1>6, <3>1, <3>2, <3>3, <3>4, <3>5 DEF Caller, Serve
    <2>4. QED BY <2>1, <2>2, <2>3 DEF DemoTypeOK, StartupInv, Started, Unknown
  <1>7. CASE UNCHANGED demoVars
    BY <1>7 DEF demoVars, startupVars, jobVars, connVars, callVars, DemoTypeOK, StartupInv,
                Started, Unknown
  <1>8. QED
    BY <1>1, <1>2, <1>3, <1>4, <1>5, <1>6, <1>7 DEF DemoNext, Main, ServerGoroutine

\* A job finds every server known, with Foo registered.
LEMMA StartedFindsServers ==
    ASSUME DemoTypeOK, StartupInv, Started
    PROVE  /\ \A s \in Backends : s \in known /\ ServerDid(s, "register")
           /\ known # {}
  <1>1. server \in [Backends -> 0..6]
    <2>1. Len(StartServer) + 1 = 6
      BY DemoSteps
    <2>2. QED BY <2>1 DEF DemoTypeOK
  <1>2. ASSUME NEW s \in Backends PROVE s \in known /\ ServerDid(s, "register")
    <2>1. server[s] > 4 /\ s \in known
      BY <1>1 DEF StartupInv, Unknown
    <2>2. 2 \in 1..server[s] - 1
      BY <1>1, <2>1
    <2>3. QED BY <2>1, <2>2, DemoSteps DEF ServerDid
  <1>3. QED BY <1>2, DemoAssumption

\* The goroutines that ask and are answered keep the order of the calls.
LEMMA CallerPhase ==
    ASSUME DemoInv, NEW g \in Goroutines, Caller(g)
    PROVE  PhaseInv'
  <1> USE DEF DemoInv, PhaseInv, DemoTypeOK
  <1>1. UNCHANGED main /\ (Started' <=> Started)
    BY DEF Caller, Ask, Finish, SleepTimesOut, Answered, startupVars, Started
  <1>2. CASE Ask(g)
    <2>1. Started /\ Targets(g) # {} /\ UNCHANGED <<job, readAhead, failed>>
      <3>1. Started /\ job[g] # "none"
        BY <1>2 DEF Ask
      <3>2. PICK s \in known : TRUE
        BY <3>1, StartedFindsServers
      <3>3. {s} \in Targets(g) \/ known \in Targets(g)
        BY <3>2 DEF Targets
      <3>4. QED BY <1>2, <3>1, <3>3 DEF Ask
    <2>2. PICK servers \in Targets(g) :
             /\ awaits' = [awaits EXCEPT ![g] = servers]
             /\ conn' = [s \in Backends |-> IF s \in servers /\ conn[s] = "none"
                                            THEN "new" ELSE conn[s]]
             /\ inFlight' = [s \in Backends |-> IF s \in servers
                                THEN inFlight[s] \cup {<<g, job[g]>>} ELSE inFlight[s]]
      BY <1>2, <2>1 DEF Ask
    <2>3. ASSUME main = "waits_for_calls" PROVE CallsInv'
      <3>1. \A s, t \in servers : s = t
        BY <1>2, <2>3 DEF Targets, CallsInv, Ask
      <3>2. awaits[g] = {}
        BY <1>2, <2>3 DEF Ask, CallsInv
      <3>3. \A h \in Goroutines : \A s, t \in awaits'[h] : s = t
        BY <2>2, <2>3, <3>1 DEF CallsInv
      <3>4. ASSUME NEW s \in Backends, NEW r \in inFlight'[s]
            PROVE  job'[r[1]] = r[2] /\ s \in awaits'[r[1]]
        <4>1. CASE r \in inFlight[s]
          <5>1. job[r[1]] = r[2] /\ s \in awaits[r[1]] /\ r[1] \in Goroutines
            BY <2>3, <4>1 DEF CallsInv
          <5>2. QED BY <2>1, <2>2, <3>2, <5>1
        <4>2. CASE r = <<g, job[g]>> /\ s \in servers
          BY <2>1, <2>2, <4>2
        <4>3. QED BY <2>2, <3>4, <4>1, <4>2
      <3>5. \A s \in Backends : conn'[s] = "broken" => readAhead'
        BY <2>1, <2>2, <2>3 DEF CallsInv
      <3>6. \A h \in Goroutines :
               job'[h] \in {"call", "none"} /\ (h \notin asked' => awaits'[h] = {})
        BY <1>2, <2>1, <2>2, <2>3 DEF CallsInv, Ask
      <3>7. QED BY <3>3, <3>4, <3>5, <3>6 DEF CallsInv
    <2>4. QED BY <1>1, <2>1, <2>3
  <1>3. CASE Finish(g)
    <2>1. /\ job' = [job EXCEPT ![g] = IF @ = "sum" THEN "sleep" ELSE "none"]
          /\ UNCHANGED <<awaits, conn, inFlight, readAhead, failed>>
          /\ awaits[g] = {} /\ asked' = asked \ {g}
      BY <1>3 DEF Finish, connVars, callVars
    <2>2. ASSUME main = "waits_for_calls" PROVE CallsInv'
      <3>1. \A s \in Backends : \A r \in inFlight[s] : r[1] \in Goroutines /\ r[1] # g
        BY <2>1, <2>2 DEF CallsInv
      <3>2. QED BY <2>1, <2>2, <3>1 DEF CallsInv
    <2>3. QED BY <1>1, <2>1, <2>2 DEF Jobs
  <1>4. CASE SleepTimesOut(g)
    <2>1. /\ job[g] = "sleep" /\ UNCHANGED <<job, conn, inFlight, readAhead, failed>>
          /\ awaits' = [awaits EXCEPT ![g] = {}]
      BY <1>4 DEF SleepTimesOut, connVars, callVars
    <2>2. main # "waits_for_calls"
      BY <2>1 DEF CallsInv
    <2>3. QED BY <1>1, <2>1, <2>2
  <1>5. ASSUME NEW s \in Backends, Answered(g, s) PROVE PhaseInv'
    <2>1. /\ awaits' = [awaits EXCEPT ![g] = @ \ {s}]
          /\ inFlight' = [inFlight EXCEPT ![s] = @ \ {<<g, job[g]>>}]
          /\ UNCHANGED <<job, conn, readAhead, failed, asked>> /\ conn[s] = "up"
      BY <1>5 DEF Answered, callVars
    <2>2. ASSUME main = "waits_for_calls" PROVE CallsInv'
      <3>1. ASSUME NEW t \in Backends, NEW r \in inFlight'[t]
            PROVE  job'[r[1]] = r[2] /\ t \in awaits'[r[1]]
        <4>1. /\ r \in inFlight[t] /\ job[r[1]] = r[2] /\ t \in awaits[r[1]]
              /\ r[1] \in Goroutines /\ r = <<r[1], r[2]>>
          BY <2>1, <2>2, <3>1 DEF CallsInv
        <4>2. CASE r[1] = g /\ t = s
          BY <2>1, <3>1, <4>1, <4>2
        <4>3. QED BY <2>1, <4>1, <4>2
      <3>2. QED BY <2>1, <2>2, <3>1 DEF CallsInv
    <2>3. QED BY <1>1, <2>1, <2>2
  <1>6. QED BY <1>2, <1>3, <1>4, <1>5 DEF Caller

\* So do the connections: in call only an Option read with a request ends one.
LEMMA ConnectionPhase ==
    ASSUME DemoInv, NEW s \in Backends, Serve(s) \/ LateReplyBreaks(s)
    PROVE  PhaseInv'
  <1> USE DEF DemoInv, PhaseInv, DemoTypeOK
  <1>1. UNCHANGED <<main, job, asked>> /\ (Started' <=> Started)
    BY DEF Serve, ReadOption, ConnectionEnds, LateReplyBreaks, startupVars, Started
  <1>2. ASSUME NEW read, ReadOption(s, read) PROVE PhaseInv'
    <2>1. /\ inFlight' = [inFlight EXCEPT ![s] = @ \ read]
          /\ \/ conn' = [conn EXCEPT ![s] = "up"]
             \/ read # {} /\ conn' = [conn EXCEPT ![s] = "broken"]
          /\ readAhead' = (readAhead \/ (main = "waits_for_calls" /\ read # {}))
          /\ UNCHANGED <<awaits, failed>> /\ conn[s] = "new"
      BY <1>2 DEF ReadOption
    <2>2. ASSUME main = "waits_for_calls" PROVE CallsInv'
      <3>1. CallsInv
        BY <2>2
      <3>2. \A t \in Backends : inFlight'[t] \subseteq inFlight[t]
        BY <2>1
      <3>3. ASSUME NEW t \in Backends, conn'[t] = "broken" PROVE readAhead'
        <4>1. readAhead \/ read # {}
          BY <2>1, <3>1, <3>3 DEF CallsInv
        <4>2. QED BY ONLY <2>1, <2>2, <4>1
      <3>4. ASSUME NEW t \in Backends, NEW r \in inFlight'[t]
            PROVE  job'[r[1]] = r[2] /\ t \in awaits'[r[1]]
        <4>1. r \in inFlight[t]
          BY <3>2, <3>4
        <4>2. job[r[1]] = r[2] /\ t \in awaits[r[1]]
          BY <3>1, <4>1 DEF CallsInv
        <4>3. QED BY <1>1, <2>1, <4>2
      <3>5. \A g \in Goroutines : /\ job'[g] \in {"call", "none"}
                                  /\ g \notin asked' => awaits'[g] = {}
                                  /\ \A q, t \in awaits'[g] : q = t
        BY <1>1, <2>1, <3>1 DEF CallsInv
      <3>6. \A t \in Backends : /\ \A r \in inFlight'[t] : job'[r[1]] = r[2] /\ t \in awaits'[r[1]]
                                /\ conn'[t] = "broken" => readAhead'
        BY ONLY <3>3, <3>4
      <3>7. QED BY <3>5, <3>6 DEF CallsInv
    <2>3. QED BY <1>1, <2>1, <2>2
  <1>3. CASE ConnectionEnds(s)
    <2>1. /\ conn[s] = "broken" /\ conn' = [conn EXCEPT ![s] = "none"]
          /\ inFlight' = [inFlight EXCEPT ![s] = {}]
          /\ awaits' = [g \in Goroutines |-> IF s \in awaits[g] THEN {} ELSE awaits[g]]
          /\ failed' = failed \cup {g \in Goroutines : s \in awaits[g] /\ job[g] = "call"}
          /\ UNCHANGED readAhead
      BY <1>3 DEF ConnectionEnds
    <2>2. failed' # {} => readAhead'
      <3>1. ASSUME NEW g \in Goroutines, job[g] = "call" PROVE readAhead
        BY <2>1, <3>1 DEF CallsInv, Started
      <3>2. QED BY <2>1, <3>1
    <2>3. ASSUME main = "waits_for_calls" PROVE CallsInv'
      <3>1. ASSUME NEW t \in Backends, NEW r \in inFlight'[t]
            PROVE  job'[r[1]] = r[2] /\ t \in awaits'[r[1]]
        <4>1. /\ t # s /\ r \in inFlight[t] /\ job[r[1]] = r[2] /\ t \in awaits[r[1]]
              /\ r[1] \in Goroutines
          BY <2>1, <2>3, <3>1 DEF CallsInv
        <4>2. s \notin awaits[r[1]]
          BY <2>3, <4>1 DEF CallsInv
        <4>3. QED BY <1>1, <2>1, <4>1, <4>2
      <3>2. QED BY <1>1, <2>1, <2>3, <3>1 DEF CallsInv
    <2>4. QED BY <1>1, <2>1, <2>2, <2>3
  <1>4. CASE LateReplyBreaks(s)
    <2>1. /\ \E r \in inFlight[s] : job[r[1]] # r[2] \/ s \notin awaits[r[1]]
          /\ conn' = [conn EXCEPT ![s] = "broken"] /\ conn[s] = "up"
          /\ UNCHANGED <<awaits, inFlight, readAhead, failed>>
      BY <1>4 DEF LateReplyBreaks, callVars
    <2>2. main # "waits_for_calls"
      BY <2>1 DEF CallsInv
    <2>3. QED BY <1>1, <2>1, <2>2
  <1>5. QED BY <1>2, <1>3, <1>4 DEF Serve

LEMMA PhaseStep ==
    ASSUME DemoInv, [DemoNext]_demoVars
    PROVE  PhaseInv'
  <1> USE DEF DemoInv, PhaseInv
  <1>1. CASE MainStarts \/ MainStartsServers \/ RegistryStep \/ UNCHANGED demoVars
    BY <1>1 DEF MainStarts, MainStartsServers, RegistryStep, demoVars, startupVars, jobVars,
                connVars, callVars, Started, CallsInv
  <1>2. ASSUME NEW s \in Backends, ServerGoroutine(s) PROVE PhaseInv'
    BY <1>2 DEF ServerGoroutine, ServerStep, Heartbeat, jobVars, connVars, callVars, Started,
                CallsInv
  <1>3. CASE MainCalls
    <2>1. /\ main = "waits_for_servers" /\ main' = "waits_for_calls"
          /\ job' = [g \in Goroutines |-> "call"]
          /\ UNCHANGED <<asked, awaits, conn, inFlight, readAhead, failed>>
      BY <1>3 DEF MainCalls, connVars, callVars
    <2>2. CallsInv'
      BY <2>1 DEF CallsInv, Started
    <2>3. QED BY <2>1, <2>2 DEF Started
  <1>4. CASE MainBroadcasts
    BY <1>4 DEF MainBroadcasts, Started, CallsInv
  <1>5. CASE MainReturns
    BY <1>5 DEF MainReturns, jobVars, connVars, callVars, Started, CallsInv
  <1>6. QED
    BY <1>1, <1>2, <1>3, <1>4, <1>5, CallerPhase, ConnectionPhase DEF DemoNext, Main

\* For any number of servers and goroutines, and whatever their order: main waits
\* for the registry before it starts a server, and for the servers before it
\* calls, so that every job finds them all; and a Foo.Sum of call fails only by
\* a connection that broke because requests were read with the Option.
THEOREM DemoCallsReachServers == DemoSpec => []CallsReachServers
  <1>1. DemoInit => DemoInv
    <2> SUFFICES ASSUME DemoInit PROVE DemoInv
      OBVIOUS
    <2>1. DemoTypeOK
      <3>1. /\ Len(StartRegistry) + 1 = 5 /\ Len(StartServer) + 1 = 6
            /\ Cardinality(Backends) + 1 \in Nat
        BY DemoSteps, UnknownCount
      <3>2. /\ wg \in 0..Cardinality(Backends) + 1 /\ registry \in 0..Len(StartRegistry) + 1
            /\ server \in [Backends -> 0..Len(StartServer) + 1]
        BY <3>1 DEF DemoInit
      <3>3. /\ job \in [Goroutines -> Jobs] /\ awaits \in [Goroutines -> SUBSET Backends]
            /\ conn \in [Backends -> {"none", "new", "up", "broken"}]
            /\ inFlight \in [Backends -> SUBSET (Goroutines \X Jobs)]
        BY DEF DemoInit, Jobs
      <3>4. QED BY <3>2, <3>3 DEF DemoInit, DemoTypeOK
    <2>2. StartupInv
      BY DEF DemoInit, StartupInv, Started
    <2>3. PhaseInv
      BY DEF DemoInit, PhaseInv, Started
    <2>4. QED BY <2>1, <2>2, <2>3 DEF DemoInv
  <1>2. DemoInv /\ [DemoNext]_demoVars => DemoInv'
    <2> SUFFICES ASSUME DemoInv, [DemoNext]_demoVars PROVE DemoInv'
      OBVIOUS
    <2>1. DemoTypeOK' /\ StartupInv'
      BY StartupStep DEF DemoInv
    <2>2. QED BY <2>1, PhaseStep DEF DemoInv
  <1>3. DemoInv => CallsReachServers
    BY StartedFindsServers DEF DemoInv, PhaseInv, CallsReachServers
  <1>4. QED BY <1>1, <1>2, <1>3, PTL DEF DemoSpec
=============================================================================
