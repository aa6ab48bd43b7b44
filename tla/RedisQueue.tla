---------------------------- MODULE RedisQueue ----------------------------
(***************************************************************************)
(* delay_queue/redis/redis.go: a producer adds messages to a sorted set,    *)
(* scored by the second they are made in; a consumer polls the head of the  *)
(* set and acts on it once it is Delay seconds old.  The calls to redis can *)
(* fail; the errors of ZAdd and ZRem are dropped.                           *)
(***************************************************************************)
EXTENDS Integers, Sequences

CONSTANTS Count,       \* the messages that the producer makes, a second apart
          Start,       \* when the consumer starts, in fractions of a second
          Delay,       \* how old a message has to be, in seconds
          Fraction,    \* fractions in a second
          Late,        \* bound: how late the producer may wake, in fractions
          MaxFailures  \* bound: the calls to redis that fail

ASSUME RedisAssumption ==
    /\ Count \in Nat /\ Start \in Nat /\ Delay \in Nat /\ Fraction \in Nat \ {0}
    /\ Late \in 0..Fraction - 1 /\ MaxFailures \in Nat

VARIABLES zset,       \* delay_queue: [member, score], and when it was made (history)
          fractions,  \* the time, in fractions of a second
          next,       \* i of the producer, the message it makes next
          wakeup,     \* when it makes it
          consumer,   \* "off", "range", "act", "remove", "ended"
          head,       \* res[0], as ZRangeWithScores answered
          consumed,   \* what the consumer acted on, in its order (history)
          youngest,   \* the least age of a message it acted on (history)
          failures    \* the calls that failed

redisVars == <<zset, fractions, next, wakeup, consumer, head, consumed, youngest, failures>>

Unix(time) == time \div Fraction
Nothing == [member |-> Count, score |-> 0, made |-> 0]
\* bound: everything is old enough by then
EndOfTime == (Count + Delay + 2) * Fraction + Count * Late + Start

\* bound: more than the consumer has to act, with every failing ZRem repeated
MaxActs == Count + MaxFailures + 1

RedisTypeOK ==
    /\ \A z \in zset \cup {head} : z.member \in 0..Count /\ z.score \in Nat
    /\ fractions \in 0..EndOfTime /\ next \in 0..Count /\ wakeup \in Nat
    /\ consumer \in {"off", "range", "act", "remove", "ended"}
    /\ consumed \in Seq(0..Count - 1) /\ youngest \in Nat
    /\ failures \in 0..MaxFailures

RedisInit ==
    /\ zset = {} /\ fractions \in 0..Fraction - 1 /\ next = 0 /\ wakeup = fractions
    /\ consumer = "off" /\ head = Nothing /\ failures = 0
    /\ consumed = <<>> /\ youngest = EndOfTime

-----------------------------------------------------------------------------
\* A call to redis changes the set, or fails.
Calls(changed) ==
    \/ zset' = changed /\ UNCHANGED failures
    \/ failures < MaxFailures /\ failures' = failures + 1 /\ UNCHANGED zset

ZAdd ==
    /\ next < Count /\ fractions >= wakeup
    /\ Calls(zset \cup {[member |-> next, score |-> Unix(fractions), made |-> fractions]})
    /\ next' = next + 1 /\ wakeup' = fractions + Fraction
    /\ UNCHANGED <<fractions, consumer, head, consumed, youngest>>

StartConsumer ==
    /\ consumer = "off" /\ fractions >= Start
    /\ consumer' = "range"
    /\ UNCHANGED <<zset, fractions, next, wakeup, head, consumed, youngest, failures>>

\* The set is ordered by score, then by member.
Before(y, z) == y.score < z.score \/ (y.score = z.score /\ y.member <= z.member)

ZRange ==
    /\ consumer = "range" /\ zset # {}
    /\ head' = CHOOSE z \in zset : \A y \in zset : Before(z, y)
    /\ consumer' = "act"
    /\ UNCHANGED <<zset, fractions, next, wakeup, consumed, youngest, failures>>

\* The queue is empty, or the call failed: the consumer breaks out of its loop.
ZRangeBreaks ==
    /\ consumer = "range"
    /\ \/ zset = {} /\ UNCHANGED failures
       \/ failures < MaxFailures /\ failures' = failures + 1
    /\ consumer' = "ended"
    /\ UNCHANGED <<zset, fractions, next, wakeup, head, consumed, youngest>>

\* The head is old enough.  Faulty, for mutation: the second it was made in counts.
DueEarly(z) == z.score <= Unix(fractions - Delay * Fraction)
Due(z) == z.score < Unix(fractions - Delay * Fraction)

Act ==
    /\ consumer = "act" /\ Len(consumed) < MaxActs
    /\ IF Due(head)
       THEN /\ consumed' = Append(consumed, head.member)
            /\ youngest' = IF fractions - head.made < youngest THEN fractions - head.made ELSE youngest
            /\ consumer' = "remove" /\ UNCHANGED head
       ELSE /\ consumer' = "range" /\ head' = Nothing
            /\ UNCHANGED <<consumed, youngest>>
    /\ UNCHANGED <<zset, fractions, next, wakeup, failures>>

\* The set without the member.  Faulty, for mutation: without the second one that
\* ZRange answers, too.
WithoutSecond(z) == {y \in zset : y.member \notin {z.member, z.member + 1}}
WithoutMember(z) == {y \in zset : y.member # z.member}

ZRem ==
    /\ consumer = "remove"
    /\ Calls(WithoutMember(head))
    /\ consumer' = "range" /\ head' = Nothing
    /\ UNCHANGED <<fractions, next, wakeup, consumed, youngest>>

\* The producer is not late for its next message by more than Late.
TimeGoesOn ==
    /\ fractions < EndOfTime
    /\ next < Count => fractions < wakeup + Late
    /\ fractions' = fractions + 1
    /\ UNCHANGED <<zset, next, wakeup, consumer, head, consumed, youngest, failures>>

Consumer == StartConsumer \/ ZRange \/ ZRangeBreaks \/ Act \/ ZRem

RedisNext == ZAdd \/ Consumer \/ TimeGoesOn
RedisSpec == RedisInit /\ [][RedisNext]_redisVars

-----------------------------------------------------------------------------
\* No message is acted on before Delay seconds have passed since it was made,
\* although both times are cut to whole seconds (redis.go:26, 45).
NeverEarly == youngest >= Delay * Fraction

\* When both goroutines have ended and no call failed, every message was acted
\* on, once and in the order they were made: the consumer, which stops at an
\* empty queue, does not outrun the producer (redis.go:42-44).
AllConsumedInOrder ==
    (next = Count /\ consumer = "ended" /\ failures = 0) =>
        consumed = [n \in 1..Count |-> n - 1]
=============================================================================
