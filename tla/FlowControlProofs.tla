------------------------- MODULE FlowControlProofs -------------------------
(***************************************************************************)
(* Proofs about the two limiters, for every limit, capacity and rate: what  *)
(* the leaky bucket and the token bucket let through is bounded, and what   *)
(* the leaky bucket refuses costs the requests after it nothing.            *)
(***************************************************************************)
EXTENDS LeakyBucket, TokenBucket, TLAPS

(* Requests and the room that is left never exceed the bucket and what has   *)
(* flowed out by the last request; before the first one the bucket is empty. *)
CheckInv ==
    uses = "Check" =>
        /\ cur >= 0 /\ wakes = Awake
        /\ lastTime < 0 => passed = 0
        /\ passed * One + cur <= Water + (IF lastTime < 0 THEN 0 ELSE lastTime)

(* The room is what the last pass left and what has flowed out since.        *)
RoomInv ==
    /\ lastTime <= now
    /\ uses = "Check" => cur = Capped(leftOver + (lastTime - lastPass))

(* Each pass moves lasttime by PerReqTime at least, and a sleep ends then.   *)
TakeInv ==
    uses = "Take" =>
        /\ lastTime < 0 => passed = 0
        /\ passed # 0 => (passed - 1) * PerReqTime <= lastTime
        /\ wakes # Awake => wakes = lastTime + PerReqTime

LeakyInv == LeakyTypeOK /\ CheckInv /\ RoomInv /\ TakeInv

-----------------------------------------------------------------------------
\* The constants that NewLeckyBucket works out are numbers, a request fits into
\* the bucket, and so does the time it takes.
LEMMA LeakyConstants ==
    /\ One \in Nat /\ Water \in Nat /\ PerReqTime \in Nat
    /\ One <= Water /\ PerReqTime <= Water
    /\ PerReqTime <= One /\ Limit * PerReqTime = Second
  <1> USE LeakyAssumption
  <1>1. One \in Nat /\ Second <= One
    BY DEF One
  <1>2. Water \in Nat /\ One <= Water
    BY <1>1 DEF Water
  <1>3. PerReqTime \in Nat /\ PerReqTime <= Second
    BY DEF PerReqTime
  <1>4. Limit * PerReqTime = Second
    BY DEF PerReqTime
  <1>5. QED BY <1>1, <1>2, <1>3, <1>4

\* One more request is one more One, or one more PerReqTime.
LEMMA OneMoreRequest ==
    ASSUME NEW n \in Nat, NEW k \in Nat
    PROVE  (n + 1) * k = n * k + k /\ n * k \in Nat /\ ((n + 1) - 1) * k = (n - 1) * k + k
  OBVIOUS

\* A fresh bucket satisfies the invariant.
LEMMA LeakyInitInv == NewLeckyBucket => LeakyInv
  BY LeakyAssumption, LeakyConstants
  DEF NewLeckyBucket, LeakyInv, LeakyTypeOK, CheckInv, RoomInv, TakeInv, LongAgo, Awake,
      Capped

\* The room that Check finds is what the last pass left and what has flowed out
\* since, although the requests that were refused in between moved lasttime.
LEMMA RoomIsLeft ==
    ASSUME LeakyInv, uses = "Check"
    PROVE  Room = Capped(leftOver + (now - lastPass))
  BY LeakyAssumption, LeakyConstants
  DEF LeakyInv, LeakyTypeOK, RoomInv, LongAgo, Room, Used, Capped

\* Check keeps the invariant.
LEMMA CheckKeepsInv == LeakyInv /\ Check => LeakyInv'
  <1> SUFFICES ASSUME LeakyInv, Check PROVE LeakyInv'
    OBVIOUS
  <1> USE LeakyAssumption, LeakyConstants
      DEF LeakyInv, LeakyTypeOK, CheckInv, RoomInv, TakeInv, LongAgo, Awake, Check
  <1>1. /\ Room \in Int /\ Room >= 0 /\ Room <= Water
        /\ Room = Water \/ Room = cur + (now - lastTime)
        /\ Room <= cur + (now - lastTime)
    BY DEF Room, Used, Capped
  <1>2. /\ (passed + 1) * One = passed * One + One /\ passed * One \in Nat
        /\ passed = 0 => passed * One = 0
    BY OneMoreRequest
  <1>3. passed * One + Room <= Water + now
    <2>1. CASE lastTime < 0
      BY <1>1, <1>2, <2>1
    <2>2. CASE lastTime >= 0
      BY <1>1, <1>2, <2>2
    <2>3. QED BY <2>1, <2>2
  <1>4. CASE /\ Room >= One /\ cur' = Room - One /\ leftOver' = Room - One
             /\ Passes(now)
    BY <1>1, <1>2, <1>3, <1>4 DEF Passes, Capped
  <1>5. CASE Room < One /\ cur' = Room /\ UNCHANGED <<passed, lastPass, leftOver>>
    <2>1. Room = Capped(leftOver + (now - lastPass))
      BY RoomIsLeft
    <2>2. QED BY <1>1, <1>2, <1>3, <1>5, <2>1 DEF Capped
  <1>6. QED BY <1>4, <1>5

\* So does Take, and time.
LEMMA TakeKeepsInv ==
    LeakyInv /\ (TakeAtOnce \/ TakeSleeps \/ TakeWakes \/ Elapse) => LeakyInv'
  <1> SUFFICES ASSUME LeakyInv, TakeAtOnce \/ TakeSleeps \/ TakeWakes \/ Elapse
               PROVE  LeakyInv'
    OBVIOUS
  <1> USE LeakyAssumption, LeakyConstants
      DEF LeakyInv, LeakyTypeOK, CheckInv, RoomInv, TakeInv, LongAgo, Awake
  <1>1. /\ ((passed + 1) - 1) * PerReqTime = (passed - 1) * PerReqTime + PerReqTime
        /\ passed = 0 => ((passed + 1) - 1) * PerReqTime = 0
    BY OneMoreRequest
  <1>2. CASE TakeAtOnce
    BY <1>1, <1>2 DEF TakeAtOnce, SleepFor, Passes
  <1>3. CASE TakeSleeps
    BY <1>3 DEF TakeSleeps, SleepFor
  <1>4. CASE TakeWakes
    <2>1. uses = "Take" /\ wakes \in Nat /\ wakes = lastTime + PerReqTime
      BY <1>4 DEF TakeWakes
    <2>2. ((passed + 1) - 1) * PerReqTime <= wakes
      BY <1>1, <2>1
    <2>3. QED BY <1>4, <2>1, <2>2 DEF TakeWakes, Passes
  <1>5. CASE Elapse
    BY <1>5 DEF Elapse
  <1>6. QED BY <1>2, <1>3, <1>4, <1>5

\* The invariant holds throughout.
THEOREM LeakyInvariant == LeakySpec => []LeakyInv
  <1>1. LeakyInv /\ UNCHANGED leakyVars => LeakyInv'
    BY DEF LeakyInv, LeakyTypeOK, CheckInv, RoomInv, TakeInv, leakyVars
  <1>2. LeakyInv /\ [LeakyNext]_leakyVars => LeakyInv'
    BY <1>1, CheckKeepsInv, TakeKeepsInv DEF LeakyNext
  <1>3. QED BY <1>2, LeakyInitInv, PTL DEF LeakySpec

\* Check admits a bucketful and limit requests per second, Take one request per
\* PerReqTime, whatever the limit (leaky_bucket.go:26-29, 45-50).
THEOREM LeakyAdmissionIsBounded == LeakySpec => []AdmissionIsBounded
  <1>1. LeakyInv => AdmissionIsBounded
    <2> SUFFICES ASSUME LeakyInv PROVE AdmissionIsBounded
      OBVIOUS
    <2> USE LeakyAssumption, LeakyConstants
        DEF LeakyInv, LeakyTypeOK, CheckInv, RoomInv, TakeInv, LongAgo
    <2>1. passed * One \in Nat
      BY OneMoreRequest
    <2>2. ASSUME uses = "Check" PROVE passed * PerReqTime <= Second + now
      <3>1. passed * One <= Water + now
        BY <2>1, <2>2
      <3>2. CASE passed <= Limit
        <4>1. passed * PerReqTime <= Limit * PerReqTime
          BY <3>2
        <4>2. QED BY <4>1
      <3>3. CASE passed > Limit
        <4>1. passed * One = Water + (passed - Limit) * One
          BY DEF Water
        <4>2. passed * PerReqTime = Second + (passed - Limit) * PerReqTime
          <5>1. passed * PerReqTime = Limit * PerReqTime + (passed - Limit) * PerReqTime
            OBVIOUS
          <5>2. QED BY <5>1
        <4>3. (passed - Limit) * PerReqTime <= (passed - Limit) * One
          <5>1. PICK k \in Nat : k = passed - Limit
            BY <3>3
          <5>2. k * PerReqTime <= k * One
            BY <5>1
          <5>3. QED BY <5>1, <5>2
        <4>4. (passed - Limit) * One <= now
          BY <3>1, <4>1
        <4>5. QED BY <4>2, <4>3, <4>4
      <3>4. QED BY <3>2, <3>3
    <2>3. (0 - 1) * PerReqTime <= 0 /\ (passed - 1) * PerReqTime \in Int
      OBVIOUS
    <2>4. uses = "Take" => (passed - 1) * PerReqTime <= now
      BY <2>3
    <2>5. QED BY <2>2, <2>4 DEF AdmissionIsBounded
  <1>2. QED BY <1>1, LeakyInvariant, PTL

\* Whether Check admits a request depends on the last that it admitted and on the
\* time since, not on those it refused in between (leaky_bucket.go:45-47).
THEOREM LeakyRefusalsCostNothing == LeakySpec => RefusalsCostNothing
  <1>1. LeakyInv /\ [LeakyNext]_leakyVars
            => [Check => (passed' > passed
                          <=> Capped(leftOver + (now - lastPass)) >= One)]_leakyVars
    <2> SUFFICES ASSUME LeakyInv, Check
                 PROVE  passed' > passed <=> Capped(leftOver + (now - lastPass)) >= One
      OBVIOUS
    <2>1. Room = Capped(leftOver + (now - lastPass)) /\ Room \in Int
      BY RoomIsLeft, LeakyAssumption, LeakyConstants
      DEF Check, LeakyInv, LeakyTypeOK, LongAgo, Room, Used, Capped
    <2>2. passed' > passed <=> Room >= One
      BY <2>1, LeakyConstants DEF Check, Passes, LeakyInv, LeakyTypeOK
    <2>3. QED BY <2>1, <2>2
  <1>2. QED BY <1>1, LeakyInvariant, PTL DEF LeakySpec, RefusalsCostNothing

-----------------------------------------------------------------------------
(* What was taken since the tick, what is there to be taken and what is still *)
(* to be added before the next tick make at most the bucket and two rounds.   *)
TokenInv ==
    /\ TokenTypeOK
    /\ taken + tokens + (TokenRate - added) + tick * TokenRate <= Capacity + 2 * TokenRate

\* Between two ticks at most the bucket and two rounds of tokens are taken,
\* whatever the capacity and the rate (token_bucket.go:34-37).
THEOREM TokenBurstIsBounded == TokenSpec => []BurstIsBounded
  <1> USE TokenAssumption DEF TokenInv, TokenTypeOK
  <1>1. TokenInit => TokenInv
    BY DEF TokenInit
  <1>2. TokenInv /\ [TokenNext]_tokenVars => TokenInv'
    <2> SUFFICES ASSUME TokenInv, [TokenNext]_tokenVars PROVE TokenInv'
      OBVIOUS
    <2>1. CASE AddToken
      BY <2>1 DEF AddToken, Adding
    <2>2. CASE TakeTick
      BY <2>2 DEF TakeTick, Adding
    <2>3. CASE Comsume
      BY <2>3 DEF Comsume
    <2>4. CASE ComsumeFails
      BY <2>4 DEF ComsumeFails
    <2>5. CASE TimePasses
      BY <2>5 DEF TimePasses
    <2>6. CASE UNCHANGED tokenVars
      BY <2>6 DEF tokenVars
    <2>7. QED
      BY <2>1, <2>2, <2>3, <2>4, <2>5, <2>6 DEF TokenNext, Filler, Taker
  <1>3. TokenInv => BurstIsBounded
    BY DEF BurstIsBounded
  <1>4. QED BY <1>1, <1>2, <1>3, PTL DEF TokenSpec
=============================================================================
