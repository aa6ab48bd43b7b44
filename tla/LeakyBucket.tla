---------------------------- MODULE LeakyBucket ----------------------------
(***************************************************************************)
(* FlowControl/leaky_bucket/leaky_bucket.go: a limiter that is asked with   *)
(* Check, which refuses, or with Take, which waits.                         *)
(*                                                                          *)
(* Second units of time make a second.  Water is counted in what flows out  *)
(* in one unit at Rate = 1/limit per second, so that it is an integer; one  *)
(* request is One of these.  float64 rounds, this does not.  Check holds    *)
(* the mutex throughout, so that the goroutines that ask do not matter;     *)
(* Take has no lock, so that only one goroutine can use it.                 *)
(***************************************************************************)
EXTENDS Integers

CONSTANTS Limit,   \* the argument of NewLeckyBucket
          Second,  \* units of time in a second
          MaxTime  \* bound: the units of time of a run

ASSUME LeakyAssumption ==
    /\ Limit \in Nat \ {0} /\ Second \in Nat \ {0} /\ MaxTime \in Nat
    /\ Second % Limit = 0

One == Second * Limit
Water == Limit * One
PerReqTime == Second \div Limit

VARIABLES cur,       \* LeakyBucket.cur
          lastTime,  \* LeakyBucket.lasttime
          now,       \* time.Now()
          uses,      \* which of the two the limiter is asked with
          wakes,     \* when Take's sleep ends, Awake if it is not asleep
          passed,    \* how many requests went through (history)
          lastPass,  \* when the last of them did (history)
          leftOver   \* the room that Check left then (history)

leakyVars == <<cur, lastTime, now, uses, wakes, passed, lastPass, leftOver>>

Awake == -1
\* The zero time.Time is so long ago that the bucket has run empty since.
LongAgo == 0 - Water

LeakyTypeOK ==
    /\ cur \in Int /\ cur <= Water
    /\ lastTime \in LongAgo..MaxTime /\ lastPass \in LongAgo..MaxTime
    /\ now \in 0..MaxTime /\ wakes \in Nat \cup {Awake}
    /\ uses \in {"Check", "Take"} /\ passed \in Nat
    /\ leftOver \in Int /\ leftOver <= Water

NewLeckyBucket ==
    /\ cur = Water /\ lastTime = LongAgo /\ uses \in {"Check", "Take"}
    /\ now = 0 /\ wakes = Awake /\ passed = 0 /\ lastPass = LongAgo
    /\ leftOver = Water

-----------------------------------------------------------------------------
\* What has flowed out since the last request.  Faulty, for mutation: whole
\* seconds only.
UsedSeconds == ((now - lastTime) \div Second) * Second
Used == now - lastTime

\* The room there is, which the outflow cannot raise above the capacity.
\* Faulty, for mutation: it can.
Capped(water) == IF water > Water THEN Water ELSE water
RoomUncapped == cur + Used
Room == Capped(cur + Used)

Passes(time) ==
    /\ passed' = passed + 1 /\ lastPass' = time

Check ==
    /\ uses = "Check"
    /\ lastTime' = now
    /\ \/ Room >= One /\ cur' = Room - One /\ Passes(now) /\ leftOver' = Room - One
       \/ Room < One /\ cur' = Room /\ UNCHANGED <<passed, lastPass, leftOver>>
    /\ UNCHANGED <<now, uses, wakes>>

SleepFor == PerReqTime - (now - lastTime)

TakeAtOnce ==
    /\ uses = "Take" /\ wakes = Awake /\ SleepFor <= 0
    /\ lastTime' = now
    /\ Passes(now)
    /\ UNCHANGED <<cur, now, uses, wakes, leftOver>>

TakeSleeps ==
    /\ uses = "Take" /\ wakes = Awake /\ SleepFor > 0
    /\ wakes' = now + SleepFor
    /\ UNCHANGED <<cur, lastTime, now, uses, passed, lastPass, leftOver>>

TakeWakes ==
    /\ wakes # Awake /\ now >= wakes
    /\ lastTime' = wakes
    /\ cur' = cur - One
    /\ wakes' = Awake
    /\ Passes(now)
    /\ UNCHANGED <<now, uses, leftOver>>

\* The caller's own time.Sleep, and whatever else takes time.
Elapse ==
    /\ now < MaxTime
    /\ now' = now + 1
    /\ UNCHANGED <<cur, lastTime, uses, wakes, passed, lastPass, leftOver>>

LeakyNext == Check \/ TakeAtOnce \/ TakeSleeps \/ TakeWakes \/ Elapse
LeakySpec == NewLeckyBucket /\ [][LeakyNext]_leakyVars

-----------------------------------------------------------------------------
\* NewLeckyBucket(limit) is for limit requests per second (leaky_bucket.go:69,
\* FlowControl/README.md:239).  However the requests come, Check never admits
\* more than a bucketful and that rate, although what has flowed out is counted
\* request by request into a bucket that must not overfill; and however late
\* Take wakes, it lets one request through per PerReqTime since the first.
AdmissionIsBounded ==
    /\ uses = "Check" => passed * PerReqTime <= Second + now
    /\ uses = "Take" => (passed - 1) * PerReqTime <= now

\* A request that Check refuses takes nothing from those after it, although it
\* moves lasttime (leaky_bucket.go:45-47): whether the next is admitted depends
\* on the room that the last admitted one left, and on what has flowed out since.
RefusalsCostNothing ==
    [][Check => (passed' > passed <=> Capped(leftOver + (now - lastPass)) >= One)]_leakyVars

\* And it refuses a request only if the last one that it admitted has not flowed
\* out yet, at limit requests per second.
RefusesForCause ==
    [][(Check /\ passed' = passed) => now - lastPass < PerReqTime]_leakyVars
=============================================================================
