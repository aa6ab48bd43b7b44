---------------------------- MODULE TokenBucket ----------------------------
(***************************************************************************)
(* FlowControl/token_bucket/token_bucket.go: a channel of tokens that a     *)
(* goroutine fills, rate at every tick, and the loop of main empties.  Time *)
(* goes round: only its place in the second between two ticks is kept.      *)
(***************************************************************************)
EXTENDS Integers

CONSTANTS Capacity,       \* of the channel that InjectBucket is given
          BucketLimit,    \* the tokens that Init puts into it
          TokenRate,      \* the tokens it is to get per tick
          UnitsPerSecond, \* units of time between two ticks
          Nap             \* how many of them Comsume sleeps without a token

ASSUME TokenAssumption ==
    /\ Capacity \in Nat /\ TokenRate \in Nat \ {0}
    /\ BucketLimit \in 0..Capacity  \* a larger one would block Init for ever
    /\ UnitsPerSecond \in Nat \ {0} /\ Nap \in Nat \ {0}

VARIABLES tokens,  \* in Bucket
          added,   \* i of the loop that adds tokens, TokenRate when it waits
          tick,    \* those in tic.C, whose buffer holds one
          phase,   \* time since the last tick
          nap,     \* time until Comsume wakes
          taken    \* tokens taken since the last tick (history)

tokenVars == <<tokens, added, tick, phase, nap, taken>>

TokenTypeOK ==
    /\ tokens \in 0..Capacity /\ added \in 0..TokenRate /\ tick \in 0..1
    /\ phase \in 0..UnitsPerSecond - 1 /\ nap \in 0..Nap /\ taken \in Nat

TokenInit ==
    /\ tokens = BucketLimit /\ added = 0 /\ tick = 0
    /\ phase = 0 /\ nap = 0 /\ taken = 0

-----------------------------------------------------------------------------
\* The loop that adds tokens goes on.  Faulty, for mutation: with one too many.
OneMore == added <= TokenRate
Adding == added < TokenRate

\* The send blocks while the channel is full.
AddToken ==
    /\ Adding /\ tokens < Capacity
    /\ tokens' = tokens + 1 /\ added' = added + 1
    /\ UNCHANGED <<tick, phase, nap, taken>>

TakeTick ==
    /\ ~Adding /\ tick = 1
    /\ tick' = 0 /\ added' = 0
    /\ UNCHANGED <<tokens, phase, nap, taken>>

Comsume ==
    /\ nap = 0 /\ tokens > 0
    /\ tokens' = tokens - 1 /\ taken' = taken + 1
    /\ UNCHANGED <<added, tick, phase, nap>>

ComsumeFails ==
    /\ nap = 0 /\ tokens = 0
    /\ nap' = Nap
    /\ UNCHANGED <<tokens, added, tick, phase, taken>>

\* At the end of the second the ticker ticks, into a buffer that may be full.
TimePasses ==
    /\ phase' = (phase + 1) % UnitsPerSecond
    /\ nap' = IF nap = 0 THEN 0 ELSE nap - 1
    /\ \/ phase' # 0 /\ UNCHANGED <<tick, taken>>
       \/ phase' = 0 /\ tick' = 1 /\ taken' = 0
    /\ UNCHANGED <<tokens, added>>

Filler == AddToken \/ TakeTick
Taker == Comsume \/ ComsumeFails
TokenNext == Filler \/ Taker \/ TimePasses
TokenSpec == TokenInit /\ [][TokenNext]_tokenVars

-----------------------------------------------------------------------------
\* Between two ticks at most the bucket and two rounds of tokens are taken.
\* Tokens for a full bucket are to be dropped (FlowControl/README.md:60), and then
\* it would be one round; but Init holds the round up until there is room, and
\* adds it as well as the one whose tick waits meanwhile (token_bucket.go:34-37).
BurstIsBounded == taken <= Capacity + 2 * TokenRate
=============================================================================
