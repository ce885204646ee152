------------------------------- MODULE PacketPacer -------------------------------
(***************************************************************************)
(* PacketPacer of shared/transport/pacer.cpp: a token bucket over time.    *)
(* A token takes TokenUnit of rate times ticks (8 000 000 of bit/s times   *)
(* microseconds per byte), and each refill rounds down.  One caller waits  *)
(* for a packet and then records it.                                       *)
(***************************************************************************)
EXTENDS Integers

CONSTANTS
    Rates,          \* what set_rate is called with
    Sizes,          \* sizes of packets
    TokenUnit,      \* rate times ticks that make one token
    BurstTicks,     \* ticks of the rate that the bucket holds (10 ms)
    MaxElapsed,     \* bound: ticks since the last refill while nobody waits
    MaxOversleep    \* bound: ticks by which a sleep exceeds what was asked

ASSUME PacerAssumption ==
    /\ Rates \subseteq Nat
    /\ Sizes \subseteq Nat \ {0}
    /\ {TokenUnit, BurstTicks} \subseteq Nat \ {0}
    /\ {MaxElapsed, MaxOversleep} \subseteq Nat

VARIABLES
    rate,       \* rate_bps_
    tokens,     \* tokens_
    maxTokens,  \* max_tokens_
    elapsed,    \* now - last_update_us_
    waiting,    \* the size wait_until_can_send waits for, or 0
    allowed     \* history: what rate and burst allow to send now, in 1/TokenUnit tokens

pacerVars == <<rate, tokens, maxTokens, elapsed, waiting, allowed>>

PacerTypeOK ==
    /\ {rate, tokens, maxTokens, elapsed, waiting} \subseteq Nat
    /\ allowed \in Int

\* Nothing is paced before the first set_rate.
PacerInit ==
    /\ rate = 0
    /\ tokens = 0
    /\ maxTokens = 0
    /\ elapsed = 0
    /\ waiting = 0
    /\ allowed = 0

--------------------------------------------------------------------------------
Least(a, b) == IF a <= b THEN a ELSE b

\* The history grows with time, up to a full bucket, and rounds nothing.
AllowedAfter(ticks) == Least(maxTokens * TokenUnit, allowed + rate * ticks)

TimePasses ==
    /\ waiting = 0
    /\ elapsed < MaxElapsed
    /\ elapsed' = elapsed + 1
    /\ allowed' = AllowedAfter(1)
    /\ UNCHANGED <<rate, tokens, maxTokens, waiting>>

\* set_rate: the time since the last refill will be counted at the new rate.
SetRate ==
    /\ waiting = 0
    /\ rate' \in Rates
    /\ maxTokens' = (rate' * BurstTicks) \div TokenUnit
    /\ tokens' = Least(tokens, maxTokens')
    /\ allowed' = maxTokens' * TokenUnit
    /\ UNCHANGED <<elapsed, waiting>>

\* Mutant: a refill rounds up.
Bug_RefilledRoundsUp == Least(maxTokens, tokens + (rate * elapsed + TokenUnit - 1) \div TokenUnit)

\* refill_tokens: the tokens there are after it; without a rate it does nothing.
Refilled == Least(maxTokens, tokens + (rate * elapsed) \div TokenUnit)

WaitBegins ==
    /\ waiting = 0
    /\ waiting' \in Sizes
    /\ UNCHANGED <<rate, tokens, maxTokens, elapsed, allowed>>

\* can_send refills and finds enough; record_send takes it.
Sends ==
    /\ waiting > 0
    /\ Refilled >= waiting
    /\ tokens' = Refilled - waiting
    /\ elapsed' = IF rate > 0 THEN 0 ELSE elapsed
    /\ allowed' = allowed - waiting * TokenUnit
    /\ waiting' = 0
    /\ UNCHANGED <<rate, maxTokens>>

\* Mutant: the missing tokens are divided by the rate before they are turned into ticks.
Bug_SleepsDividesFirst(over) ==
    LET ticks == ((waiting - Refilled) \div rate) * TokenUnit + over
    IN  /\ waiting > Refilled
        /\ rate > 0
        /\ tokens' = Refilled
        /\ elapsed' = ticks
        /\ allowed' = AllowedAfter(ticks)
        /\ UNCHANGED <<rate, maxTokens, waiting>>

\* ... or not enough: it sleeps until the missing tokens should be there, rounded down,
\* and the sleep takes longer by over.  Without a rate the loop only yields.
Sleeps(over) ==
    LET ticks == ((waiting - Refilled) * TokenUnit) \div rate + over
    IN  /\ waiting > Refilled
        /\ rate > 0
        /\ tokens' = Refilled
        /\ elapsed' = ticks
        /\ allowed' = AllowedAfter(ticks)
        /\ UNCHANGED <<rate, maxTokens, waiting>>

Wakes == \E over \in 0..MaxOversleep : Sleeps(over)
Oversleeps == \E over \in 1..MaxOversleep : Sleeps(over)

PacerNext == TimePasses \/ SetRate \/ WaitBegins \/ Sends \/ Wakes

PacerSpec == PacerInit /\ [][PacerNext]_pacerVars

--------------------------------------------------------------------------------
(* Properties *)

\* Since the rate was set, no interval has carried more than its length times the rate
\* and one burst, although refills come at any moment and round.
BurstBounded == 0 <= tokens /\ tokens * TokenUnit <= allowed

\* A packet that fits in the bucket is not waited for without end: rounding twice down,
\* the sleep and then the refill, may leave a token missing again and again, but any
\* sleep that lasts a little longer ends the wait.
WaitEnds == (waiting > 0 /\ waiting <= maxTokens) ~> (waiting = 0)
================================================================================
