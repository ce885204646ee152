-------------------------------- MODULE ClockSync --------------------------------
(***************************************************************************)
(* ClockSync of shared/util/clock.hpp: the offset of a peer's clock from   *)
(* the four time stamps of a ping, smoothed.  Time stamps are unsigned and *)
(* durations signed numbers of the same width (64 bits, of Modulus values  *)
(* here); assigning one to the other keeps the bits.                       *)
(***************************************************************************)
EXTENDS Integers

CONSTANTS
    Modulus,    \* 2^64
    Offsets,    \* what the peer's clock may be ahead by, or behind by if negative
    MaxDelay    \* the longest way of a ping or a pong

\* Sixteen times an offset and the longest ways stay within the width.
ASSUME ClockAssumption ==
    /\ Modulus \in Nat \ {0}
    /\ Modulus % 2 = 0
    /\ MaxDelay \in Nat
    /\ LET most == (Modulus \div 16) - 2 * MaxDelay - 1 IN Offsets \subseteq (-most)..most

VARIABLES
    ahead,          \* what the peer's clock is ahead by
    initialized,    \* initialized_
    smoothedRtt,    \* smoothed_rtt_
    offset          \* offset_

clockVars == <<ahead, initialized, smoothedRtt, offset>>

Duration == (-(Modulus \div 2))..(Modulus \div 2 - 1)

ClockTypeOK ==
    /\ ahead \in Offsets
    /\ initialized \in BOOLEAN
    /\ {smoothedRtt, offset} \subseteq Duration

ClockInit ==
    /\ ahead \in Offsets
    /\ initialized = FALSE
    /\ smoothedRtt = 0
    /\ offset = 0

--------------------------------------------------------------------------------
Unsigned(n) == n % Modulus
Signed(n) == IF Unsigned(n) < Modulus \div 2 THEN Unsigned(n) ELSE Unsigned(n) - Modulus

\* Division of signed numbers, which rounds to zero.
Quotient(n, d) == IF n >= 0 THEN n \div d ELSE -((-n) \div d)

\* One eighth of the new value and seven of the old.  A product that leaves the width is
\* undefined; it wraps here, as on the processors the program is built for.
Smooth(old, new) == IF initialized THEN Quotient(Signed(Signed(old * 7) + new), 8) ELSE new

\* Mutant: the way of the pong is counted with the wrong sign.
Bug_UpdateSwapsPong(t0, t1, t2, t3) ==
    /\ smoothedRtt' = Smooth(smoothedRtt, Signed((t3 - t0) - (t2 - t1)))
    /\ offset' = Smooth(offset, Signed(Unsigned((t1 - t0) + (t3 - t2)) \div 2))
    /\ initialized' = TRUE
    /\ UNCHANGED ahead

\* update: the sum of the differences is halved as an unsigned number.
Update(t0, t1, t2, t3) ==
    /\ smoothedRtt' = Smooth(smoothedRtt, Signed((t3 - t0) - (t2 - t1)))
    /\ offset' = Smooth(offset, Signed(Unsigned((t1 - t0) + (t2 - t3)) \div 2))
    /\ initialized' = TRUE
    /\ UNCHANGED ahead

\* A ping sent at any time travels, is answered and the pong travels back.
Pong ==
    \E t0 \in {0, Modulus - 1}, there, back \in 0..MaxDelay, pause \in 0..1 :
        Update(t0, Unsigned(t0 + ahead + there), Unsigned(t0 + ahead + there + pause),
               Unsigned(t0 + there + pause + back))

ClockSpec == ClockInit /\ [][Pong]_clockVars

--------------------------------------------------------------------------------
(* Properties *)

OffsetWithin ==
    offset - ahead \in (-(MaxDelay \div 2) - 7)..(MaxDelay \div 2)

\* Once a pong has come the round trip is never estimated longer than the longest; and the
\* offset of a peer whose clock is ahead by half a way or more is known to half the
\* difference between the two ways, and to the 7 us that rounding can accumulate, through any
\* sequence of delays and when a counter wraps.
OffsetClose ==
    initialized =>
        /\ smoothedRtt \in 0..(2 * MaxDelay)
        /\ 2 * ahead >= MaxDelay => OffsetWithin

\* Promised and false, "NTP-style clock sync offset tracking" for every peer.  When the sum of
\* the differences is negative, update halves it as an unsigned number: almost 2^63.
OffsetAlwaysClose == initialized => OffsetWithin
================================================================================
