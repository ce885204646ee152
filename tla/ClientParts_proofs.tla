---------------------------- MODULE ClientParts_proofs ----------------------------
(***************************************************************************)
(* Parts of the client for any number of packets, networks and servers and *)
(* any width of time stamps: the decoder gives back what it has taken from *)
(* the driver but for slice buffers, the screens act on entries that exist *)
(* as long as their objects do, and the clock of a peer that is ahead is   *)
(* known to half the difference of the ways.  The parts share no variable; *)
(* a theorem about one does not mention another.                           *)
(***************************************************************************)
EXTENDS VaapiDecoder, Screens, ClockSync, TLAPS

--------------------------------------------------------------------------------
(* VaapiDecoder *)

\* The members name everything the driver holds, and but for the surfaces nothing more;
\* before init there is neither.
DecoderInv ==
    /\ DecoderBalanced
    /\ driver \subseteq members
    /\ members \ driver \subseteq {"surfaces"}
    /\ life = "new" => members = {} /\ driver = {}

LEMMA DecoderStep == DecoderInv /\ [DecoderNext]_decoderVars => DecoderInv'
<1> SUFFICES ASSUME DecoderInv, [DecoderNext]_decoderVars
             PROVE  DecoderInv'
  OBVIOUS
<1> USE DEF DecoderInv, DecoderBalanced
<1>1. CASE InitDecoder
  <2>1. PICK made \in {{}, {"config"}, {"config", "surfaces"}, Resource} :
           /\ driver' = made
           /\ members' = (IF made = {} THEN {} ELSE made \cup {"surfaces"})
           /\ life' = (IF made = Resource THEN "ready" ELSE "failed")
    BY <1>1 DEF InitDecoder
  <2>2. misfreed' = misfreed /\ drawing' = drawing /\ endFailed' = endFailed
    BY <1>1 DEF InitDecoder
  <2> QED
    BY <2>1, <2>2
<1>2. CASE SubmitPacket \/ SubmitFails \/ GetFrame
  <2>1. UNCHANGED lifeVars
    BY <1>2 DEF SubmitPacket, SubmitFails, GetFrame, NextPacket
  <2>2. drawing' => endFailed'
    <3>1. CASE SubmitPacket \/ GetFrame
      BY <3>1 DEF SubmitPacket, GetFrame
    <3>2. CASE SubmitFails
      <4>1. \/ drawing' = drawing /\ endFailed' = endFailed
            \/ drawing' = FALSE
            \/ endFailed' = TRUE
        BY <3>2 DEF SubmitFails, EndsPicture
      <4> QED
        BY <4>1, Zenon
    <3> QED
      BY <1>2, <3>1, <3>2
  <2> QED
    BY <2>1, <2>2 DEF lifeVars
<1>3. CASE DestroyDecoder
  BY <1>3 DEF DestroyDecoder
<1>4. CASE UNCHANGED decoderVars
  BY <1>4 DEF decoderVars
<1> QED
  BY <1>1, <1>2, <1>3, <1>4 DEF DecoderNext

\* However far init has come and whichever packets have failed, the destructor gives back
\* config, surfaces and context (the slice buffers are left out: no line destroys them), no
\* picture stays begun that the driver was willing to end, and only surfaces that were never
\* made may be destroyed in vain.
THEOREM DecoderIsBalanced == DecoderSpec => []DecoderBalanced
<1>1. DecoderInit => DecoderInv
  BY DEF DecoderInit, DecoderInv, DecoderBalanced
<1>2. DecoderInv => DecoderBalanced
  BY DEF DecoderInv
<1> QED
  BY <1>1, <1>2, DecoderStep, PTL DEF DecoderSpec

--------------------------------------------------------------------------------
(* The screens *)

\* A selection is always within its list, or at its beginning while the list is empty.
ScreensInv ==
    /\ networks \in Nat /\ highlighted \in Nat /\ highlighted < networks
    /\ servers \in Nat /\ selected \in Nat /\ (servers > 0 => selected < servers)
    /\ servers = 0 => selected = 0
    /\ EntriesExist

LEMMA ScreensStep == ScreensInv /\ [ScreensNext]_screensVars => ScreensInv'
<1> SUFFICES ASSUME ScreensInv, [ScreensNext]_screensVars
             PROVE  ScreensInv'
  OBVIOUS
<1> USE DEF ScreensInv, EntriesExist
<1>1. CASE WifiStep /\ UNCHANGED <<overlay, screen, serverVars>>
  <2>0. UNCHANGED <<overlay, screen, servers, selected, attempted>>
    BY <1>1 DEF serverVars
  <2>1. CASE wifi = "held" /\ wifi' = wifi /\ ScanNetworks
    <3>1. PICK found \in 0..MaxFound : networks' = (IF found = 0 THEN 1 ELSE found)
      BY <2>1 DEF ScanNetworks
    <3>2. networks' \in Nat /\ networks' > 0
      BY <3>1, ScreensAssumption
    <3> QED
      BY <2>0, <2>1, <3>2 DEF ScanNetworks
  <2>2. CASE wifi = "held" /\ wifi' = wifi /\ (WifiUp \/ WifiDown \/ ConnectPressed)
    BY <2>0, <2>2 DEF WifiUp, WifiDown, ConnectPressed
  <2>3. CASE wifi = "dropped" /\ WifiDangles
    <3>1. wifi' # "held" /\ UNCHANGED <<networks, highlighted>>
      BY <2>3 DEF WifiDangles
    <3> QED
      BY <2>0, <3>1
  <2> QED
    BY <1>1, <2>1, <2>2, <2>3 DEF WifiStep
<1>2. CASE ServerStep /\ UNCHANGED <<overlay, screen, wifiVars>>
  BY <1>2 DEF ServerStep, AddServer, ServerUp, ServerDown, ServerReturn, wifiVars
<1>3. CASE AppStep /\ UNCHANGED <<wifiVars, serverVars>>
  <2>1. ASSUME NEW on, SetOverlayMode(on)
        PROVE  overlay' => screen' = "Overlay"
    BY <2>1 DEF SetOverlayMode
  <2>2. ASSUME NEW s, NavigateTo(s)
        PROVE  overlay' => screen' = "Overlay"
    BY <2>2 DEF NavigateTo
  <2>3. overlay' => screen' = "Overlay"
    BY <1>3, <2>1, <2>2 DEF AppStep, KeyF1, KeyF3, KeyEscape, ScreenID
  <2> QED
    BY <1>3, <2>3 DEF wifiVars, serverVars
<1>4. CASE UNCHANGED screensVars
  BY <1>4 DEF screensVars, wifiVars, serverVars
<1> QED
  BY <1>1, <1>2, <1>3, <1>4 DEF ScreensNext

\* For lists of any length: what Connect passes on while the WifiScreen is held, and Enter
\* of the server list at any time, is an entry of the list at that moment; and the overlay is
\* on only while it is the screen.
THEOREM EntriesAlwaysExist == ScreensSpec => []EntriesExist
<1>1. ScreensInit => ScreensInv
  <2> SUFFICES ASSUME ScreensInit
               PROVE  ScreensInv
    OBVIOUS
  <2>1. networks \in Nat /\ networks > 0
    BY ScreensAssumption DEF ScreensInit
  <2> QED
    BY <2>1 DEF ScreensInit, ScreensInv, EntriesExist, NoEntry
<1>2. ScreensInv => EntriesExist
  BY DEF ScreensInv
<1> QED
  BY <1>1, <1>2, ScreensStep, PTL DEF ScreensSpec

--------------------------------------------------------------------------------
(* ClockSync *)

\* Products of integers by a positive number keep their order, strictly.
LEMMA ProductApart ==
    ASSUME NEW m \in Int, NEW n \in Int, NEW k \in Nat \ {0}, m < n
    PROVE  m * k + k <= n * k
<1>1. n - m - 1 \in Nat /\ n = (m + 1) + (n - m - 1)
  OBVIOUS
<1>2. (n - m - 1) * k \in Nat
  BY <1>1
<1>3. n * k = (m + 1) * k + (n - m - 1) * k
  BY <1>1
<1>4. (m + 1) * k = m * k + k
  OBVIOUS
<1> QED
  BY <1>2, <1>3, <1>4

LEMMA DivisionOf ==
    ASSUME NEW n \in Int, NEW k \in Nat \ {0}
    PROVE  /\ n \div k \in Int /\ n % k \in Int
           /\ n = (n \div k) * k + (n % k)
           /\ 0 <= n % k /\ n % k < k
  OBVIOUS

\* A remainder is what is missing to the multiple below; whatever lies between two
\* multiples is it.
LEMMA RemainderOf ==
    ASSUME NEW k \in Nat \ {0}, NEW z \in Int, NEW r \in Int, 0 <= r, r < k
    PROVE  (z * k + r) % k = r
<1> DEFINE n == z * k + r
           q == n \div k
           d == n % k
<1>1. n \in Int /\ q \in Int /\ d \in Int /\ z * k \in Int /\ q * k \in Int
  OBVIOUS
<1>2. n = q * k + d /\ 0 <= d /\ d < k
  OBVIOUS
<1>3. z * k + r = q * k + d
  BY <1>2
<1> HIDE DEF n, q, d
<1>4. ~(z < q)
  <2> SUFFICES ASSUME z < q
               PROVE  FALSE
    OBVIOUS
  <2>1. z * k + k <= q * k
    BY <1>1, ProductApart
  <2> QED
    BY <1>1, <1>2, <1>3, <2>1
<1>5. ~(q < z)
  <2> SUFFICES ASSUME q < z
               PROVE  FALSE
    OBVIOUS
  <2>1. q * k + k <= z * k
    BY <1>1, ProductApart
  <2> QED
    BY <1>1, <1>2, <1>3, <2>1
<1>6. z = q
  BY <1>1, <1>4, <1>5
<1>7. z * k = q * k
  BY <1>6
<1> QED
  BY <1>1, <1>3, <1>7 DEF d, n

\* Stamps that differ by multiples of the modulus are the same.
LEMMA UnsignedOf ==
    ASSUME NEW z \in Int, NEW r \in 0..(Modulus - 1)
    PROVE  Unsigned(z * Modulus + r) = r
<1>1. Modulus \in Nat \ {0} /\ r \in Int /\ 0 <= r /\ r < Modulus
  BY ClockAssumption
<1> QED
  BY <1>1, RemainderOf DEF Unsigned

LEMMA UnsignedWraps ==
    ASSUME NEW n \in Int
    PROVE  Unsigned(n) \in Int /\ \E z \in Int : Unsigned(n) = z * Modulus + n
<1> DEFINE q == n \div Modulus
           r == n % Modulus
<1>1. Modulus \in Nat \ {0}
  BY ClockAssumption
<1>2. q \in Int /\ r \in Int /\ n = q * Modulus + r
  BY <1>1, DivisionOf
<1> HIDE DEF q, r
<1>3. -q \in Int /\ q * Modulus \in Int /\ (-q) * Modulus = -(q * Modulus)
  BY <1>1, <1>2
<1>4. Unsigned(n) = (-q) * Modulus + n
  <2>1. Unsigned(n) = r
    BY DEF Unsigned, r
  <2> QED
    BY <1>2, <1>3, <2>1
<1>5. Unsigned(n) \in Int
  BY <1>2 DEF Unsigned, r
<1> QED
  BY <1>3, <1>4, <1>5

\* What the numbers are that update works with: small ones, so that no difference and no
\* product leaves the width.
LEMMA ClockSizes ==
    ASSUME NEW a \in Offsets
    PROVE  /\ Modulus \in Nat \ {0} /\ MaxDelay \in Nat /\ a \in Int
           /\ 16 * (a + 2 * MaxDelay + 1) <= Modulus
           /\ 16 * (2 * MaxDelay + 1) <= Modulus
           /\ Modulus \div 2 \in Nat /\ Modulus = 2 * (Modulus \div 2)
<1> DEFINE most == (Modulus \div 16) - 2 * MaxDelay - 1
<1>1. Modulus \in Nat \ {0} /\ Modulus % 2 = 0 /\ MaxDelay \in Nat
  BY ClockAssumption
<1>2. a \in (-most)..most
  BY ClockAssumption
<1>3. 16 * (Modulus \div 16) <= Modulus /\ Modulus \div 16 \in Int
  BY <1>1
<1>4. a \in Int /\ a <= most /\ 0 <= most
  BY <1>1, <1>2, <1>3
<1>5. 16 * (a + 2 * MaxDelay + 1) <= Modulus /\ 16 * (2 * MaxDelay + 1) <= Modulus
  BY <1>1, <1>3, <1>4
<1>6. Modulus \div 2 \in Nat /\ Modulus = 2 * (Modulus \div 2)
  BY <1>1
<1> QED
  BY <1>1, <1>4, <1>5, <1>6

\* A signed number that fits keeps its value.
LEMMA SignedOf ==
    ASSUME NEW a \in Offsets, NEW n \in 0..(Modulus \div 2 - 1), NEW z \in Int
    PROVE  Signed(z * Modulus + n) = n
<1>1. Modulus \in Nat \ {0} /\ n \in 0..(Modulus - 1) /\ n < Modulus \div 2
  BY ClockSizes
<1> QED
  BY <1>1, UnsignedOf DEF Signed

LEMMA SignedFits ==
    ASSUME NEW a \in Offsets, NEW n \in 0..(Modulus \div 2 - 1)
    PROVE  Signed(n) = n
<1>1. Modulus \in Int /\ 0 * Modulus + n = n /\ 0 \in Int
  BY ClockSizes
<1> QED
  BY <1>1, SignedOf

\* The four stamps of a ping and its pong, whatever the sender's clock shows: their sum
\* is twice the offset and the difference of the ways, their other sum both ways.
LEMMA StampsMeasure ==
    ASSUME NEW a \in Offsets, NEW t0 \in Int, NEW there \in 0..MaxDelay,
           NEW back \in 0..MaxDelay, NEW pause \in 0..1
    PROVE  LET t1 == Unsigned(t0 + a + there)
               t2 == Unsigned(t0 + a + there + pause)
               t3 == Unsigned(t0 + there + pause + back)
           IN  /\ 2 * a >= MaxDelay =>
                       Unsigned((t1 - t0) + (t2 - t3)) = 2 * a + there - back
               /\ Signed((t3 - t0) - (t2 - t1)) = there + back
<1> DEFINE t1 == Unsigned(t0 + a + there)
           t2 == Unsigned(t0 + a + there + pause)
           t3 == Unsigned(t0 + there + pause + back)
<1>0. /\ Modulus \in Nat \ {0} /\ MaxDelay \in Nat /\ a \in Int
      /\ 16 * (a + 2 * MaxDelay + 1) <= Modulus /\ 16 * (2 * MaxDelay + 1) <= Modulus
      /\ Modulus \div 2 \in Nat /\ Modulus = 2 * (Modulus \div 2)
  BY ClockSizes
<1>1. PICK z1 \in Int : t1 = z1 * Modulus + (t0 + a + there)
  <2>1. t0 + a + there \in Int
    BY <1>0
  <2> QED
    BY <2>1, UnsignedWraps
<1>2. PICK z2 \in Int : t2 = z2 * Modulus + (t0 + a + there + pause)
  <2>1. t0 + a + there + pause \in Int
    BY <1>0
  <2> QED
    BY <2>1, UnsignedWraps
<1>3. PICK z3 \in Int : t3 = z3 * Modulus + (t0 + there + pause + back)
  <2>1. t0 + there + pause + back \in Int
    BY <1>0
  <2> QED
    BY <2>1, UnsignedWraps
<1>4. /\ z1 * Modulus \in Int /\ z2 * Modulus \in Int /\ z3 * Modulus \in Int
      /\ (z1 + z2 - z3) * Modulus = z1 * Modulus + z2 * Modulus - z3 * Modulus
      /\ (z3 - z2 + z1) * Modulus = z3 * Modulus - z2 * Modulus + z1 * Modulus
      /\ z1 + z2 - z3 \in Int /\ z3 - z2 + z1 \in Int
  BY <1>0
<1> HIDE DEF t1, t2, t3
<1>5. (t1 - t0) + (t2 - t3) = (z1 + z2 - z3) * Modulus + (2 * a + there - back)
  BY <1>0, <1>1, <1>2, <1>3, <1>4
<1>6. (t3 - t0) - (t2 - t1) = (z3 - z2 + z1) * Modulus + (there + back)
  BY <1>0, <1>1, <1>2, <1>3, <1>4
<1>7. 2 * a >= MaxDelay => 2 * a + there - back \in 0..(Modulus - 1)
  BY <1>0
<1>8. there + back \in 0..(Modulus \div 2 - 1)
  BY <1>0
<1>9. 2 * a >= MaxDelay => Unsigned((t1 - t0) + (t2 - t3)) = 2 * a + there - back
  BY <1>4, <1>5, <1>7, UnsignedOf
<1>10. Signed((t3 - t0) - (t2 - t1)) = there + back
  BY <1>4, <1>6, <1>8, SignedOf
<1> QED
  BY <1>9, <1>10 DEF t1, t2, t3

\* Smoothing numbers that are not negative and stay below a sixteenth of the width.
LEMMA SmoothOf ==
    ASSUME NEW a \in Offsets, NEW old \in Nat, NEW new \in Nat, initialized,
           7 * old + new < Modulus \div 2
    PROVE  Smooth(old, new) = (7 * old + new) \div 8
<1>1. Modulus \div 2 \in Nat
  BY ClockSizes
<1>2. old * 7 \in 0..(Modulus \div 2 - 1) /\ old * 7 + new \in 0..(Modulus \div 2 - 1)
  BY <1>1
<1>3. Signed(old * 7) = old * 7
  BY <1>2, SignedFits
<1>4. Signed(old * 7 + new) = old * 7 + new
  BY <1>2, SignedFits
<1>5. Smooth(old, new) = Quotient(old * 7 + new, 8)
  BY <1>3, <1>4 DEF Smooth
<1>6. Quotient(old * 7 + new, 8) = (old * 7 + new) \div 8
  BY <1>2 DEF Quotient
<1> QED
  BY <1>5, <1>6

\* The offset of a peer that is ahead never falls below 0 either, which keeps the signed
\* quotient a rounding down.
ClockInv ==
    /\ ahead \in Offsets
    /\ initialized \in BOOLEAN
    /\ initialized =>
           /\ smoothedRtt \in 0..(2 * MaxDelay)
           /\ 2 * ahead >= MaxDelay =>
                  /\ offset \in Nat
                  /\ ahead <= offset + MaxDelay \div 2 + 7
                  /\ offset <= ahead + MaxDelay \div 2

\* What smoothing does to an offset: the result is the mean rounded down.
Smoothed(a, h, old, new, next) ==
    /\ a <= old + h + 7 /\ old <= a + h
    /\ a <= new + h + 1 /\ new <= a + h
    /\ 8 * next <= 7 * old + new /\ 7 * old + new <= 8 * next + 7

\* The eighths lost to rounding in one update after the other add up to less than 8.
LEMMA RoundingStays ==
    ASSUME NEW a \in Int, NEW h \in Int, NEW old \in Int, NEW new \in Int, NEW next \in Int,
           Smoothed(a, h, old, new, next)
    PROVE  a <= next + h + 7 /\ next <= a + h
  BY DEF Smoothed

\* And to a round trip.
NoLonger(most, old, new, next) ==
    old <= most /\ new <= most /\ 8 * next <= 7 * old + new

LEMMA RoundTripStays ==
    ASSUME NEW most \in Int, NEW old \in Int, NEW new \in Int, NEW next \in Int,
           NoLonger(most, old, new, next)
    PROVE  next <= most
  BY DEF NoLonger

LEMMA ClockStepInv == ClockInv /\ [Pong]_clockVars => ClockInv'
<1> SUFFICES ASSUME ClockInv, [Pong]_clockVars
             PROVE  ClockInv'
  OBVIOUS
<1>1. ASSUME NEW t0 \in {0, Modulus - 1}, NEW there \in 0..MaxDelay, NEW back \in 0..MaxDelay,
             NEW pause \in 0..1,
             Update(t0, Unsigned(t0 + ahead + there), Unsigned(t0 + ahead + there + pause),
                    Unsigned(t0 + there + pause + back))
      PROVE  ClockInv'
  <2> DEFINE double == 2 * ahead + there - back
             new == double \div 2
             ways == there + back
             h == MaxDelay \div 2
             most == 2 * MaxDelay
  <2>1. /\ Modulus \in Nat \ {0} /\ MaxDelay \in Nat /\ ahead \in Int
        /\ 16 * (ahead + 2 * MaxDelay + 1) <= Modulus /\ 16 * (2 * MaxDelay + 1) <= Modulus
        /\ Modulus \div 2 \in Nat /\ Modulus = 2 * (Modulus \div 2)
        /\ ahead \in Offsets
    BY ClockSizes DEF ClockInv
  <2>2. t0 \in Int
    BY <2>1
  <2>3. /\ smoothedRtt' = Smooth(smoothedRtt, ways)
        /\ 2 * ahead >= MaxDelay => offset' = Smooth(offset, Signed(new))
        /\ initialized' = TRUE /\ ahead' = ahead
    <3> DEFINE t1 == Unsigned(t0 + ahead + there)
               t2 == Unsigned(t0 + ahead + there + pause)
               t3 == Unsigned(t0 + there + pause + back)
    <3>1. /\ 2 * ahead >= MaxDelay => Unsigned((t1 - t0) + (t2 - t3)) = double
          /\ Signed((t3 - t0) - (t2 - t1)) = ways
      <4>1. ahead \in Offsets
        BY <2>1
      <4> QED
        BY <4>1, <2>2, StampsMeasure, Zenon
    <3>2. Update(t0, t1, t2, t3)
      BY <1>1
    <3> HIDE DEF t1, t2, t3, double, ways
    <3> QED
      BY <3>1, <3>2 DEF Update
  <2>4. ways \in Nat /\ ways <= most /\ most \in Nat /\ 8 * most < Modulus \div 2
    BY <2>1
  <2>5. smoothedRtt' \in 0..most
    <3> HIDE DEF ways, most
    <3>1. CASE ~initialized
      BY <2>3, <2>4, <3>1 DEF Smooth
    <3>2. CASE initialized
      <4>1. smoothedRtt \in Nat /\ smoothedRtt <= most
        BY <2>4, <3>2 DEF ClockInv, most
      <4>2. 7 * smoothedRtt + ways < Modulus \div 2
        BY <2>1, <2>4, <4>1
      <4>3. smoothedRtt' = (7 * smoothedRtt + ways) \div 8
        BY <2>1, <2>3, <2>4, <3>2, <4>1, <4>2, SmoothOf
      <4>4. smoothedRtt' \in Nat /\ 8 * smoothedRtt' <= 7 * smoothedRtt + ways
        BY <2>4, <4>1, <4>3
      <4>5. NoLonger(most, smoothedRtt, ways, smoothedRtt')
        BY <2>4, <4>1, <4>4 DEF NoLonger
      <4>6. smoothedRtt' <= most
        BY <2>4, <4>1, <4>4, <4>5, RoundTripStays
      <4> QED
        BY <2>4, <4>4, <4>6
    <3> QED
      BY <3>1, <3>2 DEF ClockInv
  <2>6. ASSUME 2 * ahead >= MaxDelay
        PROVE  offset' \in Nat /\ ahead <= offset' + h + 7 /\ offset' <= ahead + h
    <3>1. /\ h \in Nat /\ 2 * h <= MaxDelay /\ MaxDelay <= 2 * h + 1
          /\ double \in Nat /\ new \in Nat /\ 2 * new <= double /\ double <= 2 * new + 1
      BY <2>1, <2>6
    <3>2. new <= ahead + h /\ ahead <= new + h + 1
      BY <2>1, <3>1
    <3> HIDE DEF new, h
    <3>3. new \in 0..(Modulus \div 2 - 1)
      BY <2>1, <3>1, <3>2
    <3>4. Signed(new) = new
      BY <2>1, <3>3, SignedFits
    <3>5. CASE ~initialized
      <4>1. offset' = new
        BY <2>3, <2>6, <3>4, <3>5 DEF Smooth
      <4> QED
        BY <2>1, <3>1, <3>2, <4>1
    <3>6. CASE initialized
      <4>1. offset \in Nat /\ ahead <= offset + h + 7 /\ offset <= ahead + h
        BY <2>6, <3>6 DEF ClockInv, h
      <4>2. 7 * offset + new < Modulus \div 2
        BY <2>1, <3>1, <3>2, <4>1
      <4>3. offset' = (7 * offset + new) \div 8
        BY <2>1, <2>3, <2>6, <3>1, <3>4, <3>6, <4>1, <4>2, SmoothOf
      <4>4. /\ offset' \in Nat /\ 8 * offset' <= 7 * offset + new
            /\ 7 * offset + new <= 8 * offset' + 7
        BY <3>1, <4>1, <4>3
      <4>5. Smoothed(ahead, h, offset, new, offset')
        BY <3>2, <4>1, <4>4 DEF Smoothed
      <4>6. ahead \in Int /\ h \in Int /\ offset \in Int /\ new \in Int /\ offset' \in Int
        BY <2>1, <3>1, <4>1, <4>4
      <4>7. ahead <= offset' + h + 7 /\ offset' <= ahead + h
        BY <4>5, <4>6, RoundingStays
      <4> QED
        BY <4>4, <4>7
    <3> QED
      BY <3>5, <3>6 DEF ClockInv
  <2> HIDE DEF double, new, ways
  <2> QED
    BY <2>1, <2>3, <2>5, <2>6 DEF ClockInv
<1>2. CASE UNCHANGED clockVars
  BY <1>2 DEF clockVars, ClockInv
<1> QED
  BY <1>1, <1>2 DEF Pong

\* The invariant holds in every behaviour of ClockSync.
THEOREM ClockInvariant == ClockSpec => []ClockInv
<1>1. ClockInit => ClockInv
  BY DEF ClockInit, ClockInv
<1> QED
  BY <1>1, ClockStepInv, PTL DEF ClockSpec

\* Whatever the width of the stamps and the longest way, as long as sixteen times the
\* offset and two ways more stay within the width: no estimate of the round trip exceeds the
\* longest one, for every peer; and if the peer's clock is ahead by half a way or more, its
\* offset is right to half the difference of the ways, and the 7 us that rounding
\* accumulates never become 8.
THEOREM OffsetIsClose == ClockSpec => []OffsetClose
<1>1. ClockInv => OffsetClose
  <2> SUFFICES ASSUME ClockInv, initialized, 2 * ahead >= MaxDelay
               PROVE  OffsetWithin
    BY DEF OffsetClose, ClockInv
  <2>1. MaxDelay \in Nat /\ ahead \in Int
    BY ClockSizes DEF ClockInv
  <2> DEFINE h == MaxDelay \div 2
  <2>2. h \in Nat
    BY <2>1
  <2>3. offset \in Nat /\ ahead <= offset + h + 7 /\ offset <= ahead + h
    BY DEF ClockInv
  <2> HIDE DEF h
  <2>4. offset - ahead \in (-h - 7)..h
    BY <2>1, <2>2, <2>3
  <2> QED
    BY <2>4 DEF h, OffsetWithin
<1> QED
  BY <1>1, ClockInvariant, PTL
================================================================================
