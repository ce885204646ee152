---------------------------- MODULE CongestionControl ----------------------------
(***************************************************************************)
(* GoogleCongestionControl of shared/transport/congestion_gcc.cpp: the     *)
(* target rate falls and grows with the slope of the delay and with the    *)
(* loss counted over windows of packets.  The slope is abstracted to the   *)
(* side of its two thresholds it is on.  Rates are small numbers; Low is   *)
(* large enough for 1.05 times a rate to be more than that rate.           *)
(***************************************************************************)
EXTENDS Integers, Sequences

CONSTANTS
    Low, High, Start,   \* min_bitrate_bps_, max_bitrate_bps_ and the first target
    Limits,             \* values the two setters are called with
    Window,             \* packets in a loss window (100)
    HistoryMax,         \* packets remembered until they are acknowledged (1000)
    SeqNos              \* number of sequence numbers (2^16)

ASSUME CongestionAssumption ==
    /\ {Low, High, Start} \cup Limits \subseteq {n \in Nat : n >= 20}
    /\ Low <= Start /\ Start <= High
    /\ {Window, HistoryMax} \subseteq Nat \ {0}
    /\ SeqNos > HistoryMax

VARIABLES
    target,         \* target_bitrate_bps_
    low, high,      \* min_bitrate_bps_, max_bitrate_bps_
    history,        \* history_: the sequence numbers sent and not acknowledged
    next,           \* the next sequence number
    passed,         \* how many of history were sent before the last one acknowledged
    timed,          \* whether last_send_time_ and last_arrival_time_ are set
    slope,          \* trendline_slope_: "under", "normal" or "over"
    counted,        \* packets_since_last_loss_update_
    lost            \* lost_packets_

congestionVars == <<target, low, high, history, next, passed, timed, slope, counted, lost>>
sentVars == <<history, next, passed>>

SeqNo == 0..(SeqNos - 1)

CongestionTypeOK ==
    /\ {target, low, high} \subseteq Nat
    /\ history \in Seq(SeqNo)
    /\ Len(history) <= HistoryMax
    /\ next \in SeqNo
    /\ passed \in 0..Len(history)
    /\ timed \in BOOLEAN
    /\ slope \in {"under", "normal", "over"}
    /\ counted \in 0..(Window - 1)
    /\ lost \in 0..counted

CongestionInit ==
    /\ target = Start
    /\ low = Low
    /\ high = High
    /\ history = <<>>
    /\ next = 0
    /\ passed = 0
    /\ timed = FALSE
    /\ slope = "normal"
    /\ counted = 0
    /\ lost = 0

--------------------------------------------------------------------------------
Without(s, k) == SubSeq(s, 1, k - 1) \o SubSeq(s, k + 1, Len(s))

Smaller(a, b) == IF a <= b THEN a ELSE b
Larger(a, b) == IF a <= b THEN b ELSE a

Clamp(r) == Smaller(Larger(r, low), high)

ByDelay(r, s) ==
    CASE s = "over" -> (r * 85) \div 100
      [] s = "under" -> (r * 105) \div 100
      [] OTHER -> r

\* n packets of which l lost: above 10% the rate falls by half of it, below 2% it grows.
ByLoss(r, n, l) ==
    CASE l * 10 > n -> (r * (2 * n - l)) \div (2 * n)
      [] l * 50 < n -> (r * 105) \div 100
      [] OTHER -> r

\* Mutant: the losses of a window are counted again in the next.
Bug_EstimateKeepsLost(s, n, l) ==
    /\ slope' = s
    /\ IF n >= Window
       THEN /\ target' = Clamp(ByLoss(ByDelay(target, s), n, l))
            /\ counted' = 0
            /\ lost' = l
       ELSE /\ target' = Clamp(ByDelay(target, s))
            /\ counted' = n
            /\ lost' = l

\* update_bitrate_estimate with slope s, n packets counted and l of them lost.
Estimate(s, n, l) ==
    /\ slope' = s
    /\ IF n >= Window
       THEN /\ target' = Clamp(ByLoss(ByDelay(target, s), n, l))
            /\ counted' = 0
            /\ lost' = 0
       ELSE /\ target' = Clamp(ByDelay(target, s))
            /\ counted' = n
            /\ lost' = l

\* on_packet_sent: a full history forgets its oldest packet.
PacketSent ==
    /\ IF Len(history) < HistoryMax
       THEN history' = Append(history, next) /\ passed' = passed
       ELSE history' = Append(Tail(history), next) /\ passed' = Larger(passed - 1, 0)
    /\ next' = (next + 1) % SeqNos
    /\ UNCHANGED <<target, low, high, timed, slope, counted, lost>>

\* on_packet_acked for a packet in the history: only one sent after the packet
\* acknowledged before it moves the slope.
PacketAcked ==
    /\ \E k \in DOMAIN history :
          /\ \E s \in {"under", "normal", "over"} :
                /\ s # slope => timed /\ k > passed
                /\ Estimate(s, counted + 1, lost)
          /\ history' = Without(history, k)
          /\ passed' = k - 1
    /\ timed' = TRUE
    /\ UNCHANGED <<low, high, next>>

\* on_packet_acked for any other: the estimate is made again from the old slope.
AckRepeated ==
    /\ \E s \in SeqNo : \A k \in DOMAIN history : history[k] # s
    /\ Estimate(slope, counted, lost)
    /\ UNCHANGED <<low, high, sentVars, timed>>

\* on_packet_lost: the packet stays in the history, and the old slope counts once more.
PacketLost ==
    /\ Estimate(slope, counted + 1, lost + 1)
    /\ UNCHANGED <<low, high, sentVars, timed>>

\* The setters; a minimum above the maximum makes std::clamp undefined, and no caller
\* may set one.
SetMinBitrate ==
    /\ low' \in {r \in Limits : r <= high}
    /\ target' = Larger(target, low')
    /\ UNCHANGED <<high, sentVars, timed, slope, counted, lost>>

SetMaxBitrate ==
    /\ high' \in {r \in Limits : r >= low}
    /\ target' = Smaller(target, high')
    /\ UNCHANGED <<low, sentVars, timed, slope, counted, lost>>

CongestionNext ==
    \/ PacketSent \/ PacketAcked \/ AckRepeated \/ PacketLost
    \/ SetMinBitrate \/ SetMaxBitrate

CongestionSpec == CongestionInit /\ [][CongestionNext]_congestionVars

--------------------------------------------------------------------------------
(* Properties *)

\* No step of the path disturbs the flow any more: nothing is lost, and the slope is not
\* that of an overused link.
Undisturbed == slope' # "over" /\ ~PacketLost /\ UNCHANGED <<low, high>>

\* A path that works again is used again: whatever cuts loss, delay and stale estimates
\* have made, if the disturbance ends and acknowledgements go on, the target climbs to the
\* maximum.  The window of the last losses may still cut it, the next may not.
RateRecovers ==
    <>[][Undisturbed]_congestionVars /\ []<><<PacketAcked>>_congestionVars
        => <>[](target = high)
================================================================================
