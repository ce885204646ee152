--------------------------- MODULE AdaptiveController ---------------------------
(***************************************************************************)
(* AdaptiveController of server/encoder/adaptive_controller.cpp: from the  *)
(* codecs agreed with a client, the estimated bandwidth and the verdict on *)
(* each frame it chooses codec, bit rate and keyframes.  Rates are in      *)
(* Mbit/s, and Word is what 32 bits of bit/s hold.  What happens to the    *)
(* encoded frames belongs to the caller: a keyframe may be lost.           *)
(***************************************************************************)
EXTENDS Integers

CONSTANTS
    MaxGop,         \* max_gop_size_: frames between two keyframes (300)
    Word,           \* 2^32 bit/s
    Estimates,      \* estimates of the bandwidth that occur
    Agreed,         \* what client and server both support, for each client that occurs
    MaxMissed       \* bound: keyframes a client misses in a row

Codec == {"H264", "HEVC", "AV1"}
Feature == Codec \cup {"lossless"}

ASSUME ControllerAssumption ==
    /\ MaxGop \in Nat \ {0}
    /\ Word \in Nat \ {0}
    /\ Estimates \subseteq Nat
    /\ Agreed \subseteq SUBSET Feature
    /\ MaxMissed \in Nat

VARIABLES
    agreed,         \* server_caps_ and client_caps_, what they have in common
    estimate,       \* last_stats_.bandwidth_est_bps
    config,         \* current_config_
    sinceKey,       \* frames_since_keyframe_
    switched,       \* history: the codec has changed since the last frame
    waited, missed  \* history: frames the client has waited for a keyframe, keyframes lost

rateVars == <<agreed, estimate, config, sinceKey, switched, waited, missed>>

RateTypeOK ==
    /\ agreed \subseteq Feature
    /\ estimate \in Nat
    /\ config \in [codec : Codec, rate : Nat, idr : BOOLEAN, lossless : BOOLEAN]
    /\ sinceKey \in 0..(MaxGop - 1)
    /\ switched \in BOOLEAN
    /\ waited \in Nat
    /\ missed \in 0..MaxMissed

--------------------------------------------------------------------------------
Best(a) ==
    CASE "AV1" \in a -> "AV1"
      [] "HEVC" \in a -> "HEVC"
      [] OTHER -> "H264"

\* adapt_codec: above 2 Gbit/s lossless, in the codec there is, if both sides can.
AdaptCodec(c, e, a) ==
    IF e > 2000 /\ "lossless" \in a
    THEN [c EXCEPT !.lossless = TRUE]
    ELSE [c EXCEPT !.lossless = FALSE,
                   !.codec = Best(a),
                   !.idr = @ \/ c.codec # Best(a)]

\* 80% of the estimate converted to 32 bits, which is undefined when it does not fit:
\* the processor keeps the low bits or the largest number; then 1..150 Mbit/s.
Targets(e) ==
    LET wanted == (e * 4) \div 5
        words  == IF wanted < Word THEN {wanted} ELSE {wanted % Word, Word - 1}
    IN  {IF w < 1 THEN 1 ELSE IF w > 150 THEN 150 ELSE w : w \in words}

\* adapt_bitrate: without an estimate, or for a change up to 1 Mbit/s, nothing happens.
AdaptBitrate(c, e) ==
    IF e = 0 THEN {c}
    ELSE {IF t - c.rate \in -1..1 THEN c ELSE [c EXCEPT !.rate = t] : t \in Targets(e)}

Default == [codec |-> "H264", rate |-> 5, idr |-> TRUE, lossless |-> FALSE]

--------------------------------------------------------------------------------
\* The program calls init with the first client before anything else.
RateInit ==
    /\ agreed \in Agreed
    /\ estimate = 0
    /\ config = AdaptCodec(Default, 0, agreed)
    /\ sinceKey = 0
    /\ switched = FALSE
    /\ waited = 0
    /\ missed = 0

NotesSwitch == switched' = (switched \/ config'.codec # config.codec)

\* Mutant: init adapts the configuration of the client before.
Bug_ClientConnectsKeepsConfig ==
    /\ agreed' \in Agreed
    /\ config' = AdaptCodec(config, estimate, agreed')
    /\ NotesSwitch
    /\ waited' = 0
    /\ missed' = 0
    /\ UNCHANGED <<estimate, sinceKey>>

\* init for another client: the estimate and the frame counter stay.
ClientConnects ==
    /\ agreed' \in Agreed
    /\ config' = AdaptCodec(Default, estimate, agreed')
    /\ NotesSwitch
    /\ waited' = 0
    /\ missed' = 0
    /\ UNCHANGED <<estimate, sinceKey>>

UpdateNetworkStats ==
    /\ estimate' \in Estimates
    /\ \E c \in AdaptBitrate(config, estimate') :
          config' = AdaptCodec(c, estimate', agreed)
    /\ NotesSwitch
    /\ UNCHANGED <<agreed, sinceKey, waited, missed>>

\* evaluate_frame returns config', in which the keyframe that a change of codec or client
\* has asked for is forgotten.  The client gets the frame, or loses it: a lost
\* keyframe is not asked for again.
Frame(key) ==
    /\ config' = [config EXCEPT !.idr = key]
    /\ sinceKey' = IF key THEN 0 ELSE sinceKey + 1
    /\ switched' = FALSE
    /\ \/ waited' = (IF key THEN 0 ELSE waited + 1) /\ missed' = (IF key THEN 0 ELSE missed)
       \/ key /\ missed < MaxMissed /\ waited' = waited + 1 /\ missed' = missed + 1
    /\ UNCHANGED <<agreed, estimate>>

\* Mutant: the limit is noticed only by frames that changed.
Bug_EvaluateFrameIdleFirst(scene) ==
    Frame(scene.keyframe \/ (~scene.idle /\ sinceKey + 1 >= MaxGop))

EvaluateFrame(scene) == Frame(scene.keyframe \/ sinceKey + 1 >= MaxGop)

\* The verdicts of SceneAnalyzer: a frame is not both idle and a change of scene.
Verdicts == {v \in [idle : BOOLEAN, keyframe : BOOLEAN] : ~(v.idle /\ v.keyframe)}

EvaluateAny == \E scene \in Verdicts : EvaluateFrame(scene)

RateNext == ClientConnects \/ UpdateNetworkStats \/ EvaluateAny

RateSpec == RateInit /\ [][RateNext]_rateVars

--------------------------------------------------------------------------------
(* Properties *)

\* What limits the damage, since evaluate_frame forgets the keyframes init and adapt_codec
\* have asked for: a client that joins in mid-stream, or loses keyframes, starts to see a
\* picture within MaxGop frames for each keyframe it misses, however frames, idle ones too,
\* statistics and other clients alternate.
KeyframeInTime == waited < MaxGop * (1 + missed)

\* Promised and false, "Force IDR on codec switch": the first frame after the codec has
\* changed is a keyframe.  evaluate_frame clears the flag before it returns it.
CodecSwitchForcesIdr == [][switched /\ ~switched' => config'.idr]_rateVars

\* The stream is always one that the present client decodes, although the estimate that
\* chose lossless coding for the client before is still there: init must forget its codec.
ClientCanDecode ==
    /\ config.codec \in agreed \cup {"H264"}
    /\ config.lossless => "lossless" \in agreed
================================================================================
