--------------------------------- MODULE MCParts ---------------------------------
(***************************************************************************)
(* The parts of the repository that no other code calls: their classes are *)
(* complete, but the program that would connect them is not written.  One  *)
(* run checks them all.  Which part runs is chosen in the initial state,   *)
(* and the others stay in an initial state: the parts share nothing, so no *)
(* interleaving of theirs could show more.                                 *)
(***************************************************************************)
EXTENDS SceneAnalyzer, AdaptiveController, CongestionControl, PacketPacer, FecEncoder,
        MultipathManager, WasapiCapture, AlsaPlayback, ClockSync, VaapiDecoder, Screens

VARIABLE part   \* the part that runs

partsVars == <<part, sceneVars, rateVars, congestionVars, pacerVars, fecVars, pathVars,
               captureVars, playbackVars, clockVars, decoderVars, screensVars>>

--------------------------------------------------------------------------------
(* Inputs *)

Cell(x, y) == [left |-> x, right |-> x + 1, top |-> y, bottom |-> y + 1]

\* Lists of up to two rectangles, and of four that begin with two cells: among these are
\* all orders in which a merged rectangle meets one that was kept apart before.
MCFrames ==
    {<<>>} \cup {<<r>> : r \in Rect} \cup {<<r, s>> : r, s \in Rect}
           \cup {<<Cell(0, 0), Cell(0, 1), r, s>> : r, s \in Rect}

\* Peers that are behind, ahead by less than half the longest way of 6, by half of it, and by
\* the most the assumption allows stamps of 1024 values.
MCOffsets == {-40, 2, 3, 20, 51}

--------------------------------------------------------------------------------
Is(p) == part = p

\* A part that does not run has one initial state only.
PartsInit ==
    /\ part \in {"scene", "rate", "congestion", "pacer", "fec", "paths",
                 "capture", "playback", "clock", "decoder", "screens"}
    /\ SceneInit /\ CongestionInit /\ PacerInit /\ FecInit /\ PathsInit
    /\ CaptureInit /\ PlaybackInit /\ DecoderInit
    /\ RateInit /\ (~Is("rate") => agreed = {})
    /\ ClockInit /\ (~Is("clock") => ahead = CHOOSE o \in Offsets : TRUE)
    /\ ScreensInit /\ (~Is("screens") => wifi = "held" /\ networks = 1 /\ placeholder)

\* The parts that do not run stay as they are.
OthersStay ==
    /\ UNCHANGED part
    /\ IF Is("scene") THEN TRUE ELSE UNCHANGED sceneVars
    /\ IF Is("rate") THEN TRUE ELSE UNCHANGED rateVars
    /\ IF Is("congestion") THEN TRUE ELSE UNCHANGED congestionVars
    /\ IF Is("pacer") THEN TRUE ELSE UNCHANGED pacerVars
    /\ IF Is("fec") THEN TRUE ELSE UNCHANGED fecVars
    /\ IF Is("paths") THEN TRUE ELSE UNCHANGED pathVars
    /\ IF Is("capture") THEN TRUE ELSE UNCHANGED captureVars
    /\ IF Is("playback") THEN TRUE ELSE UNCHANGED playbackVars
    /\ IF Is("clock") THEN TRUE ELSE UNCHANGED clockVars
    /\ IF Is("decoder") THEN TRUE ELSE UNCHANGED decoderVars
    /\ IF Is("screens") THEN TRUE ELSE UNCHANGED screensVars

PartsNext ==
    \/ Is("scene") /\ SceneNext /\ OthersStay
    \/ Is("rate") /\ RateNext /\ OthersStay
    \/ Is("congestion") /\ CongestionNext /\ OthersStay
    \/ Is("pacer") /\ PacerNext /\ OthersStay
    \/ Is("fec") /\ FecNext /\ OthersStay
    \/ Is("paths") /\ PathsNext /\ OthersStay
    \/ Is("capture") /\ CaptureNext /\ OthersStay
    \/ Is("playback") /\ PlaybackNext /\ OthersStay
    \/ Is("clock") /\ Pong /\ OthersStay
    \/ Is("decoder") /\ DecoderNext /\ OthersStay
    \/ Is("screens") /\ ScreensNext /\ OthersStay

--------------------------------------------------------------------------------
(* Fairness of the part that runs *)

\* The pacer's loop runs on, and a thread is not for ever woken to the microsecond.
PacerFairness ==
    /\ WF_pacerVars(Is("pacer") /\ Sends)
    /\ SF_pacerVars(Is("pacer") /\ Oversleeps)

\* The caller of MultipathManager calls receive again and again, and receive returns.
PathsFairness ==
    /\ WF_pathVars(Is("paths") /\ ReceiveBegins)
    /\ WF_pathVars(Is("paths") /\ (ReceiveActive \/ ReceiveOther))

\* The caller of WasapiCapture reads again and again, and its calls return.
CaptureFairness == WF_captureVars(Is("capture") /\ (ReadWakes \/ ReadTakes \/ ReadReturns))

\* The loop of write_frames runs on; mishaps are finitely many.
PlaybackFairness == WF_playbackVars(Is("playback") /\ WriteLoop)

PartsSpec ==
    /\ PartsInit
    /\ [][PartsNext]_partsVars
    /\ PacerFairness /\ PathsFairness /\ CaptureFairness /\ PlaybackFairness
================================================================================
