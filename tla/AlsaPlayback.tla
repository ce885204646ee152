------------------------------- MODULE AlsaPlayback -------------------------------
(***************************************************************************)
(* AlsaPlayback of client/audio/alsa_playback.cpp over a model of a PCM    *)
(* device that may run out of data, be suspended or fail at any moment,    *)
(* and whose snd_pcm_prepare and snd_pcm_resume may fail.  Frames are      *)
(* counted; setting the parameters is one step.                            *)
(***************************************************************************)
EXTENDS Integers

CONSTANTS
    Lengths,    \* frames passed to write_frames
    Mishaps     \* bound: mishaps of the device

ASSUME PlaybackAssumption == Lengths \subseteq Nat /\ Mishaps \in Nat

VARIABLES
    pcm,        \* what the device answers: see Device
    apc,        \* the call: "idle", or the ALSA function it is about to call
    frames,     \* frames of this call
    written,    \* frames the loop has counted
    answer,     \* of the last call: "ok" or "error"
    mishapsLeft

playbackVars == <<pcm, apc, frames, written, answer, mishapsLeft>>
callVars == <<frames, written, answer>>

\* "underrun" answers -EPIPE to a write, "suspended" and "resumable" answer -ESTRPIPE, and
\* "suspended" -EAGAIN to a resume; "broken" answers any other error.  A "jammed" device
\* answers -EPIPE or -ESTRPIPE and can be neither resumed nor prepared again.
Device == {"closed", "running", "underrun", "suspended", "resumable", "broken", "jammed"}

PlaybackTypeOK ==
    /\ pcm \in Device
    /\ apc \in {"idle", "writing", "preparing", "resuming"}
    /\ frames \in Lengths \cup {0}
    /\ written \in 0..frames
    /\ answer \in {"ok", "error"}
    /\ mishapsLeft \in 0..Mishaps

PlaybackInit ==
    /\ pcm = "closed"
    /\ apc = "idle"
    /\ frames = 0
    /\ written = 0
    /\ answer = "ok"
    /\ mishapsLeft = Mishaps

--------------------------------------------------------------------------------
\* init opens, configures and prepares; when it cannot configure, the handle is closed
\* again, but whether the device could be prepared it does not look.
OpenPlayback ==
    /\ pcm = "closed"
    /\ pcm' \in {"running", "broken"}
    /\ UNCHANGED <<apc, callVars, mishapsLeft>>

\* The device, whatever the program is doing.
Mishap ==
    /\ pcm \notin {"closed", "broken"}
    /\ mishapsLeft > 0
    /\ pcm' \in {"underrun", "suspended", "broken", "jammed"} \ {pcm}
    /\ mishapsLeft' = mishapsLeft - 1
    /\ UNCHANGED <<apc, callVars>>

PowerReturns ==
    /\ pcm = "suspended"
    /\ pcm' = "resumable"
    /\ UNCHANGED <<apc, callVars, mishapsLeft>>

\* write_frames; without a handle it answers an error.
WriteBegins ==
    /\ apc = "idle"
    /\ frames' \in Lengths
    /\ written' = 0
    /\ IF pcm = "closed"
       THEN apc' = "idle" /\ answer' = "error"
       ELSE apc' = "writing" /\ UNCHANGED answer
    /\ UNCHANGED <<pcm, mishapsLeft>>

Writes == apc = "writing" /\ written < frames

\* snd_pcm_writei takes some of the frames ...
WriteAccepts ==
    /\ Writes
    /\ pcm = "running"
    /\ written' \in (written + 1)..frames
    /\ UNCHANGED <<pcm, apc, frames, answer, mishapsLeft>>

\* Mutant: after an underrun the loop only tries again.
Bug_WriteUnderrunRetries ==
    /\ Writes
    /\ pcm \in {"underrun", "jammed"}
    /\ UNCHANGED playbackVars

\* ... or -EPIPE, and the device is to be prepared again ...
WriteUnderrun ==
    /\ Writes
    /\ pcm \in {"underrun", "jammed"}
    /\ apc' = "preparing"
    /\ UNCHANGED <<pcm, callVars, mishapsLeft>>

\* ... or -ESTRPIPE, and to be resumed ...
WriteSuspended ==
    /\ Writes
    /\ pcm \in {"suspended", "resumable", "jammed"}
    /\ apc' = "resuming"
    /\ UNCHANGED <<pcm, callVars, mishapsLeft>>

\* ... or another error, which ends the call.
WriteFails ==
    /\ Writes
    /\ pcm = "broken"
    /\ apc' = "idle"
    /\ answer' = "error"
    /\ UNCHANGED <<pcm, frames, written, mishapsLeft>>

\* snd_pcm_resume is called until it does not answer -EAGAIN, that is while the device is
\* suspended; it succeeds, or the device is to be prepared.
Resumes ==
    /\ apc = "resuming"
    /\ \/ pcm = "resumable" /\ pcm' = "running" /\ apc' = "writing"
       \/ pcm # "suspended" /\ apc' = "preparing" /\ UNCHANGED pcm
    /\ UNCHANGED <<callVars, mishapsLeft>>

\* snd_pcm_prepare, whose answer is thrown away, and the next turn of the loop: a failure is
\* a mishap, and may leave the device refusing every write.
Prepares ==
    /\ apc = "preparing"
    /\ apc' = "writing"
    /\ \/ pcm \notin {"broken", "jammed"} /\ pcm' = "running" /\ UNCHANGED mishapsLeft
       \/ pcm \in {"broken", "jammed"} /\ UNCHANGED <<pcm, mishapsLeft>>
       \/ /\ mishapsLeft > 0
          /\ mishapsLeft' = mishapsLeft - 1
          /\ pcm' \in {pcm, "broken"}
    /\ UNCHANGED callVars

WriteEnds ==
    /\ apc = "writing"
    /\ written >= frames
    /\ apc' = "idle"
    /\ answer' = "ok"
    /\ UNCHANGED <<pcm, frames, written, mishapsLeft>>

WriteLoop ==
    \/ WriteAccepts \/ WriteUnderrun \/ WriteSuspended \/ WriteFails
    \/ Resumes \/ Prepares \/ WriteEnds

PlaybackNext == OpenPlayback \/ Mishap \/ PowerReturns \/ WriteBegins \/ WriteLoop

PlaybackSpec == PlaybackInit /\ [][PlaybackNext]_playbackVars

--------------------------------------------------------------------------------
(* Properties *)

\* A write ends although the device runs dry, is suspended, breaks or cannot be prepared at
\* any moment on the way.  Two devices keep it in its loop, which never sleeps: one that
\* answers -EAGAIN to every resume, and one that answers -EPIPE or -ESTRPIPE to every write
\* and cannot be prepared.
WriteReturns == (apc # "idle") ~> (apc = "idle" \/ [](pcm \in {"suspended", "jammed"}))
================================================================================
