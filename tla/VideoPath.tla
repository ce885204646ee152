------------------------------- MODULE VideoPath -------------------------------
(***************************************************************************)
(* The way of a picture on the server: DxgiCapture, D3D11ColorConverter    *)
(* and an IEncoder, driven by a loop that does what their headers ask of   *)
(* it: init, then acquire_next_frame, convert, reconfigure, encode and     *)
(* release_frame for each frame, and init again when the capture reports   *)
(* that it has to.  The repository has no such loop yet; this one makes a  *)
(* new converter and a new encoder on each device it gets, and may answer  *)
(* an error of the capture by another attempt or by init.  At least one    *)
(* encoder is installed.                                                   *)
(***************************************************************************)
EXTENDS Encoder

CONSTANT MaxRangeChanges    \* bound: changes of the range the client asks for

ASSUME VideoPathAssumption == MaxRangeChanges \in Nat

VARIABLES
    pc,         \* where the loop is
    wanted,     \* request_hdr of the next conversion
    given,      \* the range of the texture convert answered last
    changes     \* changes of wanted so far

vars == <<captureVars, conv, installed, enc, pc, wanted, given, changes>>
loopVars == <<installed, wanted, given, changes>>

TypeOK ==
    /\ CaptureTypeOK
    /\ ConverterTypeOK
    /\ EncoderTypeOK
    /\ pc \in {"init", "setup", "acquire", "failed", "captured", "converted",
               "configured", "delivered", "dropped"}
    /\ {wanted, given} \subseteq Range
    /\ changes \in 0..MaxRangeChanges

Init ==
    /\ CaptureInit
    /\ conv = None
    /\ installed \in SUBSET Kind \ {{}}
    /\ enc = None
    /\ pc = "init"
    /\ wanted = "sdr"
    /\ given = "sdr"
    /\ changes = 0

--------------------------------------------------------------------------------
(* The loop *)

Go(from, to) == pc = from /\ pc' = to

InitCapture ==
    /\ \/ Go("init", "setup") /\ InitSucceeds
       \/ Go("init", "init") /\ (InitNoDevice \/ InitNoOutput \/ InitNoDuplication)
    /\ UNCHANGED <<conv, enc, loopVars>>

\* A converter and an encoder for the device of the capture.
SetUp ==
    /\ Go("setup", "acquire")
    /\ lost # "device"
    /\ conv' = NewConverter
    /\ enc' \in NewEncoders
    /\ enc'.bitstream \/ faults < MaxFaults
    /\ faults' = IF enc'.bitstream THEN faults ELSE faults + 1
    /\ UNCHANGED <<desktop, lost, device, dupl, held, described, staging, switches>>
    /\ UNCHANGED loopVars

SetUpFails ==
    /\ Go("setup", "init")
    /\ \/ lost = "device" /\ UNCHANGED faults
       \/ Fault
    /\ UNCHANGED <<desktop, lost, device, dupl, held, described, staging, switches>>
    /\ UNCHANGED <<conv, enc, loopVars>>

Acquire ==
    /\ Go("acquire", "captured")
    /\ AcquireSucceeds
    /\ conv' = Aged
    /\ UNCHANGED <<enc, loopVars>>

AcquireNothing ==
    /\ \/ Go("acquire", "acquire") /\ AcquireTimesOut
       \/ Go("acquire", "init") /\ NotInitialised
       \/ /\ Go("acquire", "failed")
          /\ AcquireFails \/ AcquireAccessLost \/ AcquireDeviceLost \/ AcquireNoStaging
    /\ UNCHANGED <<conv, enc, loopVars>>

\* The error codes do not tell a lost capture from one to try again.
Retry ==
    /\ pc = "failed"
    /\ pc' \in {"acquire", "init"}
    /\ UNCHANGED <<captureVars, conv, enc, loopVars>>

Convert ==
    /\ \/ /\ Go("captured", "converted")
          /\ ConvertSucceeds(wanted)
          /\ given' = wanted
       \/ /\ Go("captured", "dropped")
          /\ ConvertNoOutput(wanted) \/ ConvertNoBlit(wanted)
          /\ UNCHANGED given
    /\ UNCHANGED <<installed, enc, wanted, changes>>

Reconfigure ==
    /\ \/ Go("converted", "configured") /\ ReconfigureSucceeds
       \/ pc = "converted" /\ pc' \in {"configured", "dropped"} /\ ReconfigureRefused
    /\ UNCHANGED loopVars

Encode ==
    /\ Go("configured", "delivered")
    /\ EncodeNvenc(given) \/ EncodeAmf \/ EncodeQsv
    /\ UNCHANGED loopVars

EncodeNothing ==
    /\ Go("configured", "dropped")
    /\ EncodeNvencFails(given) \/ EncodeAmfLater \/ EncodeAmfFails \/ EncodeQsvSkips
    /\ UNCHANGED loopVars

Release ==
    /\ Go("delivered", "acquire") \/ Go("dropped", "acquire")
    /\ ReleaseFrame
    /\ UNCHANGED <<conv, enc, loopVars>>

--------------------------------------------------------------------------------

\* The client asks for the other range.
ChangeRange ==
    /\ changes < MaxRangeChanges
    /\ changes' = changes + 1
    /\ wanted' \in Range \ {wanted}
    /\ UNCHANGED <<captureVars, conv, installed, enc, pc, given>>

Desktop ==
    /\ ModeSwitch \/ SecureDesktop \/ DeviceRemoved
    /\ UNCHANGED <<conv, enc, pc, loopVars>>

Loop ==
    \/ InitCapture \/ SetUp \/ SetUpFails \/ Acquire \/ AcquireNothing \/ Retry
    \/ Convert \/ Reconfigure \/ Encode \/ EncodeNothing \/ Release

Next == Loop \/ ChangeRange \/ Desktop

Spec == Init /\ [][Next]_vars

\* The loop runs on, and a desktop watched again and again shows a new frame.
FairSpec ==
    /\ Spec
    /\ WF_vars(Loop)
    /\ SF_vars(Acquire)
--------------------------------------------------------------------------------
(* Properties *)

\* The picture an encoder takes is made from the frame acquired last, whatever calls
\* have failed before, unless NVENC was given another texture than the one it
\* registered first (a change of range): nvenc_encoder.cpp:104.
PictureIsFresh ==
    [][Encode => \/ conv.out[InputOf(given)].fresh
                 \/ InputOf(given) # given]_vars

\* What is described to the caller (width_, height_, format_), the staging texture and
\* the converted texture agree, across mode changes and re-initialisations: the
\* textures kept from frame to frame are dropped when they no longer fit.
SizesAgree ==
    /\ pc \in {"captured", "converted", "configured"} => staging.mode = described
    /\ pc \in {"converted", "configured"} => conv.out[given].mode = described

\* A frame stays acquired past its turn only when its staging texture could not be
\* created: the loop never asks DXGI for a frame while it holds one otherwise.
HeldInTurn ==
    held => \/ pc \in {"captured", "converted", "configured", "delivered", "dropped"}
            \/ staging = None

\* Why no picture may ever be delivered again: the staging texture belongs to a
\* device given up, the processor was lost to a failed change of range, or the AMF
\* component is full.
Stuck ==
    \/ staging # None /\ ~staging.ours
    \/ /\ conv # None
       /\ conv.out[wanted] # None
       /\ ~(conv.enumerator /\ conv.processor)
    \/ enc # None /\ enc.queued = AmfDepth

\* Losses of the desktop or of the device, leaked frames and failed calls are got
\* over: pictures are delivered again and again, unless the loop is stuck for one of
\* the three reasons above.
StreamRecovers == []<>(pc = "delivered") \/ <>[]Stuck

\* "Zero-copy: ... We just copy from the DWM resource to our isolated resource"
\* (dxgi_capture.cpp:128): the texture acquire_next_frame answers holds the frame.
\* It does not once the capture was re-initialised in the same mode.
AcquireCopies == [][Acquire => staging'.fresh]_vars
================================================================================
