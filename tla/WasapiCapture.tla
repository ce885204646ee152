------------------------------ MODULE WasapiCapture ------------------------------
(***************************************************************************)
(* WasapiCapture of server/audio/wasapi_capture.cpp over a model of the    *)
(* audio engine, which buffers packets of a started client and sets the    *)
(* auto-reset event the client has registered.  One thread calls; it       *)
(* starts only what the last init has made, and stops before it makes      *)
(* another.  Samples are left out.                                         *)
(***************************************************************************)
EXTENDS Integers

CONSTANTS
    Packets,    \* bound: packets that arrive
    Inits       \* bound: calls of init

ASSUME CaptureAssumption == {Packets, Inits} \subseteq Nat

VARIABLES
    client,         \* audio_client_ and its service: "none", "failed" or "ready"
    event,          \* event_handle_: "null" or "open"
    capturing,      \* is_capturing_
    draining,       \* read_frames has been woken and takes packets
    buffered,       \* packets in the engine
    signalled,      \* state of the event
    packetsLeft,    \* packets that may still arrive
    initsLeft,      \* calls of init left
    interrupted     \* history: a read broke off, and no packet has arrived since

captureVars == <<client, event, capturing, draining, buffered, signalled,
                 packetsLeft, initsLeft, interrupted>>
engineVars == <<buffered, signalled, packetsLeft, interrupted>>

CaptureTypeOK ==
    /\ client \in {"none", "failed", "ready"}
    /\ event \in {"null", "open"}
    /\ {capturing, draining, signalled, interrupted} \subseteq BOOLEAN
    /\ {buffered, packetsLeft} \subseteq 0..Packets
    /\ initsLeft \in 0..Inits

CaptureInit ==
    /\ client = "none"
    /\ event = "null"
    /\ capturing = FALSE
    /\ draining = FALSE
    /\ buffered = 0
    /\ signalled = FALSE
    /\ packetsLeft = Packets
    /\ initsLeft = Inits
    /\ interrupted = FALSE

--------------------------------------------------------------------------------
\* init: a new client, with a new event registered.
InitCapture ==
    /\ ~capturing
    /\ initsLeft > 0
    /\ client' = "ready"
    /\ event' = "open"
    /\ buffered' = 0
    /\ signalled' = FALSE
    /\ interrupted' = FALSE
    /\ initsLeft' = initsLeft - 1
    /\ UNCHANGED <<capturing, draining, packetsLeft>>

\* One of its calls fails: before an event is created, in creating it, or after it.
InitCaptureFails ==
    /\ ~capturing
    /\ initsLeft > 0
    /\ client' = "failed"
    /\ event' \in {event, "null", "open"}
    /\ initsLeft' = initsLeft - 1
    /\ buffered' = 0
    /\ UNCHANGED <<capturing, draining, signalled, packetsLeft, interrupted>>

\* start, unless the client refuses.
StartCapture ==
    /\ client = "ready"
    /\ ~capturing
    /\ capturing' = TRUE
    /\ UNCHANGED <<client, event, draining, engineVars, initsLeft>>

\* stop, also from the destructor: the event goes, and only init makes another.
StopCapture ==
    /\ ~draining
    /\ capturing \/ event = "open"
    /\ capturing' = FALSE
    /\ event' = "null"
    /\ signalled' = FALSE
    /\ UNCHANGED <<client, draining, buffered, packetsLeft, initsLeft, interrupted>>

\* The engine of a started client.
PacketArrives ==
    /\ capturing
    /\ packetsLeft > 0
    /\ packetsLeft' = packetsLeft - 1
    /\ buffered' = buffered + 1
    /\ signalled' = (event = "open")
    /\ interrupted' = FALSE
    /\ UNCHANGED <<client, event, capturing, draining, initsLeft>>

\* read_frames wakes; without an event, or after a second, it answers an error instead.
ReadWakes ==
    /\ capturing
    /\ ~draining
    /\ event = "open" /\ signalled
    /\ signalled' = FALSE
    /\ draining' = TRUE
    /\ UNCHANGED <<client, event, capturing, buffered, packetsLeft, initsLeft, interrupted>>

\* Mutant: a read takes one packet.
Bug_ReadTakesOne ==
    /\ draining
    /\ buffered > 0
    /\ buffered' = buffered - 1
    /\ draining' = FALSE
    /\ UNCHANGED <<client, event, capturing, signalled, packetsLeft, initsLeft, interrupted>>

\* GetBuffer and ReleaseBuffer, until no packet is left.
ReadTakes ==
    /\ draining
    /\ buffered > 0
    /\ buffered' = buffered - 1
    /\ UNCHANGED <<client, event, capturing, draining, signalled, packetsLeft, initsLeft, interrupted>>

ReadReturns ==
    /\ draining
    /\ buffered = 0
    /\ draining' = FALSE
    /\ UNCHANGED <<client, event, capturing, engineVars, initsLeft>>

\* One of the calls of the loop fails: what has been taken is returned, and no event will
\* announce the rest.
ReadBreaksOff ==
    /\ draining
    /\ draining' = FALSE
    /\ interrupted' = TRUE
    /\ UNCHANGED <<client, event, capturing, buffered, signalled, packetsLeft, initsLeft>>

CaptureNext ==
    \/ InitCapture \/ InitCaptureFails \/ StartCapture \/ StopCapture \/ PacketArrives
    \/ ReadWakes \/ ReadTakes \/ ReadReturns \/ ReadBreaksOff

CaptureSpec == CaptureInit /\ [][CaptureNext]_captureVars

--------------------------------------------------------------------------------
(* Properties *)

\* While capturing goes on after init and start, what the engine has buffered is read, in
\* whatever order packets, events and reads come: an auto-reset event that stands for
\* several packets, or is set during a read, loses none.  Excepted are the two ways to
\* starve it the code has: a start after stop without init, which leaves no event, and a
\* read that broke off.
AudioFlows ==
    (capturing /\ event = "open" /\ buffered > 0) ~> (buffered = 0 \/ ~capturing \/ interrupted)
================================================================================
