------------------------------ MODULE VaapiDecoder ------------------------------
(***************************************************************************)
(* VaapiDecoder of client/decoder/vaapi_decoder.cpp over a model of VA-API *)
(* whose every call may fail.  One thread calls init once, then submits    *)
(* packets and gets frames, and destroys the decoder; all pictures go to   *)
(* the first surface.                                                      *)
(***************************************************************************)
EXTENDS Integers

CONSTANT MaxPackets     \* bound: packets submitted

ASSUME DecoderAssumption == MaxPackets \in Nat

VARIABLES
    life,       \* the decoder: "new", "ready", "failed" or "destroyed"
    display,    \* va_dpy_ is set
    members,    \* of va_config_, surfaces_ and va_ctx_ those that are set or sized
    driver,     \* of config, surfaces and context those the driver holds
    buffers,    \* slice buffers made for packets; no line destroys one
    misfreed,   \* history: resources destroyed that the driver did not hold
    drawing,    \* the driver is between vaBeginPicture and vaEndPicture
    endFailed,  \* history: a vaEndPicture has failed
    packets,    \* packets submitted
    surface,    \* the packet whose picture the first surface shows, or 0
    shown       \* the packet whose picture the last frame returned shows, or 0

decoderVars == <<life, display, members, driver, buffers, misfreed, drawing, endFailed,
                 packets, surface, shown>>
lifeVars == <<life, display, members, driver, misfreed>>

Resource == {"config", "surfaces", "context"}

DecoderTypeOK ==
    /\ life \in {"new", "ready", "failed", "destroyed"}
    /\ {members, driver, misfreed} \subseteq SUBSET Resource
    /\ {display, drawing, endFailed} \subseteq BOOLEAN
    /\ {packets, surface, shown} \subseteq 0..MaxPackets
    /\ buffers \subseteq 1..packets

DecoderInit ==
    /\ life = "new"
    /\ display = FALSE
    /\ members = {}
    /\ driver = {}
    /\ buffers = {}
    /\ misfreed = {}
    /\ drawing = FALSE
    /\ endFailed = FALSE
    /\ packets = 0
    /\ surface = 0
    /\ shown = 0

--------------------------------------------------------------------------------
\* init succeeds, or fails after it has made some of the resources; create_surfaces sizes
\* the list of ids before the driver is asked to fill it.
InitDecoder ==
    /\ life = "new"
    /\ \E made \in {{}, {"config"}, {"config", "surfaces"}, Resource} :
          /\ display' \in (IF made = {} THEN BOOLEAN ELSE {TRUE})
          /\ driver' = made
          /\ members' = (IF made = {} THEN {} ELSE made \cup {"surfaces"})
          /\ life' = (IF made = Resource THEN "ready" ELSE "failed")
    /\ UNCHANGED <<buffers, misfreed, drawing, endFailed, packets, surface, shown>>

\* The next packet, or what is left of it: the driver may have drawn into the surface.
NextPacket ==
    /\ life = "ready"
    /\ packets < MaxPackets
    /\ packets' = packets + 1
    /\ UNCHANGED <<lifeVars, shown>>

MakesBuffer == buffers' = buffers \cup {packets + 1}

\* vaEndPicture after a failure; whether it fails too is not looked at.
EndsPicture ==
    \/ drawing' = FALSE /\ UNCHANGED endFailed
    \/ drawing' = TRUE /\ endFailed' = TRUE

\* Mutant: a packet for which no buffer could be made leaves the picture begun.
Bug_SubmitFailsUnended ==
    /\ NextPacket
    /\ surface' \in {surface, packets + 1}
    /\ drawing' = TRUE
    /\ UNCHANGED <<buffers, endFailed>>

\* submit_packet fails: vaBeginPicture refuses; or there is no slice buffer; or it is made
\* and cannot be rendered; or the picture cannot be ended.  A buffer made is never destroyed.
SubmitFails ==
    /\ NextPacket
    /\ surface' \in {surface, packets + 1}
    /\ \/ UNCHANGED <<surface, buffers, drawing, endFailed>>
       \/ UNCHANGED buffers /\ EndsPicture
       \/ MakesBuffer /\ EndsPicture
       \/ MakesBuffer /\ drawing' = TRUE /\ endFailed' = TRUE

\* submit_packet makes a slice buffer, which it leaves with the driver, and draws into the
\* first surface whatever is still shown from it.
SubmitPacket ==
    /\ NextPacket
    /\ surface' = packets + 1
    /\ MakesBuffer
    /\ drawing' = FALSE
    /\ UNCHANGED endFailed

\* get_frame exports the first surface, also when nothing was submitted since.
GetFrame ==
    /\ life = "ready"
    /\ shown' = surface
    /\ UNCHANGED <<lifeVars, buffers, drawing, endFailed, packets, surface>>

\* The destructor destroys what the members name; slice buffers are named by none, and
\* whether vaTerminate frees them is the driver's matter.
DestroyDecoder ==
    /\ life \in {"new", "ready", "failed"}
    /\ life' = "destroyed"
    /\ driver' = driver \ members
    /\ misfreed' = members \ driver
    /\ members' = {}
    /\ display' = FALSE
    /\ UNCHANGED <<buffers, drawing, endFailed, packets, surface, shown>>

DecoderNext == InitDecoder \/ SubmitPacket \/ SubmitFails \/ GetFrame \/ DestroyDecoder

DecoderSpec == DecoderInit /\ [][DecoderNext]_decoderVars

--------------------------------------------------------------------------------
(* Properties *)

\* However far init has come and whichever packets have failed, the destructor gives back
\* the config, the surfaces and the context (but not the slice buffers of the packets), no
\* picture stays begun unless the driver refused to end it, and nothing is destroyed that
\* was not made, but for the surfaces that the driver refused to make: their list has its
\* size all the same.
DecoderBalanced ==
    /\ life = "destroyed" => driver = {}
    /\ drawing => endFailed
    /\ misfreed \subseteq {"surfaces"}
================================================================================
