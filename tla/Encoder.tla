-------------------------------- MODULE Encoder --------------------------------
(***************************************************************************)
(* The three IEncoders of server/encoder and EncoderFactory, which takes   *)
(* the first whose driver library loads: NVENC, then AMF, then QSV.        *)
(*                                                                         *)
(* Codec, bit rate and GOP length of a configuration are left out: no      *)
(* decision modelled here depends on them.                                 *)
(***************************************************************************)
EXTENDS ColorConverter, FiniteSets

CONSTANT AmfDepth   \* pictures the AMF component takes before it reports a full input

ASSUME EncoderAssumption == AmfDepth \in Nat \ {0}

Kind == {"nvenc", "amf", "qsv"}

VARIABLES
    installed,  \* the encoders whose driver library loads; it never changes
    enc         \* the encoder, or None before there is one

EncoderState ==
    [kind : Kind,
     bitstream : BOOLEAN,               \* NVENC: bitstream_buffer_ is set
     registered : Range \cup {None},    \* NVENC: the texture behind registered_resource_
     queued : 0..AmfDepth,              \* AMF: pictures submitted and not yet retrieved
     done : 0..AmfDepth]                \* AMF: those of them that are encoded

EncoderTypeOK ==
    /\ installed \in SUBSET Kind
    /\ enc \in EncoderState \cup {None}
    /\ enc # None => enc.done <= enc.queued

\* EncoderFactory::create: the first that is there, whatever codec is asked for.
Chosen ==
    {k \in installed : /\ k = "amf" => "nvenc" \notin installed
                       /\ k = "qsv" => installed = {"qsv"}}

\* An encoder after init.  NVENC answers success also without a bitstream buffer.
NewEncoders ==
    [kind : Chosen, bitstream : IF Chosen = {"nvenc"} THEN BOOLEAN ELSE {TRUE},
     registered : {None}, queued : {0}, done : {0}]

--------------------------------------------------------------------------------
(* reconfigure *)

\* NVENC asks again for the bitstream buffer it could not get.
ReconfigureSucceeds ==
    /\ enc' = [enc EXCEPT !.bitstream = TRUE]
    /\ UNCHANGED <<captureVars, conv>>

\* The session refuses the parameters, or NVENC gets no bitstream buffer (which is
\* no error); AMF, once initialised, and QSV do not look at the answers.
ReconfigureRefused ==
    /\ enc.kind = "nvenc"
    /\ Fault
    /\ UNCHANGED <<desktop, lost, device, dupl, held, described, staging, switches>>
    /\ UNCHANGED <<conv, enc>>

--------------------------------------------------------------------------------
(* encode, of the output texture of range r *)

\* The texture NVENC reads: the one of the first call, registered for good.
Registered(r) == IF enc.registered = None THEN r ELSE enc.registered

\* The texture the encoder reads when it is given that of range r.
InputOf(r) == IF enc.kind = "nvenc" THEN Registered(r) ELSE r

EncodeNvenc(r) ==
    /\ enc.kind = "nvenc"
    /\ lost # "device"
    /\ enc.bitstream
    /\ enc' = [enc EXCEPT !.registered = Registered(r)]
    /\ UNCHANGED <<captureVars, conv>>

\* Registering, mapping, encoding or locking the bitstream fails.
EncodeNvencFails(r) ==
    /\ enc.kind = "nvenc"
    /\ \/ lost = "device" /\ UNCHANGED <<faults, enc>>
       \/ Fault /\ UNCHANGED enc
       \/ lost # "device" /\ Fault /\ enc' = [enc EXCEPT !.registered = Registered(r)]
       \/ /\ lost # "device"
          /\ ~enc.bitstream
          /\ enc' = [enc EXCEPT !.registered = Registered(r)]
          /\ UNCHANGED faults
    /\ UNCHANGED <<desktop, lost, device, dupl, held, described, staging, switches, conv>>

\* AMF encodes on its own: any number of the pictures submitted is done by the time
\* QueryOutput is called, once.
AmfSubmits ==
    /\ enc.kind = "amf"
    /\ lost # "device"
    /\ enc.queued < AmfDepth

EncodeAmf ==
    /\ AmfSubmits
    /\ \E n \in enc.done..(enc.queued + 1) :
          /\ n > 0
          /\ enc' = [enc EXCEPT !.done = n - 1]
    /\ UNCHANGED <<captureVars, conv>>

EncodeAmfLater ==
    /\ AmfSubmits
    /\ enc.done = 0
    /\ enc' = [enc EXCEPT !.queued = @ + 1]
    /\ UNCHANGED <<captureVars, conv>>

\* SubmitInput answers AMF_INPUT_FULL, or a call fails; nothing is retrieved then.
EncodeAmfFails ==
    /\ enc.kind = "amf"
    /\ \/ /\ lost = "device" \/ enc.queued = AmfDepth
          /\ UNCHANGED faults
       \/ Fault
    /\ UNCHANGED <<desktop, lost, device, dupl, held, described, staging, switches>>
    /\ UNCHANGED <<conv, enc>>

EncodeQsv ==
    /\ enc.kind = "qsv"
    /\ lost # "device"
    /\ UNCHANGED <<captureVars, conv, enc>>

\* EncodeFrameAsync takes no picture: the answer is an empty list and no error.
EncodeQsvSkips ==
    /\ enc.kind = "qsv"
    /\ \/ lost = "device" /\ UNCHANGED faults
       \/ Fault
    /\ UNCHANGED <<desktop, lost, device, dupl, held, described, staging, switches>>
    /\ UNCHANGED <<conv, enc>>
================================================================================
