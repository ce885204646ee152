----------------------------- MODULE ColorConverter -----------------------------
(***************************************************************************)
(* D3D11ColorConverter of server/encoder/d3d11_color_convert.cpp: one      *)
(* video processor with its enumerator, and one output texture for each    *)
(* range, NV12 for SDR and P010 for HDR, created when first asked for and  *)
(* kept while the size stays the same.                                     *)
(***************************************************************************)
EXTENDS DxgiCapture

Range == {"sdr", "hdr"}

VARIABLE conv   \* the converter, or None before there is one

Output == [mode : Mode, fresh : BOOLEAN]

Converter ==
    [size : Mode \cup {None},               \* current_width_ and current_height_
     enumerator : BOOLEAN,                  \* video_enum_ is set
     processor : BOOLEAN,                   \* video_processor_ is set
     out : [Range -> Output \cup {None}]]   \* nv12_texture_ and p010_texture_

ASSUME ConverterAssumption == None \notin Output \cup Converter

ConverterTypeOK == conv \in Converter \cup {None}

\* A converter made for a device and initialised with it.
NewConverter ==
    [size |-> None, enumerator |-> FALSE, processor |-> FALSE,
     out |-> [r \in Range |-> None]]

\* A new frame is in the staging texture: what was converted before is old.
Aged ==
    IF conv = None THEN None
    ELSE [conv EXCEPT !.out = [r \in Range |->
             IF conv.out[r] = None THEN None ELSE [conv.out[r] EXCEPT !.fresh = FALSE]]]

--------------------------------------------------------------------------------
(* ensure_output_texture, for the staging texture and range r *)

Cached(r) ==
    /\ conv.size = staging.mode
    /\ conv.out[r] # None

\* The size is recorded first; the calls that follow replace the enumerator and
\* the processor one after the other, each left null by its own failure.
EnsureFailures(r) ==
    LET sized == [conv EXCEPT !.size = staging.mode] IN
    {sized,                                                             \* the texture
     [sized EXCEPT !.enumerator = FALSE],
     [sized EXCEPT !.enumerator = TRUE, !.processor = FALSE],
     [sized EXCEPT !.enumerator = TRUE, !.processor = TRUE]}            \* the output view

Ensured(r) ==
    IF Cached(r) THEN conv
    ELSE [conv EXCEPT !.size = staging.mode, !.enumerator = TRUE, !.processor = TRUE,
                      !.out[r] = [mode |-> staging.mode, fresh |-> FALSE]]

--------------------------------------------------------------------------------
(* convert, of the staging texture to range r *)

\* The input view needs the enumerator and a texture of this device, the blit the processor.
CanBlit(r) ==
    /\ lost # "device"
    /\ staging.ours
    /\ Ensured(r).enumerator
    /\ Ensured(r).processor

\* Mutant: an output texture that is there is answered without a blit.
Bug_ConvertOnlyEnsures(r) ==
    /\ CanBlit(r)
    /\ conv' = IF Cached(r) THEN conv ELSE [Ensured(r) EXCEPT !.out[r].fresh = staging.fresh]
    /\ UNCHANGED captureVars

ConvertSucceeds(r) ==
    /\ CanBlit(r)
    /\ conv' = [Ensured(r) EXCEPT !.out[r].fresh = staging.fresh]
    /\ UNCHANGED captureVars

\* A call of ensure_output_texture fails.
ConvertNoOutput(r) ==
    /\ ~Cached(r)
    /\ conv' \in EnsureFailures(r)
    /\ Fault
    /\ UNCHANGED <<desktop, lost, device, dupl, held, described, staging, switches>>

\* The output is there; the input view or the blit fails.
ConvertNoBlit(r) ==
    /\ conv' = Ensured(r)
    /\ \/ CanBlit(r) /\ Fault
       \/ ~CanBlit(r) /\ UNCHANGED faults
    /\ UNCHANGED <<desktop, lost, device, dupl, held, described, staging, switches>>
================================================================================
