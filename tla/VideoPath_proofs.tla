----------------------------- MODULE VideoPath_proofs -----------------------------
(***************************************************************************)
(* For every set of display modes and any number of faults, losses and     *)
(* changes of range: what the capture describes, the staging texture and   *)
(* the converted texture agree, and a frame is held only in its turn.      *)
(* Both rest on the duplication: as long as there is one it delivers the   *)
(* mode described, and the loop makes a new converter for each new one.    *)
(* With it, a picture encoded shows the frame acquired last.               *)
(***************************************************************************)
EXTENDS VideoPath, TLAPS

\* Where the loop is between acquire_next_frame and release_frame.
InTurn == pc \in {"captured", "converted", "configured", "delivered", "dropped"}

\* The duplication there is delivers frames as described; a turn has one.
DuplicationDescribed ==
    /\ dupl # None => dupl = described
    /\ InTurn => dupl # None

\* Within a turn the staging texture has the size of the frame.
StagingFits == InTurn => staging \in Staging /\ staging.mode = described

\* All output textures of a converter have the size of the frames.
OutputsOf(c) == \A r \in Range : c.out[r] # None => c.out[r].mode = described

\* A converter has textures of one size only, that of its device's capture.
OutputsFit == pc \notin {"init", "setup"} => conv \in Converter /\ OutputsOf(conv)

\* What convert has answered is there.
GivenThere ==
    pc \in {"converted", "configured"} => given \in Range /\ conv.out[given] # None

PathInv ==
    /\ {desktop} \subseteq Mode
    /\ {dupl, described} \subseteq Mode \cup {None}
    /\ staging \in Staging \cup {None}
    /\ wanted \in Range
    /\ DuplicationDescribed
    /\ StagingFits
    /\ OutputsFit
    /\ GivenThere
    /\ HeldInTurn

--------------------------------------------------------------------------------
(* The converter *)

\* A frame does not change the size of what was converted before.
LEMMA AgedFits ==
    ASSUME conv \in Converter, OutputsOf(conv)
    PROVE  Aged \in Converter /\ OutputsOf(Aged)
<1> DEFINE old(r) == IF conv.out[r] = None THEN None ELSE [conv.out[r] EXCEPT !.fresh = FALSE]
           outs == [r \in Range |-> old(r)]
<1>1. Aged = [conv EXCEPT !.out = outs]
  BY ConverterAssumption DEF Aged
<1>2. ASSUME NEW r \in Range
      PROVE  /\ old(r) \in Output \cup {None}
             /\ old(r) # None => old(r).mode = described
  <2>1. conv.out[r] \in Output \cup {None}
    BY DEF Converter
  <2>2. CASE conv.out[r] = None
    BY <2>2
  <2>3. CASE conv.out[r] # None
    BY <2>1, <2>3 DEF Output, OutputsOf
  <2> QED
    BY <2>2, <2>3
<1> HIDE DEF old
<1>3. outs \in [Range -> Output \cup {None}]
  BY <1>2
<1>4. Aged \in Converter /\ Aged.out = outs
  BY <1>1, <1>3 DEF Converter
<1> QED
  BY <1>2, <1>4 DEF OutputsOf

\* ensure_output_texture leaves a texture of the right size for its range, and whatever
\* fails in it leaves those there are.
LEMMA EnsuredFits ==
    ASSUME conv \in Converter, OutputsOf(conv),
           staging \in Staging, staging.mode = described, NEW r \in Range
    PROVE  /\ Ensured(r) \in Converter /\ OutputsOf(Ensured(r))
           /\ Ensured(r).out[r] \in Output
           /\ \A c \in EnsureFailures(r) : c \in Converter /\ OutputsOf(c)
<1>0. staging.mode \in Mode
  BY DEF Staging
<1>1. \A c \in EnsureFailures(r) : c \in Converter /\ c.out = conv.out
  BY <1>0 DEF EnsureFailures, Converter
<1>2. CASE Cached(r)
  <2>1. Ensured(r) = conv
    BY <1>2 DEF Ensured
  <2>2. conv.out[r] \in Output
    BY <1>2 DEF Converter, Cached
  <2> QED
    BY <1>1, <2>1, <2>2 DEF OutputsOf
<1>3. CASE ~Cached(r)
  <2> DEFINE new == [mode |-> staging.mode, fresh |-> FALSE]
             outs == [conv.out EXCEPT ![r] = new]
  <2>1. Ensured(r) = [conv EXCEPT !.size = staging.mode, !.enumerator = TRUE,
                                  !.processor = TRUE, !.out = outs]
    BY <1>3 DEF Ensured, Converter
  <2>2. new \in Output /\ new.mode = described
    BY <1>0 DEF Output
  <2> HIDE DEF new
  <2>3. conv.out \in [Range -> Output \cup {None}]
    BY DEF Converter
  <2>4. outs \in [Range -> Output \cup {None}] /\ outs[r] = new
    BY <2>2, <2>3
  <2>5. \A q \in Range : outs[q] # None => outs[q].mode = described
    BY <2>2, <2>3 DEF OutputsOf
  <2> HIDE DEF outs
  <2>6. Ensured(r) \in Converter /\ Ensured(r).out = outs
    BY <1>0, <2>1, <2>4 DEF Converter
  <2> QED
    BY <1>1, <2>2, <2>4, <2>5, <2>6 DEF OutputsOf
<1> QED
  BY <1>2, <1>3

\* A successful blit puts the picture into that texture.
LEMMA BlitFits ==
    ASSUME NEW c \in Converter, OutputsOf(c), NEW r \in Range, c.out[r] \in Output,
           NEW f \in BOOLEAN, NEW d, d = [c EXCEPT !.out[r].fresh = f]
    PROVE  d \in Converter /\ OutputsOf(d) /\ d.out[r] # None
<1> DEFINE new == [c.out[r] EXCEPT !.fresh = f]
           outs == [c.out EXCEPT ![r] = new]
<1>1. d = [c EXCEPT !.out = outs]
  BY DEF Converter
<1>2. c.out[r].mode = described
  BY ConverterAssumption DEF OutputsOf
<1>3. new \in Output /\ new.mode = described /\ new # None
  BY <1>2, ConverterAssumption DEF Output
<1> HIDE DEF new
<1>4. c.out \in [Range -> Output \cup {None}]
  BY DEF Converter
<1>5. outs \in [Range -> Output \cup {None}] /\ outs[r] = new
  BY <1>3, <1>4
<1>6. \A q \in Range : outs[q] # None => outs[q].mode = described
  BY <1>3, <1>4 DEF OutputsOf
<1> HIDE DEF outs
<1>7. d \in Converter /\ d.out = outs
  BY <1>1, <1>5 DEF Converter
<1> QED
  BY <1>3, <1>5, <1>6, <1>7 DEF OutputsOf

\* The blit of the frame acquired last leaves a texture that shows it.
LEMMA BlitShows ==
    ASSUME NEW c \in Converter, NEW r \in Range, c.out[r] \in Output, NEW d,
           d = [c EXCEPT !.out[r].fresh = TRUE]
    PROVE  d.out[r].fresh
  BY DEF Converter, Output

--------------------------------------------------------------------------------
(* The invariant *)

\* Nothing is captured at first.
LEMMA PathInitInv == Init => PathInv
  BY DEF Init, CaptureInit, PathInv, InTurn, DuplicationDescribed, StagingFits, OutputsFit,
         GivenThere, HeldInTurn, Range

\* A step that leaves the capture, the textures and their sizes alone keeps the
\* invariant, as long as it does not run ahead in the turn.
LEMMA QuietSteps ==
    ASSUME PathInv,
           desktop' \in Mode, wanted' \in Range,
           UNCHANGED <<dupl, held, described, staging, conv, given>>,
           \/ pc' = pc
           \/ pc \notin {"init", "setup"} /\ pc' \in {"acquire", "failed", "init"} /\ ~InTurn
           \/ pc = "setup" /\ pc' = "init"
           \/ InTurn /\ pc' \in {"delivered", "dropped"}
           \/ pc = "converted" /\ pc' = "configured"
    PROVE  PathInv'
<1> USE DEF PathInv
<1>1. DuplicationDescribed' /\ StagingFits' /\ HeldInTurn'
  BY DEF InTurn, DuplicationDescribed, StagingFits, HeldInTurn
<1>2. OutputsFit'
  BY DEF InTurn, OutputsFit, OutputsOf
<1>3. GivenThere'
  BY DEF InTurn, GivenThere
<1> QED
  BY <1>1, <1>2, <1>3

\* Every step keeps the invariant.
LEMMA PathStepInv == PathInv /\ [Next]_vars => PathInv'
<1> SUFFICES ASSUME PathInv, [Next]_vars
             PROVE  PathInv'
  OBVIOUS
<1>0. /\ desktop \in Mode /\ dupl \in Mode \cup {None} /\ described \in Mode \cup {None}
      /\ staging \in Staging \cup {None} /\ wanted \in Range
      /\ DuplicationDescribed /\ StagingFits /\ OutputsFit /\ GivenThere /\ HeldInTurn
  BY DEF PathInv
<1>1. CASE InitCapture
  <2>1. pc = "init" /\ pc' \in {"init", "setup"} /\ UNCHANGED <<desktop, conv, wanted, given>>
    BY <1>1 DEF InitCapture, Go, loopVars, InitSucceeds, InitNoDevice, InitNoOutput,
                InitNoDuplication
  <2>2. staging' = Orphaned
    BY <1>1 DEF InitCapture, InitSucceeds, InitNoDevice, InitNoOutput, InitNoDuplication
  <2>3. Orphaned \in Staging \cup {None} /\ (staging = None => Orphaned = None)
    BY <1>0 DEF Orphaned, Staging
  <2>4. \/ dupl' = desktop /\ described' = desktop /\ held' = FALSE
        \/ described' = described /\ dupl' = None /\ held' = FALSE
        \/ UNCHANGED <<described, dupl, held>>
    BY <1>1 DEF InitCapture, InitSucceeds, InitNoDevice, InitNoOutput, InitNoDuplication
  <2>5. held' => staging' = None
    BY <1>0, <2>1, <2>2, <2>3, <2>4 DEF HeldInTurn
  <2>6. DuplicationDescribed' /\ StagingFits' /\ OutputsFit' /\ GivenThere' /\ HeldInTurn'
    BY <1>0, <2>1, <2>4, <2>5
    DEF InTurn, DuplicationDescribed, StagingFits, OutputsFit, GivenThere, HeldInTurn
  <2> QED
    BY <1>0, <2>1, <2>2, <2>3, <2>4, <2>6 DEF PathInv
<1>2. CASE SetUp
  <2>1. /\ pc = "setup" /\ pc' = "acquire" /\ conv' = NewConverter
        /\ UNCHANGED <<desktop, dupl, held, described, staging, wanted, given>>
    BY <1>2 DEF SetUp, Go, loopVars
  <2>2. NewConverter \in Converter /\ \A r \in Range : NewConverter.out[r] = None
    BY DEF NewConverter, Converter
  <2>3. OutputsFit'
    BY <2>1, <2>2 DEF OutputsFit, OutputsOf
  <2>4. DuplicationDescribed' /\ StagingFits' /\ GivenThere' /\ HeldInTurn'
    BY <1>0, <2>1 DEF InTurn, DuplicationDescribed, StagingFits, GivenThere, HeldInTurn
  <2> QED
    BY <1>0, <2>1, <2>3, <2>4 DEF PathInv
<1>3. CASE SetUpFails
  <2>1. /\ pc = "setup" /\ pc' = "init"
        /\ UNCHANGED <<desktop, dupl, held, described, staging, conv, wanted, given>>
    BY <1>3 DEF SetUpFails, Go, loopVars
  <2> QED
    BY <1>0, <2>1, QuietSteps
<1>4. CASE Acquire
  <2>1. /\ pc = "acquire" /\ pc' = "captured" /\ conv' = Aged
        /\ dupl # None
        /\ UNCHANGED <<desktop, dupl, described, wanted, given>>
    BY <1>4 DEF Acquire, Go, loopVars, AcquireSucceeds, Deliverable
  <2>2. dupl = described /\ dupl \in Mode
    BY <1>0, <2>1 DEF DuplicationDescribed
  <2>3. staging' \in Staging /\ staging'.mode = described
    <3>1. CASE Reusable
      <4>1. staging' = [staging EXCEPT !.fresh = staging.ours]
        BY <1>4, <3>1 DEF Acquire, AcquireSucceeds
      <4> QED
        BY <1>0, <2>2, <3>1, <4>1 DEF Reusable, Staging
    <3>2. CASE ~Reusable
      <4>1. staging' = [mode |-> dupl, ours |-> TRUE, fresh |-> TRUE]
        BY <1>4, <3>2 DEF Acquire, AcquireSucceeds
      <4> QED
        BY <2>2, <4>1 DEF Staging
    <3> QED
      BY <3>1, <3>2
  <2>4. conv' \in Converter /\ OutputsOf(conv')
    BY <1>0, <2>1, AgedFits DEF OutputsFit
  <2>5. OutputsFit'
    BY <2>1, <2>4 DEF OutputsFit, OutputsOf
  <2>6. DuplicationDescribed' /\ StagingFits' /\ GivenThere' /\ HeldInTurn'
    BY <1>0, <2>1, <2>2, <2>3
    DEF InTurn, DuplicationDescribed, StagingFits, GivenThere, HeldInTurn
  <2> QED
    BY <1>0, <2>1, <2>3, <2>5, <2>6 DEF PathInv
<1>5. CASE AcquireNothing
  <2>1. pc = "acquire" /\ pc' \in {"acquire", "init", "failed"}
        /\ UNCHANGED <<desktop, described, conv, wanted, given>>
    BY <1>5 DEF AcquireNothing, Go, loopVars, captureVars, AcquireTimesOut, NotInitialised,
                AcquireFails, AcquireAccessLost, AcquireDeviceLost, AcquireNoStaging
  <2>2. CASE UNCHANGED <<dupl, held, staging>>
    BY <1>0, <2>1, <2>2, QuietSteps DEF InTurn
  <2>3. CASE AcquireAccessLost \/ AcquireDeviceLost \/ AcquireNoStaging
    <3>1. /\ dupl' \in {dupl, None}
          /\ staging' \in {staging, None}
          /\ held' => staging' = None
      BY <2>3 DEF AcquireAccessLost, AcquireDeviceLost, AcquireNoStaging
    <3>2. DuplicationDescribed' /\ StagingFits' /\ GivenThere' /\ HeldInTurn'
      BY <1>0, <2>1, <3>1
      DEF InTurn, DuplicationDescribed, StagingFits, GivenThere, HeldInTurn
    <3>3. OutputsFit'
      BY <1>0, <2>1 DEF OutputsFit, OutputsOf
    <3> QED
      BY <1>0, <2>1, <3>1, <3>2, <3>3 DEF PathInv
  <2> QED
    BY <1>5, <2>2, <2>3
    DEF AcquireNothing, captureVars, AcquireTimesOut, NotInitialised, AcquireFails
<1>6. CASE Retry
  <2>1. /\ pc = "failed" /\ pc' \in {"acquire", "init"}
        /\ UNCHANGED <<desktop, dupl, held, described, staging, conv, wanted, given>>
    BY <1>6 DEF Retry, loopVars, captureVars
  <2> QED
    BY <1>0, <2>1, QuietSteps DEF InTurn
<1>7. CASE Convert
  <2>1. /\ pc = "captured" /\ pc' \in {"converted", "dropped"}
        /\ UNCHANGED <<desktop, dupl, held, described, staging, wanted>>
    BY <1>7 DEF Convert, Go, captureVars, ConvertSucceeds, ConvertNoOutput, ConvertNoBlit, Fault
  <2>2. /\ conv \in Converter /\ OutputsOf(conv) /\ staging \in Staging
        /\ staging.mode = described
    BY <1>0, <2>1 DEF OutputsFit, StagingFits, InTurn
  <2>3. /\ Ensured(wanted) \in Converter /\ OutputsOf(Ensured(wanted))
        /\ Ensured(wanted).out[wanted] \in Output
        /\ \A c \in EnsureFailures(wanted) : c \in Converter /\ OutputsOf(c)
    BY <1>0, <2>2, EnsuredFits
  <2>4. /\ conv' \in Converter /\ OutputsOf(conv')
        /\ pc' = "converted" => given' = wanted /\ conv'.out[wanted] # None
    <3>1. CASE ConvertSucceeds(wanted)
      <4>1. conv' = [Ensured(wanted) EXCEPT !.out[wanted].fresh = staging.fresh]
        BY <3>1 DEF ConvertSucceeds
      <4>2. staging.fresh \in BOOLEAN
        BY <2>2 DEF Staging
      <4>3. conv' \in Converter /\ OutputsOf(conv') /\ conv'.out[wanted] # None
        BY <1>0, <2>3, <4>1, <4>2, BlitFits
      <4>4. pc' = "converted" => given' = wanted
        BY <1>7 DEF Convert, Go
      <4> QED
        BY <4>3, <4>4
    <3>2. CASE pc' = "dropped" /\ (ConvertNoOutput(wanted) \/ ConvertNoBlit(wanted))
      BY <2>3, <3>2 DEF ConvertNoOutput, ConvertNoBlit
    <3> QED
      BY <1>7, <3>1, <3>2 DEF Convert, Go
  <2>5. OutputsFit'
    BY <2>1, <2>4 DEF OutputsFit, OutputsOf
  <2>6. DuplicationDescribed' /\ StagingFits' /\ GivenThere' /\ HeldInTurn'
    BY <1>0, <2>1, <2>4
    DEF InTurn, DuplicationDescribed, StagingFits, GivenThere, HeldInTurn
  <2> QED
    BY <1>0, <2>1, <2>5, <2>6 DEF PathInv
<1>8. CASE Reconfigure \/ Encode \/ EncodeNothing
  <2>1. /\ pc \in {"converted", "configured"}
        /\ pc' \in {"configured", "delivered", "dropped"}
        /\ pc' = "configured" => pc = "converted"
    BY <1>8 DEF Reconfigure, Encode, EncodeNothing, Go
  <2>2. UNCHANGED <<desktop, dupl, held, described, staging, conv, wanted, given>>
    BY <1>8 DEF Reconfigure, Encode, EncodeNothing, loopVars, captureVars, ReconfigureSucceeds,
                ReconfigureRefused, EncodeNvenc, EncodeAmf, EncodeQsv, EncodeNvencFails,
                EncodeAmfLater, EncodeAmfFails, EncodeQsvSkips
  <2> QED
    BY <1>0, <2>1, <2>2, QuietSteps DEF InTurn
<1>9. CASE Release
  <2>1. /\ InTurn /\ pc' = "acquire" /\ held' = (held /\ dupl = None)
        /\ UNCHANGED <<desktop, dupl, described, staging, conv, wanted, given>>
    BY <1>9 DEF Release, ReleaseFrame, Go, InTurn, loopVars
  <2>2. ~held'
    BY <1>0, <2>1 DEF DuplicationDescribed
  <2>3. DuplicationDescribed' /\ StagingFits' /\ GivenThere' /\ HeldInTurn'
    BY <1>0, <2>1, <2>2
    DEF InTurn, DuplicationDescribed, StagingFits, GivenThere, HeldInTurn
  <2>4. OutputsFit'
    BY <1>0, <2>1 DEF InTurn, OutputsFit, OutputsOf
  <2> QED
    BY <1>0, <2>1, <2>3, <2>4 DEF PathInv
<1>10. CASE ChangeRange
  <2>1. /\ wanted' \in Range
        /\ UNCHANGED <<desktop, dupl, held, described, staging, conv, pc, given>>
    BY <1>10 DEF ChangeRange, captureVars
  <2> QED
    BY <1>0, <2>1, QuietSteps
<1>11. CASE Desktop
  <2>1. /\ desktop' \in Mode
        /\ UNCHANGED <<dupl, held, described, staging, conv, pc, wanted, given>>
    BY <1>0, <1>11 DEF Desktop, ModeSwitch, SecureDesktop, DeviceRemoved, loopVars
  <2> QED
    BY <1>0, <2>1, QuietSteps
<1>12. CASE UNCHANGED vars
  <2>1. UNCHANGED <<desktop, dupl, held, described, staging, conv, pc, wanted, given>>
    BY <1>12 DEF vars, captureVars
  <2> QED
    BY <1>0, <2>1, QuietSteps
<1> QED
  BY <1>1, <1>2, <1>3, <1>4, <1>5, <1>6, <1>7, <1>8, <1>9, <1>10, <1>11, <1>12
  DEF Next, Loop

\* The invariant holds in every behaviour of VideoPath.
THEOREM PathInvariant == Spec => []PathInv
  BY PathInitInv, PathStepInv, PTL DEF Spec

\* What is described to the caller, the staging texture and the converted texture have
\* one size and format, whichever calls of Direct3D fail and whenever the mode changes.
THEOREM SizesAlwaysAgree == Spec => []SizesAgree
<1>1. PathInv => SizesAgree
  BY DEF PathInv, SizesAgree, StagingFits, OutputsFit, OutputsOf, GivenThere, InTurn
<1> QED
  BY <1>1, PathInvariant, PTL

\* The loop holds no frame when it asks for the next one, unless the staging texture of
\* the last could not be created.
THEOREM FramesHeldInTurn == Spec => []HeldInTurn
<1>1. PathInv => HeldInTurn
  BY DEF PathInv
<1> QED
  BY <1>1, PathInvariant, PTL

--------------------------------------------------------------------------------
(* The picture encoded *)

\* A staging texture of the present device holds the frame acquired last, and so does the
\* texture convert has answered.
FreshInv ==
    /\ pc = "captured" /\ staging.ours => staging.fresh
    /\ pc \in {"converted", "configured"} => conv.out[given].fresh

\* A turn freshens both textures in order: the frame is copied when it is acquired, and a
\* blit succeeds only from a texture of the present device.
LEMMA FreshStepInv == PathInv /\ FreshInv /\ [Next]_vars => FreshInv'
<1> SUFFICES ASSUME PathInv, FreshInv, [Next]_vars
             PROVE  FreshInv'
  OBVIOUS
<1>1. CASE InitCapture \/ SetUp \/ SetUpFails \/ AcquireNothing \/ Retry \/ Release
  BY <1>1 DEF InitCapture, SetUp, SetUpFails, AcquireNothing, Retry, Release, Go, FreshInv
<1>2. CASE Acquire
  <2>1. pc' = "captured" /\ AcquireSucceeds
    BY <1>2 DEF Acquire, Go
  <2>2. CASE Reusable
    <3>1. staging' = [staging EXCEPT !.fresh = staging.ours] /\ staging \in Staging
      BY <2>1, <2>2 DEF AcquireSucceeds, Reusable, PathInv
    <3> QED
      BY <2>1, <3>1 DEF FreshInv, Staging
  <2>3. CASE ~Reusable
    <3>1. staging' = [mode |-> dupl, ours |-> TRUE, fresh |-> TRUE]
      BY <2>1, <2>3 DEF AcquireSucceeds
    <3> QED
      BY <2>1, <3>1 DEF FreshInv
  <2> QED
    BY <2>2, <2>3
<1>3. CASE Convert
  <2>1. CASE pc = "captured" /\ pc' = "converted" /\ ConvertSucceeds(wanted) /\ given' = wanted
    <3>1. /\ conv \in Converter /\ OutputsOf(conv) /\ staging \in Staging
          /\ staging.mode = described /\ wanted \in Range
      BY <2>1 DEF PathInv, OutputsFit, StagingFits, InTurn
    <3>2. /\ Ensured(wanted) \in Converter /\ OutputsOf(Ensured(wanted))
          /\ Ensured(wanted).out[wanted] \in Output
      BY <3>1, EnsuredFits
    <3>3. staging.fresh = TRUE
      BY <2>1, <3>1 DEF FreshInv, ConvertSucceeds, CanBlit, Staging
    <3>4. conv' = [Ensured(wanted) EXCEPT !.out[wanted].fresh = TRUE]
      BY <2>1, <3>3 DEF ConvertSucceeds
    <3>5. conv'.out[wanted].fresh
      BY <3>1, <3>2, <3>4, BlitShows
    <3> QED
      BY <2>1, <3>5 DEF FreshInv
  <2> QED
    BY <1>3, <2>1 DEF Convert, Go, FreshInv
<1>4. CASE Reconfigure \/ Encode \/ EncodeNothing
  <2>1. UNCHANGED <<conv, given>>
    BY <1>4 DEF Reconfigure, Encode, EncodeNothing, loopVars, ReconfigureSucceeds,
                ReconfigureRefused, EncodeNvenc, EncodeAmf, EncodeQsv, EncodeNvencFails,
                EncodeAmfLater, EncodeAmfFails, EncodeQsvSkips
  <2>2. pc \in {"converted", "configured"} /\ pc' # "captured"
    BY <1>4 DEF Reconfigure, Encode, EncodeNothing, Go
  <2> QED
    BY <2>1, <2>2 DEF FreshInv
<1>5. CASE ChangeRange \/ Desktop \/ UNCHANGED vars
  <2>1. UNCHANGED <<pc, staging, conv, given>>
    BY <1>5 DEF ChangeRange, Desktop, ModeSwitch, SecureDesktop, DeviceRemoved, loopVars, vars,
                captureVars
  <2> QED
    BY <2>1 DEF FreshInv
<1> QED
  BY <1>1, <1>2, <1>3, <1>4, <1>5 DEF Next, Loop

\* Every picture an encoder takes is made from the frame acquired last, whichever calls have
\* failed before, unless NVENC reads the texture of the other range it registered first.
THEOREM PicturesAreFresh == Spec => PictureIsFresh
<1>1. Init => FreshInv
  BY DEF Init, FreshInv
<1>2. FreshInv /\ [Next]_vars =>
          [Encode => \/ conv.out[InputOf(given)].fresh
                     \/ InputOf(given) # given]_vars
  BY DEF FreshInv, Encode, Go
<1> QED
  BY <1>1, <1>2, FreshStepInv, PathInvariant, PTL DEF Spec, PictureIsFresh
================================================================================
