------------------------------ MODULE DxgiCapture ------------------------------
(***************************************************************************)
(* DxgiCapture of server/capture/dxgi_capture.cpp: desktop duplication     *)
(* through DXGI.  Each frame acquired is copied into a staging texture     *)
(* that is kept from frame to frame; the duplication can be lost at any    *)
(* moment (another display mode, the secure desktop of a UAC prompt) and   *)
(* so can the device.                                                      *)
(*                                                                         *)
(* What a texture shows is told by one bit: whether it holds the frame     *)
(* acquired last.  A failed call of Direct3D or DXGI is a choice, counted  *)
(* by faults.                                                              *)
(***************************************************************************)
EXTENDS Naturals

CONSTANTS
    Mode,           \* display modes: size and format
    None,           \* a null ComPtr
    MaxSwitches,    \* bound: losses of the duplication or of the device
    MaxFaults       \* bound: other calls that fail

\* ours: created on the device d3d_device_ now points to.
Staging == [mode : Mode, ours : BOOLEAN, fresh : BOOLEAN]

ASSUME DxgiCaptureAssumption ==
    /\ None \notin Mode \cup Staging
    /\ MaxSwitches \in Nat
    /\ MaxFaults \in Nat

VARIABLES
    desktop,    \* the mode the desktop is shown in
    lost,       \* what the duplication, or the device, has lost
    device,     \* whether d3d_device_ and d3d_context_ are set
    dupl,       \* desktop_dupl_: the mode of the frames it delivers, or None
    held,       \* whether a frame is acquired and not released
    described,  \* width_, height_ and format_, or None before the first init
    staging,    \* staging_texture_
    switches,   \* losses so far
    faults      \* failed calls so far

captureVars ==
    <<desktop, lost, device, dupl, held, described, staging, switches, faults>>

CaptureTypeOK ==
    /\ desktop \in Mode
    /\ lost \in {"nothing", "access", "device"}
    /\ {device, held} \subseteq BOOLEAN
    /\ dupl \in Mode \cup {None}
    /\ described \in Mode \cup {None}
    /\ staging \in Staging \cup {None}
    /\ switches \in 0..MaxSwitches
    /\ faults \in 0..MaxFaults

CaptureInit ==
    /\ desktop \in Mode
    /\ lost = "nothing"
    /\ device = FALSE
    /\ dupl = None
    /\ held = FALSE
    /\ described = None
    /\ staging = None
    /\ switches = 0
    /\ faults = 0

\* Some call fails; the bound keeps the failures finite.
Fault ==
    /\ faults < MaxFaults
    /\ faults' = faults + 1

--------------------------------------------------------------------------------
(* What happens to the desktop *)

\* Every loss of access invalidates the duplication, and only it.
LoseAccess ==
    /\ dupl # None
    /\ lost' = IF lost = "device" THEN "device" ELSE "access"

\* The display mode changes.
ModeSwitch ==
    /\ switches < MaxSwitches
    /\ switches' = switches + 1
    /\ desktop' \in Mode \ {desktop}
    /\ LoseAccess
    /\ UNCHANGED <<device, dupl, held, described, staging, faults>>

\* A UAC prompt takes the desktop and gives it back in the same mode.
SecureDesktop ==
    /\ switches < MaxSwitches
    /\ switches' = switches + 1
    /\ LoseAccess
    /\ UNCHANGED <<desktop, device, dupl, held, described, staging, faults>>

\* The display driver is reset or the adapter removed.
DeviceRemoved ==
    /\ device
    /\ lost # "device"
    /\ switches < MaxSwitches
    /\ switches' = switches + 1
    /\ lost' = "device"
    /\ UNCHANGED <<desktop, device, dupl, held, described, staging, faults>>

--------------------------------------------------------------------------------
(* init *)

\* create_device replaces d3d_device_ and d3d_context_ and leaves the staging texture.
Orphaned == IF staging = None THEN None ELSE [staging EXCEPT !.ours = FALSE]

\* D3D11CreateDevice fails: the old device has been released by then.
InitNoDevice ==
    /\ Fault
    /\ device' = FALSE
    /\ staging' = Orphaned
    /\ UNCHANGED <<desktop, lost, dupl, held, described, switches>>

\* There is no factory, output or IDXGIOutput5: an old duplication is kept.
InitNoOutput ==
    /\ Fault
    /\ device' = TRUE
    /\ staging' = Orphaned
    /\ UNCHANGED <<desktop, lost, dupl, held, described, switches>>

\* DuplicateOutput1 fails, after the old duplication has been released.
InitNoDuplication ==
    /\ Fault
    /\ device' = TRUE
    /\ staging' = Orphaned
    /\ dupl' = None
    /\ held' = FALSE
    /\ lost' = "nothing"
    /\ UNCHANGED <<desktop, described, switches>>

InitSucceeds ==
    /\ device' = TRUE
    /\ staging' = Orphaned
    /\ dupl' = desktop
    /\ described' = desktop
    /\ held' = FALSE
    /\ lost' = "nothing"
    /\ UNCHANGED <<desktop, switches, faults>>

--------------------------------------------------------------------------------
(* acquire_next_frame and release_frame *)

NotInitialised ==
    /\ dupl = None
    /\ UNCHANGED captureVars

\* AcquireNextFrame can deliver a frame.
Deliverable ==
    /\ dupl # None
    /\ lost = "nothing"
    /\ ~held

\* No frame in time, or one whose image has not changed, which is released at once.
AcquireTimesOut ==
    /\ Deliverable
    /\ UNCHANGED captureVars

\* AcquireNextFrame fails for another reason, or the frame is no texture and is released.
AcquireFails ==
    /\ Deliverable
    /\ Fault
    /\ UNCHANGED <<desktop, lost, device, dupl, held, described, staging, switches>>

\* Mutant: the duplication is not reset.
Bug_AccessLostKeepsDuplication ==
    /\ dupl # None
    /\ lost = "access"
    /\ UNCHANGED captureVars

AcquireAccessLost ==
    /\ dupl # None
    /\ lost = "access"
    /\ dupl' = None
    /\ held' = FALSE
    /\ lost' = "nothing"
    /\ UNCHANGED <<desktop, device, described, staging, switches, faults>>

\* The device is gone, or the last frame was never released (DXGI_ERROR_INVALID_CALL).
AcquireDeviceLost ==
    /\ dupl # None
    /\ lost = "device" \/ held
    /\ dupl' = None
    /\ device' = FALSE
    /\ staging' = None
    /\ held' = FALSE
    /\ lost' = "nothing"
    /\ UNCHANGED <<desktop, described, switches, faults>>

\* Mutant: any texture kept is used again.
Bug_ReusableInAnySize == staging # None

\* ensure_staging_texture: the texture kept has the size and format of the frame.
Reusable == staging # None /\ staging.mode = dupl

\* No staging texture can be created: the frame stays acquired.
AcquireNoStaging ==
    /\ Deliverable
    /\ ~Reusable
    /\ Fault
    /\ held' = TRUE
    /\ staging' = None
    /\ UNCHANGED <<desktop, lost, device, dupl, described, switches>>

\* CopyResource does nothing when its textures belong to different devices.
AcquireSucceeds ==
    /\ Deliverable
    /\ held' = TRUE
    /\ staging' = IF Reusable
                    THEN [staging EXCEPT !.fresh = staging.ours]
                    ELSE [mode |-> dupl, ours |-> TRUE, fresh |-> TRUE]
    /\ UNCHANGED <<desktop, lost, device, dupl, described, switches, faults>>

\* Mutant: the frame is not given back.
Bug_ReleaseForgets == UNCHANGED captureVars

ReleaseFrame ==
    /\ held' = (held /\ dupl = None)
    /\ UNCHANGED <<desktop, lost, device, dupl, described, staging, switches, faults>>
================================================================================
