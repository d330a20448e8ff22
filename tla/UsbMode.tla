------------------------------ MODULE UsbMode ------------------------------
(***************************************************************************)
(* What the main task does once a computer is plugged in (state_usb.c):    *)
(* goto_usb_device_mode serves the disk until the cable is out or a key    *)
(* asks for the web camera, goto_usb_video_device then serves that until   *)
(* the cable is out (ClearStatus), and the power is cut.  UsbDisk and      *)
(* WebCam are the two halves.  The debounce counters of cable and key are  *)
(* left out: what they say is an action.                                   *)
(***************************************************************************)
EXTENDS UsbDisk, WebCam

VARIABLES
  mode,    \* "disk", "camera", "off"
  camera   \* g_pc_camera: 0, or which picture the web camera shows

usbVars == <<diskVars, camVars, mode, camera>>

Init == DiskInit /\ CamInit /\ mode = "disk" /\ camera = 0

InDisk   == mode = "disk" /\ UNCHANGED <<camVars, mode, camera>>
InCamera == mode = "camera" /\ UNCHANGED <<diskVars, mode, camera>>

(* Cable and key are looked at between two rounds of the disk service.     *)
BetweenCommands == mode = "disk" /\ cmd = "none"

CableOutOfDisk ==
  /\ BetweenCommands /\ mode' = "off" /\ UNCHANGED <<camera, diskVars, camVars>>

(* The key; the web camera is entered after usb_uninitial.                 *)
CameraKey ==
  /\ BetweenCommands /\ mode' = "camera" /\ camera' = 1 /\ UNCHANGED <<diskVars, camVars>>

(* The key again: the other picture.                                       *)
PictureKey ==
  /\ mode = "camera" /\ main = "on" /\ camera' = 3 - camera
  /\ UNCHANGED <<mode, diskVars, camVars>>

PowerOff ==
  /\ mode = "camera" /\ main = "off" /\ mode' = "off"
  /\ UNCHANGED <<camera, diskVars, camVars>>

DiskCommand ==
  /\ InDisk
  /\ \E c \in {"read", "write"}, from \in 0..(Blocks - 1), n \in 1..MaxLen : Ask(c, from, n)

DiskStep == InDisk /\ (Service \/ Answered)
CardStep == InDisk /\ CardDone
LinkStep == InDisk /\ LinkDone
CamStep  == InCamera /\ CamNext

Next ==
  \/ DiskCommand \/ DiskStep \/ CardStep \/ LinkStep \/ CamStep
  \/ CableOutOfDisk \/ CameraKey \/ PictureKey \/ PowerOff

(* The disk service loops for ever; transfers end, if only by the library's *)
(* time-outs; of the camera's tasks those count that its end waits for.     *)
Fairness ==
  /\ WF_usbVars(DiskStep) /\ WF_usbVars(CardStep) /\ WF_usbVars(LinkStep)
  /\ WF_usbVars(InCamera /\ CamMain) /\ WF_usbVars(InCamera /\ WebcamRequest)
  /\ WF_usbVars(InCamera /\ MicDone) /\ WF_usbVars(InCamera /\ AudioTask)

FairSpec == Init /\ [][Next]_usbVars /\ Fairness

(* A command ends: no wait of the two loops is for a transfer that was     *)
(* not started.                                                            *)
CommandEnds == cmd # "none" ~> status # "none"
=============================================================================
