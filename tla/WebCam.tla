------------------------------- MODULE WebCam -------------------------------
(***************************************************************************)
(* The camera as a web camera with a microphone (state_cam.c,              *)
(* avi_encoder_state.c, avi_encoder_scaler_jpeg.c, avi_audio_record.c).    *)
(* Video buffers go round: usbwebcam_frame_q, the video task that encodes  *)
(* into one, USBCamApQ, the USB task that sends it, and back.  What goes   *)
(* over USBCamApQ is the address of the video task's only ISOTaskMsg.      *)
(*                                                                         *)
(* Tasks by priority: audio (11 here), USB audio (13), video (14),         *)
(* USB (15), state (20), main (27).  The endpoint code behind the USB      *)
(* tasks is a library; an acknowledgement comes before main's 5000 ticks   *)
(* are over.                                                               *)
(***************************************************************************)
EXTENDS Integers, Sequences, SequencesExt

CONSTANTS
  NBuf,    \* AVI_ENCODE_VIDEO_BUFFER_NO
  EncQ, AudQ, UsbAudQ  \* lengths of vid_enc_task_q, avi_aud_q and USBAudioApQ

ASSUME LengthAssumption == {NBuf, EncQ, AudQ, UsbAudQ} \subseteq Nat \ {0}

VARIABLES
  main,       \* where goto_usb_video_device is
  alive,      \* the two USB tasks and their queues exist
  webcam,     \* C_AVI_ENCODE_USB_WEBCAM
  request,    \* of main in AVIEncodeApQ
  ack,        \* avi_encode_ack_m
  frameQ,     \* usbwebcam_frame_q
  encQ,       \* vid_enc_task_q: number of sensor frames
  encoding,   \* the buffer the video task encodes into, or None
  isosend,    \* the buffer its ISOTaskMsg names
  overtaken,  \* history: it was written over before the USB task, though idle, had read it
  camQ,       \* USBCamApQ: number of messages, all the address of isosend
  sending,    \* the buffer of the USB task, or None
  streaming,  \* SendISOData: the host has opened the video interface
  audq, aack, bStop, armed,  \* the audio task's queue, mailbox, flag; DMA buffers set
  audioMsgs   \* USBAudioApQ: number of messages

camMain  == <<main, webcam>>
camState == <<request, ack>>
camVideo == <<encQ, encoding, isosend, overtaken>>
camAudio == <<audq, aack, bStop, armed, audioMsgs>>
camUsb   == <<sending, streaming>>
camVars  == <<camMain, alive, camState, frameQ, camVideo, camQ, camUsb, camAudio>>

None == 0

Buffers == 1..NBuf

PostAud(q, m) == IF Len(q) < AudQ THEN Append(q, m) ELSE q

CamInit ==
  /\ main = "out" /\ alive = FALSE /\ webcam = FALSE /\ request = "none" /\ ack = FALSE
  /\ frameQ = <<>> /\ encQ = 0 /\ encoding = None /\ isosend = None /\ camQ = 0 /\ overtaken = FALSE
  /\ sending = None /\ streaming = FALSE
  /\ audq = <<>> /\ aack = "none" /\ bStop = FALSE /\ armed = 0
  /\ audioMsgs = 0

-----------------------------------------------------------------------------
(* The main task: usb_cam_entrance, usb_webcam_start, the loop until the   *)
(* cable is out, usb_webcam_stop, usb_cam_exit.                            *)

Go(from, to) == main = from /\ main' = to

CamEntrance ==
  /\ Go("out", "entered") /\ alive' = TRUE
  /\ UNCHANGED <<webcam, camState, frameQ, camVideo, camQ, camUsb, camAudio>>

AskState(from, to, what) ==
  /\ Go(from, to) /\ request' = what /\ ack' = FALSE
  /\ UNCHANGED <<webcam, alive, frameQ, camVideo, camQ, camUsb, camAudio>>

SetStatus ==
  /\ ack /\ Go("starting", "askMic") /\ webcam' = TRUE
  /\ UNCHANGED <<alive, camState, frameQ, camVideo, camQ, camUsb, camAudio>>

ClearStatus ==
  /\ Go("on", "askStop") /\ webcam' = FALSE
  /\ UNCHANGED <<alive, camState, frameQ, camVideo, camQ, camUsb, camAudio>>

AskAudio(from, to, what) ==
  /\ Go(from, to) /\ audq' = PostAud(audq, what) /\ aack' = "none"
  /\ UNCHANGED <<webcam, alive, camState, frameQ, camVideo, camQ, camUsb, bStop, armed,
                 audioMsgs>>

AudioAcked(from, to, what) ==
  /\ aack = what /\ Go(from, to) /\ aack' = "none"
  /\ UNCHANGED <<webcam, alive, camState, frameQ, camVideo, camQ, camUsb, audq, bStop, armed,
                 audioMsgs>>

(* The USB tasks are deleted wherever they are, and their queues.          *)
CamExit ==
  /\ Go("exit", "off") /\ alive' = FALSE /\ camQ' = 0 /\ sending' = None /\ audioMsgs' = 0
  /\ UNCHANGED <<webcam, camState, frameQ, camVideo, streaming, audq, aack, bStop, armed>>

CamMain ==
  \/ AskState("entered", "starting", "START") \/ SetStatus
  \/ AskAudio("askMic", "startingMic", "START") \/ AudioAcked("startingMic", "on", "START")
  \/ AskState("askStop", "stopping", "STOP")
  \/ ack /\ AskAudio("stopping", "stoppingMic", "STOPING")
  \/ AudioAcked("stoppingMic", "exit", "STOP") \/ CamExit

-----------------------------------------------------------------------------
(* The state task                                                          *)

Flushed == <<>>

WebcamRequest ==
  /\ request # "none" /\ request' = "none" /\ ack' = TRUE
  /\ frameQ' = IF request = "START" THEN Flushed \o [k \in Buffers |-> k] ELSE Flushed
  /\ UNCHANGED <<camMain, alive, camVideo, camQ, camUsb, camAudio>>

-----------------------------------------------------------------------------
(* The video task, fed by the sensor's interrupt                           *)

SwitchCsiFrame ==
  /\ encQ < EncQ /\ encQ' = encQ + 1
  /\ UNCHANGED <<camMain, alive, camState, frameQ, encoding, isosend, overtaken, camQ, camUsb, camAudio>>

(* A sensor frame is dropped when there is no web camera or no buffer.     *)
TakeFrame ==
  /\ encoding = None /\ encQ > 0 /\ encQ' = encQ - 1
  /\ IF webcam /\ frameQ # <<>>
     THEN encoding' = Head(frameQ) /\ frameQ' = Tail(frameQ)
     ELSE UNCHANGED <<encoding, frameQ>>
  /\ UNCHANGED <<camMain, alive, camState, isosend, overtaken, camQ, camUsb, camAudio>>

(* The status is looked at again: the USB task may be gone.                *)
StillWebcamForgotten == TRUE
StillWebcam == webcam

(* The JPEG engine is done.  Whether the USB task has read the last        *)
(* message is not asked; that it has, rests on the time the engine takes.  *)
FrameReady ==
  /\ encoding # None /\ encoding' = None
  /\ IF StillWebcam THEN isosend' = encoding /\ camQ' = camQ + 1
     ELSE UNCHANGED <<isosend, camQ>>
  /\ overtaken' = (overtaken \/ (StillWebcam /\ camQ > 0 /\ sending = None))
  /\ UNCHANGED <<camMain, alive, camState, frameQ, encQ, camUsb, camAudio>>

VideoTask == TakeFrame \/ FrameReady

-----------------------------------------------------------------------------
(* The USB task, and the host that opens and closes the interface          *)

HostAlt ==
  /\ alive /\ streaming' = ~streaming
  /\ UNCHANGED <<camMain, alive, camState, frameQ, camVideo, camQ, sending, camAudio>>

SendStart ==
  /\ alive /\ sending = None /\ camQ > 0
  /\ camQ' = camQ - 1 /\ sending' = isosend
  /\ UNCHANGED <<camMain, alive, camState, frameQ, camVideo, streaming, camAudio>>

(* Variant: only what the host listens to goes back.                       *)
BackIfHeard == frameQ' = IF streaming /\ Len(frameQ) < NBuf THEN Append(frameQ, sending) ELSE frameQ

(* Sent, timed out, or nobody listens: the buffer goes back.               *)
Back == frameQ' = IF Len(frameQ) < NBuf THEN Append(frameQ, sending) ELSE frameQ

SendEnd ==
  /\ alive /\ sending # None /\ Back /\ sending' = None
  /\ UNCHANGED <<camMain, alive, camState, camVideo, camQ, streaming, camAudio>>

UsbTask == SendStart \/ SendEnd

-----------------------------------------------------------------------------
(* The audio task, fed by the DMA of the microphone                        *)

MicDone ==
  /\ armed > 0 /\ armed' = armed - 1 /\ audq' = PostAud(audq, "DONE")
  /\ UNCHANGED <<camMain, alive, camState, frameQ, camVideo, camQ, camUsb, aack, bStop,
                 audioMsgs>>

(* AVI_AUDIO_DMA_DONE; once the camera is off the buffer goes through the *)
(* wave encoder, which this recording has never set up.                    *)
MicBuffer ==
  /\ Head(audq) = "DONE"
  /\ IF bStop THEN audq' = PostAud(Tail(audq), "STOP") /\ UNCHANGED armed
     ELSE audq' = Tail(audq) /\ armed' = armed + 1
  /\ IF webcam THEN audioMsgs' = Min({audioMsgs + 1, UsbAudQ}) ELSE UNCHANGED audioMsgs
  /\ UNCHANGED <<aack, bStop>>

(* AVI_AUDIO_RECORD_START: as a web camera it needs no encoder.            *)
MicStart ==
  /\ Head(audq) = "START" /\ audq' = Tail(audq)
  /\ bStop' = FALSE /\ armed' = 2 /\ aack' = "START"
  /\ UNCHANGED audioMsgs

StopingForgotten == UNCHANGED bStop
Stoping == bStop' = TRUE

MicStoping ==
  /\ Head(audq) = "STOPING" /\ audq' = Tail(audq) /\ Stoping
  /\ UNCHANGED <<aack, armed, audioMsgs>>

MicStop ==
  /\ Head(audq) = "STOP" /\ audq' = Tail(audq)
  /\ armed' = 0 /\ aack' = "STOP"
  /\ UNCHANGED <<bStop, audioMsgs>>

AudioTask ==
  /\ audq # <<>> /\ (MicBuffer \/ MicStart \/ MicStoping \/ MicStop)
  /\ UNCHANGED <<camMain, alive, camState, frameQ, camVideo, camQ, camUsb>>

UsbAudioTask ==
  /\ audioMsgs > 0 /\ audioMsgs' = audioMsgs - 1
  /\ UNCHANGED <<camMain, alive, camState, frameQ, camVideo, camQ, camUsb, audq, aack, bStop,
                 armed>>

-----------------------------------------------------------------------------
CamNext ==
  \/ CamEntrance \/ CamMain \/ ClearStatus \/ WebcamRequest \/ SwitchCsiFrame \/ VideoTask
  \/ HostAlt \/ UsbTask \/ MicDone \/ AudioTask \/ UsbAudioTask


(***************************************************************************)
(* Properties                                                              *)
(***************************************************************************)

Here(yes) == IF yes THEN 1 ELSE 0
Owners(b) ==
  Cardinality({k \in DOMAIN frameQ : frameQ[k] = b}) + Here(encoding = b)
    + (IF isosend = b THEN camQ ELSE 0) + Here(sending = b)

(* No buffer is encoded into while the host is sent it, or waits twice;    *)
(* and while the camera is on none gets lost.  One ISOTaskMsg is enough    *)
(* for messages whose number nothing but the two buffers bounds: unless    *)
(* the video task is so fast, or the USB task so slow, that a message is   *)
(* written over.  Even then no place is lost: as many buffers go round as  *)
(* at first, be one of them twice among them.                              *)
FrameHasOneOwner ==
  /\ ~overtaken =>
       \A b \in Buffers : Owners(b) <= 1 /\ (main \in {"askMic", "startingMic", "on"} => Owners(b) = 1)
  /\ main \in {"askMic", "startingMic", "on"} =>
       Len(frameQ) + Here(encoding # None) + camQ + Here(sending # None) = NBuf

(* Nothing is posted to a queue of a USB task after usb_cam_exit: the      *)
(* video and the audio task have both seen that the camera is off.         *)
PostsReachTasks == [][(camQ' > camQ \/ audioMsgs' > audioMsgs) => alive]_camVars

(* When the cable is out the camera goes off: the audio task's last        *)
(* buffers bring the acknowledgement main waits for.                       *)
CameraStops == main = "askStop" ~> main = "off"

=============================================================================
