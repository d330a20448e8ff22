------------------------------ MODULE Recorder ------------------------------
(***************************************************************************)
(* The life of a recording: vid_start and vid_stop of the main task         *)
(* (jh/mini_dvr_api.c), the AVI encode state task with its storage-full     *)
(* handler (avi_encoder_state.c), the audio task with its double-buffered   *)
(* DMA (avi_audio_record.c) and the packer task as its callers see it       *)
(* (AviPackerV3_Open, _Close; AviPacker.tla is its own model).              *)
(*                                                                          *)
(* Four tasks share the word avi_encode_status, two acknowledgement         *)
(* mailboxes and the file handles.  uC/OS-II runs the ready task of the     *)
(* highest priority: audio (16) before state (20) before packer (22) before *)
(* main (27); StateMayRun and MainMayRun say when a task gets the CPU.      *)
(* avi_encode_set_status and avi_encode_clear_status are a load and a store *)
(* (mtmp is what main has loaded), and main can be preempted in between.    *)
(*                                                                          *)
(* Not modelled here: frames and chunks (AviSync.tla), the USB camera, the  *)
(* pause and resume requests (no key sends them).                           *)
(***************************************************************************)
EXTENDS Naturals, Sequences

CONSTANTS
    AudQ,        \* length of avi_aud_q
    EncQ,        \* length of AVIEncodeApQ
    Ends,        \* this many DMA buffers end within the 5 s of OSMboxPend
    May          \* what may go wrong in some behaviour

(* A buffer is 15 frames of PCM (C_WAVE_ENCODE_TIMES), well under 2 s. *)
ASSUME EndsAssumption == Ends \in Nat /\ Ends >= 2
ASSUME QueueAssumption == AudQ \in Nat \ {0} /\ EncQ \in Nat \ {0}

(* "full": the card fills up; "error": a write of the packer fails; "late": the audio
   task misses the end of a DMA buffer; "audio": the audio task gets no memory or no DMA
   channel; "open": the packer gets no task or queue. *)
ASSUME MayAssumption == May \subseteq {"full", "error", "late", "audio", "open"}

VARIABLES
    mode,       \* of mini_dvr_main: "jpeg", "avi", or "off" once the power is cut
    mpc,        \* where the main task is
    why,        \* what main does after vid_stop: "jpeg", "off", "restart"
    ok,         \* no request of this vid_stop has failed so far
    mtmp,       \* avi_encode_status as loaded by main for an update
    fileOver,   \* g_file_size_over
    errFlag,    \* g_avi_packer_error_flag
    captured,   \* g_capture_complete_flag
    status,     \* avi_encode_status: a subset of Bits
    mack, aack, \* avi_encode_ack_m, avi_aud_ack_m: a request's name, or "none"
    got,        \* the acknowledgement main's OSMboxPend was given, or "none"
    spc,        \* where the state task is
    encq,       \* AVIEncodeApQ
    timer,      \* the video timer runs
    audq,       \* avi_aud_q
    bStop,      \* local of the audio task
    dma,        \* buffers the audio DMA has armed: 0, 1, 2
    mem,        \* the PCM buffers are allocated
    ends,       \* buffers that have ended since main and the handler began to wait for audio
    older,      \* main waits since before the handler began to
    crossed,    \* history: the handler has ended between an answer to main, or main's load
                \* of avi_encode_status, and the store main makes of it
    packer,     \* "closed", "open", "stopping" (has the STOP message), "stopped"
    sem,        \* who holds AviPacker->Sem inside AviPackerV3_Close
    dead,       \* a write of this packer has failed
    fh,         \* AviPackerCur->file_handle
    opened,     \* the file handles that are open
    stale,      \* close was called with a handle that is not open
    faults      \* what may go wrong in this behaviour

mainVars  == <<mode, mpc, why, ok, mtmp>>
flagVars  == <<fileOver, errFlag, captured>>
boxVars   == <<mack, aack, got>>
stateVars == <<spc, encq, timer>>
audioVars == <<audq, bStop, dma, mem>>
packVars  == <<packer, sem, dead>>
fileVars  == <<fh, opened, stale>>
pastVars  == <<ends, older, crossed>>
vars == <<mainVars, flagVars, status, boxVars, stateVars, audioVars, packVars, fileVars, pastVars,
          faults>>

Bits == {"START", "AUDIO", "VIDEO", "PACKER"}  \* START stands for VID_ENC_START too

(* What the storage-full handler clears; the mutants forget a bit. *)
FullBitsNoStart  == {"AUDIO", "VIDEO", "PACKER"}
FullBitsNoPacker == {"START", "AUDIO", "VIDEO"}
FullBits == {"START", "AUDIO", "VIDEO", "PACKER"}

(* Main is between the load and the store of an update of avi_encode_status. *)
Updates == {"setPacker", "setAudio", "setStart", "clrAudio", "clrStart", "clrPacker"}

(* After video_encode_init: the preview runs, nothing is recorded. *)
Init ==
    /\ mode = "jpeg" /\ mpc = "idle" /\ why = "none" /\ ok = TRUE /\ mtmp = {}
    /\ fileOver = FALSE /\ errFlag = FALSE /\ captured = FALSE
    /\ status = {"VIDEO"}
    /\ mack = "none" /\ aack = "none" /\ got = "none"
    /\ spc = "idle" /\ encq = <<>> /\ timer = FALSE
    /\ audq = <<>> /\ bStop = FALSE /\ dma = 0 /\ mem = FALSE
    /\ packer = "closed" /\ sem = "none" /\ dead = FALSE
    /\ ends = [main |-> 0, full |-> 0] /\ older = FALSE /\ crossed = FALSE
    /\ fh = "none" /\ opened = {} /\ stale = FALSE
    /\ faults \in SUBSET May

-----------------------------------------------------------------------------
(* Queues, mailboxes and scheduling *)

(* OSQPost: a full queue refuses the message. *)
PostEnc(m) == encq' = IF Len(encq) < EncQ THEN Append(encq, m) ELSE encq
PostAud(m) == audq' = IF Len(audq) < AudQ THEN Append(audq, m) ELSE audq

(* POST_MESSAGE by main: throw an old acknowledgement away, post, then pend.  The
   mutant does without the first step, and pends on a mailbox that is not empty. *)
AskEncKeepsOld(m) == mack' = "none" /\ got' = mack /\ PostEnc(m) /\ UNCHANGED <<aack, spc, timer>>
AskEnc(m) == mack' = "none" /\ got' = "none" /\ PostEnc(m) /\ UNCHANGED <<aack, spc, timer>>
AskAud(m) == /\ aack' = "none" /\ got' = "none" /\ PostAud(m)
             /\ UNCHANGED <<mack, bStop, dma, mem>>

(* OSMboxPost: the waiting task of the highest priority gets the message, and only
   if nobody waits does the mailbox keep it. *)
AckEnc(m) ==
    IF mpc \in {"startEnc", "stopEnc"} /\ got = "none"
    THEN got' = m /\ UNCHANGED <<mack, aack>>
    ELSE mack' = m /\ UNCHANGED <<aack, got>>
AckAud(m) ==
    IF spc = "fullAudio"
    THEN spc' = "fullClose" /\ UNCHANGED boxVars
    ELSE /\ IF mpc \in {"startAudio", "stopAudio"} /\ got = "none"
            THEN got' = m /\ UNCHANGED <<mack, aack>>
            ELSE aack' = m /\ UNCHANGED <<mack, got>>
         /\ UNCHANGED spc

StateReady ==
    \/ spc = "idle" /\ encq # <<>>
    \/ spc = "fullClose" /\ sem = "none"
    \/ spc = "fullClosing" /\ packer = "stopped"

StateMayRun == mode # "off" /\ audq = <<>>
MainMayRun  == mode # "off" /\ audq = <<>> /\ ~StateReady

(* The 5 s of OSMboxPend pass without an answer: the request was thrown away, or its
   answer went to the state task, or that task is busy.  An armed DMA goes on
   meanwhile; and of two waits the one that began first ends first. *)
Waits     == {"startAudio", "stopAudio", "startEnc", "stopEnc"}
Passed(n) == dma = 0 \/ n = Ends
MainFirst == spc = "fullAudio" => older
AudSilent == got = "none" /\ audq = <<>> /\ Passed(ends.main) /\ MainFirst
EncSilent == got = "none" /\ (spc = "idle" => encq = <<>>) /\ MainFirst

CloseHandle(h) == opened' = opened \ {h} /\ stale' = (stale \/ h \notin opened)

-----------------------------------------------------------------------------
(* The audio task *)

(* dma_isr: a buffer is full; the DMA goes on in the second one if it is armed. *)
DmaDone ==
    /\ mode # "off" /\ dma > 0
    /\ "late" \in faults \/ dma = 2 \/ ~ \E i \in 1..Len(audq) : audq[i] = "DONE"
    /\ dma' = dma - 1
    /\ PostAud("DONE")
    /\ UNCHANGED <<mainVars, flagVars, status, boxVars, stateVars, bStop, mem, packVars, fileVars>>

AudioMay(m) == mode # "off" /\ audq # <<>> /\ Head(audq) = m

AudioStart ==
    /\ AudioMay("START")
    /\ bStop' = FALSE
    /\ \/ mem' = TRUE /\ dma' = 2 /\ AckAud("START")
       \/ "audio" \in faults /\ mem' = FALSE /\ dma' = 0 /\ AckAud("FAIL")
    /\ audq' = Tail(audq)
    /\ UNCHANGED <<mainVars, flagVars, status, encq, timer, packVars, fileVars>>

AudioStopingLost ==   \* mutant: the flag is not raised
    /\ AudioMay("STOPING")
    /\ audq' = Tail(audq)
    /\ UNCHANGED <<mainVars, flagVars, status, boxVars, stateVars, bStop, dma, mem, packVars,
                   fileVars>>
AudioStoping ==
    /\ AudioMay("STOPING")
    /\ bStop' = TRUE /\ audq' = Tail(audq)
    /\ UNCHANGED <<mainVars, flagVars, status, boxVars, stateVars, dma, mem, packVars, fileVars>>

(* AVI_AUDIO_DMA_DONE: arm the next buffer, or post STOP to itself; then the chunk
   is encoded, and may find the card full or the file too long. *)
Rearm ==
    IF bStop THEN audq' = Append(Tail(audq), "STOP") /\ UNCHANGED dma
             ELSE audq' = Tail(audq) /\ dma' = IF dma = 1 THEN 2 ELSE dma

AudioDone ==
    /\ AudioMay("DONE")
    /\ Rearm
    /\ \/ UNCHANGED <<encq, timer, fileOver>>
       \/ "START" \in status /\ fileOver' = TRUE /\ UNCHANGED <<encq, timer>>
       \/ /\ "full" \in faults /\ "START" \in status
          /\ PostEnc("FULL") /\ timer' = FALSE /\ UNCHANGED fileOver
    /\ UNCHANGED <<mainVars, errFlag, captured, status, boxVars, spc, bStop, mem, packVars,
                   fileVars>>

AudioStop ==
    /\ AudioMay("STOP")
    /\ dma' = 0 /\ mem' = FALSE
    /\ audq' = Tail(audq) /\ AckAud("STOP")
    /\ UNCHANGED <<mainVars, flagVars, status, encq, timer, bStop, packVars, fileVars>>

Audio == AudioStart \/ AudioStoping \/ AudioDone \/ AudioStop

-----------------------------------------------------------------------------
(* The packer task: ends on STOP; a failed write calls avi_packer_err_handle. *)

PackerStop ==
    /\ mode # "off" /\ packer = "stopping"
    /\ packer' = "stopped"
    /\ UNCHANGED <<mainVars, flagVars, status, boxVars, stateVars, audioVars, sem, dead, fileVars>>

PackerError ==
    /\ "error" \in faults /\ mode # "off" /\ packer \in {"open", "stopping"} /\ ~dead
    /\ timer' = FALSE /\ errFlag' = TRUE /\ dead' = TRUE
    /\ UNCHANGED <<mainVars, fileOver, captured, status, boxVars, spc, encq, audioVars, packer, sem,
                   fileVars>>

-----------------------------------------------------------------------------
(* The state task *)

StateMay(m) == StateMayRun /\ spc = "idle" /\ encq # <<>> /\ Head(encq) = m

EncStart ==
    /\ StateMay("START")
    /\ timer' = TRUE /\ AckEnc("START") /\ encq' = Tail(encq)
    /\ UNCHANGED <<mainVars, flagVars, status, spc, audioVars, packVars, fileVars>>

EncStop ==
    /\ StateMay("STOP")
    /\ timer' = FALSE /\ AckEnc("STOP") /\ encq' = Tail(encq)
    /\ UNCHANGED <<mainVars, flagVars, status, spc, audioVars, packVars, fileVars>>

EncCapture ==
    /\ StateMay("CAPTURE")
    /\ CloseHandle(fh) /\ captured' = TRUE /\ AckEnc("CAPTURE") /\ encq' = Tail(encq)
    /\ UNCHANGED <<mainVars, fileOver, errFlag, status, spc, timer, audioVars, packVars, fh>>

(* A frame the timer asked for finds the card full or the file too long. *)
EncFrame ==
    /\ StateMayRun /\ spc = "idle" /\ encq = <<>> /\ timer
    /\ \/ fileOver' = TRUE /\ UNCHANGED <<encq, timer>>
       \/ "full" \in faults /\ PostEnc("FULL") /\ timer' = FALSE /\ UNCHANGED fileOver
    /\ UNCHANGED <<mainVars, errFlag, captured, status, boxVars, spc, audioVars, packVars,
                   fileVars>>

(* MSG_AVI_STORAGE_FULL, up to the pend of avi_audio_record_stop *)
FullBegin ==
    /\ StateMay("FULL")
    /\ encq' = Tail(encq) /\ spc' = "fullAudio"
    /\ aack' = "none" /\ PostAud("STOPING")
    /\ UNCHANGED <<mainVars, flagVars, status, mack, got, timer, bStop, dma, mem, packVars,
                   fileVars>>

(* The audio task does not answer: after 5 s the state task frees the buffers itself. *)
FullTimeout ==
    /\ StateMayRun /\ spc = "fullAudio" /\ Passed(ends.full)
    /\ spc' = "fullClose" /\ mem' = FALSE
    /\ UNCHANGED <<mainVars, flagVars, status, boxVars, encq, timer, audq, bStop, dma, packVars,
                   fileVars>>

(* AviPackerV3_Close by p: on a closed packer it returns at once, else it takes the
   semaphore and posts STOP. *)
PackerOpen == packer # "closed"
CloseBegin(p) == sem = "none" /\ PackerOpen /\ sem' = p /\ packer' = "stopping" /\ UNCHANGED dead
CloseEnd(p)   == sem = p /\ packer = "stopped" /\ sem' = "none" /\ packer' = "closed"
                 /\ UNCHANGED dead

FullClose ==
    /\ StateMayRun /\ spc = "fullClose"
    /\ \/ CloseBegin("state") /\ spc' = "fullClosing"
       \/ ~PackerOpen /\ spc' = "fullFile" /\ UNCHANGED packVars
    /\ UNCHANGED <<mainVars, flagVars, status, boxVars, encq, timer, audioVars, fileVars>>

FullClosing ==
    /\ StateMayRun /\ spc = "fullClosing" /\ CloseEnd("state")
    /\ spc' = "fullFile"
    /\ UNCHANGED <<mainVars, flagVars, status, boxVars, encq, timer, audioVars, fileVars>>

(* avi_encode_close_file, then the status and the queue *)
FullEnd ==
    /\ StateMayRun /\ spc = "fullFile"
    /\ CloseHandle(fh) /\ fh' = "none"
    /\ status' = status \ FullBits
    /\ encq' = <<>> /\ spc' = "idle"
    /\ UNCHANGED <<mainVars, flagVars, boxVars, timer, audioVars, packVars>>

State == \/ EncStart \/ EncStop \/ EncCapture \/ EncFrame
         \/ FullBegin \/ FullTimeout \/ FullClose \/ FullClosing \/ FullEnd

-----------------------------------------------------------------------------
(* The main task: vid_start *)

Main(pc) == MainMayRun /\ mpc = pc

(* vid_start up to avi_enc_packer_start: refused while recording, for want of space,
   when the file or the index file cannot be opened, or when the packer bit is set;
   the last two close and unlink the file. *)
StartRefused ==
    /\ mode' = "jpeg" /\ mpc' = "idle"
    /\ fh' \in {fh} \union (IF "START" \in status THEN {} ELSE {"avi"})
    /\ UNCHANGED <<ok, mtmp, packer, dead, opened, stale>>
StartOpened ==
    /\ "START" \notin status /\ "PACKER" \notin status
    /\ opened' = opened \union {"avi"} /\ fh' = "avi"
    /\ \/ packer' = "open" /\ dead' = FALSE /\ UNCHANGED ok
       \/ "open" \in faults /\ ok' = FALSE /\ UNCHANGED <<packer, dead>>
    /\ mtmp' = status /\ mpc' = "setPacker"
    /\ UNCHANGED <<mode, stale>>

MainStart ==
    /\ Main("start")
    /\ fileOver' = FALSE /\ errFlag' = FALSE
    /\ StartRefused \/ StartOpened
    /\ UNCHANGED <<why, captured, status, boxVars, stateVars, audioVars, sem>>

(* avi_enc_start from its second half on *)
AskEncode(bits) ==
    IF "START" \notin bits
    THEN AskEnc("START") /\ mpc' = "startEnc" /\ UNCHANGED mode
    ELSE mpc' = "idle" /\ mode' = "avi" /\ UNCHANGED <<boxVars, stateVars>>

(* A failed vid_start closes and unlinks the file, and leaves the rest as it is. *)
StartFailed == CloseHandle("avi") /\ mode' = "jpeg" /\ mpc' = "idle" /\ got' = "none"
               /\ UNCHANGED <<mtmp, mack, aack>>

(* avi_enc_packer_start sets the bit whether AviPackerV3_Open has failed or not. *)
MainSetPacker ==
    /\ Main("setPacker")
    /\ status' = mtmp \union {"PACKER"} /\ mtmp' = {} /\ ok' = TRUE
    /\ IF ~ok
       THEN /\ CloseHandle("avi") /\ mode' = "jpeg" /\ mpc' = "idle"
            /\ UNCHANGED <<boxVars, stateVars, audioVars>>
       ELSE /\ IF "AUDIO" \notin status'
               THEN AskAud("START") /\ mpc' = "startAudio" /\ UNCHANGED <<mode, stateVars>>
               ELSE AskEncode(status') /\ UNCHANGED audioVars
            /\ UNCHANGED <<opened, stale>>
    /\ UNCHANGED <<why, flagVars, packVars, fh>>

(* The acknowledgement: main loads the status word to set or clear a bit at pc. *)
Acked(pc) == got \notin {"none", "FAIL"} /\ got' = "none" /\ mtmp' = status /\ mpc' = pc
             /\ UNCHANGED <<mack, aack>>

MainStartAudio ==
    /\ Main("startAudio")
    /\ \/ Acked("setAudio") /\ UNCHANGED <<mode, opened, stale>>
       \/ (got = "FAIL" \/ AudSilent) /\ StartFailed
    /\ UNCHANGED <<why, ok, flagVars, status, stateVars, audioVars, packVars, fh>>

MainSetAudio ==
    /\ Main("setAudio")
    /\ status' = mtmp \union {"AUDIO"} /\ mtmp' = {}
    /\ AskEncode(status')
    /\ UNCHANGED <<why, ok, flagVars, audioVars, packVars, fileVars>>

MainStartEnc ==
    /\ Main("startEnc")
    /\ \/ Acked("setStart") /\ UNCHANGED <<mode, opened, stale>>
       \/ EncSilent /\ StartFailed
    /\ UNCHANGED <<why, ok, flagVars, status, stateVars, audioVars, packVars, fh>>

MainSetStart ==
    /\ Main("setStart")
    /\ status' = mtmp \union {"START"} /\ mtmp' = {}
    /\ mpc' = "idle" /\ mode' = "avi"
    /\ UNCHANGED <<why, ok, flagVars, boxVars, stateVars, audioVars, packVars, fileVars>>

-----------------------------------------------------------------------------
(* The main task: vid_stop *)

StopPacker(bits) == mpc' = IF "PACKER" \in bits THEN "close" ELSE "stopEnd"
StopEncode(bits) ==
    IF "START" \in bits THEN AskEnc("STOP") /\ mpc' = "stopEnc"
                        ELSE StopPacker(bits) /\ UNCHANGED <<boxVars, stateVars>>

(* vid_stop up to the first request; nothing to do unless recording *)
VidStop ==
    IF "START" \notin status
    THEN mpc' = "stopEnd" /\ UNCHANGED <<boxVars, stateVars, audioVars>>
    ELSE IF "AUDIO" \in status
         THEN AskAud("STOPING") /\ mpc' = "stopAudio" /\ UNCHANGED stateVars
         ELSE StopEncode(status) /\ UNCHANGED audioVars

MainStopAudio ==
    /\ Main("stopAudio")
    /\ \/ Acked("clrAudio") /\ UNCHANGED <<ok, mem>>
       \/ AudSilent /\ mem' = FALSE /\ ok' = FALSE /\ StopPacker(status)
          /\ UNCHANGED <<boxVars, mtmp>>
    /\ UNCHANGED <<mode, why, flagVars, status, stateVars, audq, bStop, dma, packVars, fileVars>>

MainClrAudio ==
    /\ Main("clrAudio")
    /\ status' = mtmp \ {"AUDIO"} /\ mtmp' = {}
    /\ StopEncode(status')
    /\ UNCHANGED <<mode, why, ok, flagVars, audioVars, packVars, fileVars>>

MainStopEnc ==
    /\ Main("stopEnc")
    /\ \/ Acked("clrStart") /\ UNCHANGED ok
       \/ EncSilent /\ ok' = FALSE /\ StopPacker(status) /\ UNCHANGED <<boxVars, mtmp>>
    /\ UNCHANGED <<mode, why, flagVars, status, stateVars, audioVars, packVars, fileVars>>

MainClrStart ==
    /\ Main("clrStart")
    /\ status' = mtmp \ {"START"} /\ mtmp' = {}
    /\ StopPacker(status')
    /\ UNCHANGED <<mode, why, ok, flagVars, boxVars, stateVars, audioVars, packVars, fileVars>>

(* avi_enc_packer_stop *)
MainClose ==
    /\ Main("close")
    /\ \/ CloseBegin("main") /\ mpc' = "closing"
       \/ ~PackerOpen /\ mpc' = "closeFailed" /\ UNCHANGED packVars
    /\ UNCHANGED <<mode, why, ok, mtmp, flagVars, status, boxVars, stateVars, audioVars, fileVars>>

(* The acknowledgement of the packer: a state task that waits for the semaphore gets
   it before it is deleted, posts STOP to a task that is gone and waits for ever. *)
MainClosing ==
    /\ Main("closing") /\ CloseEnd("main")
    /\ mpc' = "closeFile"
    /\ spc' = IF spc = "fullClose" THEN "stuck" ELSE spc
    /\ UNCHANGED <<mode, why, ok, mtmp, flagVars, status, boxVars, encq, timer, audioVars,
                   fileVars>>

MainCloseFile ==
    /\ MainMayRun /\ mpc \in {"closeFile", "closeFailed"}
    /\ CloseHandle(fh) /\ fh' = "none"
    /\ IF mpc = "closeFile"
       THEN mtmp' = status /\ mpc' = "clrPacker" /\ UNCHANGED ok
       ELSE ok' = FALSE /\ mpc' = "stopEnd" /\ UNCHANGED mtmp
    /\ UNCHANGED <<mode, why, flagVars, status, boxVars, stateVars, audioVars, packVars>>

MainClrPacker ==
    /\ Main("clrPacker")
    /\ status' = mtmp \ {"PACKER"} /\ mtmp' = {} /\ mpc' = "stopEnd"
    /\ UNCHANGED <<mode, why, ok, flagVars, boxVars, stateVars, audioVars, packVars, fileVars>>

(* After video_encode_stop: a failure closes g_file_handle; then back to the loop. *)
MainStopEnd ==
    /\ Main("stopEnd")
    /\ IF ok THEN UNCHANGED <<opened, stale>> ELSE CloseHandle("avi")
    /\ ok' = TRUE /\ why' = "none"
    /\ mode' = IF why = "restart" THEN mode ELSE why
    /\ mpc' = IF why = "restart" THEN "start" ELSE "idle"
    /\ UNCHANGED <<mtmp, flagVars, status, boxVars, stateVars, audioVars, packVars, fh>>

-----------------------------------------------------------------------------
(* The loop of mini_dvr_main *)

(* Recording has ended by itself: power off. *)
MainPowerOff ==
    /\ Main("idle") /\ mode = "avi" /\ "START" \notin status
    /\ mode' = "off"
    /\ UNCHANGED <<mpc, why, ok, mtmp, flagVars, status, boxVars, stateVars, audioVars, packVars,
                   fileVars>>

(* The file is too long, or a write failed: vid_stop and vid_start. *)
MainRestart ==
    /\ Main("idle") /\ mode = "avi" /\ "START" \in status /\ (fileOver \/ errFlag)
    /\ why' = "restart" /\ VidStop
    /\ UNCHANGED <<mode, ok, mtmp, flagVars, status, packVars, fileVars>>

(* The short key returns to photo mode; the long key, USB and a low battery end
   with the power off. *)
MainStop ==
    /\ Main("idle") /\ mode = "avi"
    /\ why' \in {"jpeg", "off"} /\ VidStop
    /\ UNCHANGED <<mode, ok, mtmp, flagVars, status, packVars, fileVars>>

(* The long key in photo mode *)
MainRecord ==
    /\ Main("idle") /\ mode = "jpeg"
    /\ mpc' = "start"
    /\ UNCHANGED <<mode, why, ok, mtmp, flagVars, status, boxVars, stateVars, audioVars, packVars,
                   fileVars>>

(* Photo mode: idle for too long, or a low battery *)
MainIdleOff ==
    /\ Main("idle") /\ mode = "jpeg"
    /\ mode' = "off"
    /\ UNCHANGED <<mpc, why, ok, mtmp, flagVars, status, boxVars, stateVars, audioVars, packVars,
                   fileVars>>

(* The short key in photo mode: capture_jpeg hands the picture's file to the state
   task and polls g_capture_complete_flag. *)
MainCapture ==
    /\ Main("idle") /\ mode = "jpeg" /\ "START" \notin status
    /\ opened' = opened \union {"jpg"} /\ fh' = "jpg" /\ UNCHANGED stale
    /\ captured' = FALSE /\ PostEnc("CAPTURE") /\ mpc' = "capture"
    /\ UNCHANGED <<mode, why, ok, mtmp, fileOver, errFlag, status, boxVars, spc, timer, audioVars,
                   packVars>>

MainCapturedCloses ==   \* mutant: capture_jpeg closes the file as well
    /\ Main("capture") /\ captured
    /\ mpc' = "idle" /\ captured' = FALSE /\ CloseHandle("jpg")
    /\ UNCHANGED <<mode, why, ok, mtmp, fileOver, errFlag, status, boxVars, stateVars, audioVars,
                   packVars, fh>>
MainCaptured ==
    /\ Main("capture") /\ captured
    /\ mpc' = "idle" /\ captured' = FALSE
    /\ UNCHANGED <<mode, why, ok, mtmp, fileOver, errFlag, status, boxVars, stateVars, audioVars,
                   packVars, fileVars>>

MainTask ==
    \/ MainStart \/ MainSetPacker \/ MainStartAudio \/ MainSetAudio
    \/ MainStartEnc \/ MainSetStart
    \/ MainStopAudio \/ MainClrAudio \/ MainStopEnc \/ MainClrStart
    \/ MainClose \/ MainClosing \/ MainCloseFile \/ MainClrPacker \/ MainStopEnd
    \/ MainPowerOff \/ MainRestart \/ MainCaptured

Keys == MainStop \/ MainRecord \/ MainIdleOff \/ MainCapture

(* In every step: how long main and the handler have waited for the audio task, in
   the n DMA buffers that end; which of them began first; and whether the handler ends
   between a load and a store of main. *)
Since(waits, c, n) == IF waits THEN IF c + n <= Ends THEN c + n ELSE Ends ELSE 0
Waiting(n) ==
    /\ ends' = [main |-> Since(mpc' = mpc /\ mpc \in {"startAudio", "stopAudio"}, ends.main, n),
                full |-> Since(spc' = spc /\ spc = "fullAudio", ends.full, n)]
    /\ older' = /\ spc' = "fullAudio" /\ mpc' = mpc /\ mpc \in Waits
                /\ spc = "fullAudio" => older
    /\ crossed' = \/ crossed
                  \/ spc = "fullFile" /\ spc' = "idle" /\ (mpc \in Updates \/ got # "none")

Step(A, n) == A /\ Waiting(n) /\ UNCHANGED faults

Next == \/ Step(DmaDone, 1) \/ Step(Audio, 0) \/ Step(PackerStop, 0) \/ Step(PackerError, 0)
        \/ Step(State, 0) \/ Step(MainTask, 0) \/ Step(Keys, 0)
Spec == Init /\ [][Next]_vars

(* uC/OS-II runs the highest ready task, and the load leaves every task some time: a
   task whose turn comes again and again gets on.  Keys, frames and failed writes owe
   nothing. *)
Fairness ==
    /\ SF_vars(Step(MainTask, 0))
    /\ WF_vars(Step(DmaDone, 1)) /\ WF_vars(Step(Audio, 0))
    /\ WF_vars(Step(PackerStop, 0))
    /\ SF_vars(Step(EncStart \/ EncStop \/ EncCapture, 0))
    /\ SF_vars(Step(FullBegin \/ FullTimeout \/ FullClose \/ FullClosing \/ FullEnd, 0))
FairSpec == Spec /\ Fairness

-----------------------------------------------------------------------------
(* Properties *)

Idle == mpc = "idle" /\ spc = "idle"
Only(f) == faults \subseteq f

(* An acknowledgement main takes is the one of the request it has made, although
   nobody takes the one of a capture, two tasks use the audio mailbox, and a request
   that has timed out may be answered later. *)
AckIsMine ==
    /\ mpc = "startAudio" => got \in {"none", "FAIL", "START"}
    /\ mpc = "stopAudio"  => got \in {"none", "STOP"}
    /\ mpc = "startEnc"   => got \in {"none", "START"}
    /\ mpc = "stopEnc"    => got \in {"none", "STOP"}

(* Whenever the main loop believes that it records, and unless the handler has crossed
   a store of main: the packer is open on an open file, or the loop is told that its
   writes fail; the bits that vid_stop goes by are set; the audio task has its buffers
   and no request to stop, and the DMA is armed unless an end of a buffer was missed. *)
RecordingIsReal ==
    (Idle /\ mode = "avi" /\ "START" \in status /\ ~crossed) =>
        /\ packer = "open" /\ "avi" \in opened /\ (dead => errFlag)
        /\ {"AUDIO", "PACKER"} \subseteq status
        /\ mem /\ ~bStop /\ ("late" \notin faults => dma > 0)

(* Back in photo mode, or stopped by a full card, nothing of the recording is left: a
   bit, a file or a buffer that stayed behind would refuse every later vid_start.  The
   handler crossing a store of main is what brings bits back. *)
NothingLeft ==
    (/\ Only({"full", "error"}) /\ ~crossed
     /\ Idle /\ (mode = "jpeg" \/ (mode = "avi" /\ "START" \notin status))) =>
        /\ packer = "closed" /\ opened = {}
        /\ status \subseteq {"VIDEO"}
        /\ ~mem /\ dma = 0

(* As long as no storage-full handler runs beside vid_stop, no handle is closed twice. *)
ClosedOnce == Only({"error", "audio", "open"}) => ~stale

(* The audio DMA never writes into buffers that avi_audio_memory_free has given back,
   although main and the storage-full handler free them after 5 s without an answer and
   without a look at the DMA: by then it has run out, since STOPING ends the rearming. *)
DmaInMemory == dma > 0 => mem


=============================================================================
