------------------------------ MODULE AviSync ------------------------------
(***************************************************************************)
(* How the AVI encoder keeps video in step with audio and hands frames     *)
(* over (application/task_avi_encoder/src):                                *)
(*   - the timer interrupt avi_encode_sync_timer_isr advances the clock tv *)
(*     and asks the state task for one frame at a time;                    *)
(*   - the video task encodes into one of the video buffers and publishes  *)
(*     it as ready_frame;                                                  *)
(*   - the state task puts the published frame, or a null frame, into the  *)
(*     file and advances Tv;                                               *)
(*   - the audio task puts audio chunks and advances ta;                   *)
(*   - the main task starts, pauses, resumes and stops.                    *)
(* Priorities, highest first: interrupt, video, audio, state, main.  The   *)
(* state task is preempted between any two accesses to shared data, so its *)
(* steps are interleaved with all those above it; the parts of the video   *)
(* and audio tasks between two blocking calls are atomic, and main runs    *)
(* only while the state task waits.                                        *)
(* PutData itself is module AviPacker; here it succeeds or fails.          *)
(***************************************************************************)
EXTENDS Integers, Sequences, FiniteSets

CONSTANTS
  Tick, DeltaTa, DeltaTv, \* tick, delta_ta, delta_Tv
  LateShift,     \* N: a frame later than delta_Tv << N is replaced by a null frame
  Audio,         \* the file has audio (p_avi_wave_info)
  NumBuffers,    \* AVI_ENCODE_VIDEO_BUFFER_NO
  FrameSizes, AudioSizes, \* sizes of coded frames and audio chunks
  Overhead,      \* 8 + 2*16: chunk header and two index entries
  FileLimit,     \* AVI_FILE_MAX_RECORD_SIZE
  FreeSpace,     \* disk_free_size
  QMax,          \* AVI_ENCODE_QUEUE_MAX_LEN
  Calls,         \* the calls main makes
  CntMod,        \* values of post_cnt and pend_cnt
  MaxTv, MaxChunks, MaxCalls \* bounds: clock, chunks put, calls of the main task

Buffers == 1..NumBuffers
NoBuffer == 0

ASSUME SyncAssumption ==
  /\ Tick \in Nat \ {0} /\ DeltaTa \in Nat \ {0} /\ DeltaTv \in Nat \ {0}
  /\ LateShift \in Nat /\ Audio \in BOOLEAN
  /\ NumBuffers \in Nat /\ NumBuffers >= 2
  /\ FrameSizes \subseteq Nat \ {0} /\ AudioSizes \subseteq Nat \ {0} /\ Overhead \in Nat
  /\ FileLimit \in Nat /\ FreeSpace \in Nat
  /\ Calls \subseteq {"START", "PAUSE", "RESUME", "STOP"}
  /\ QMax \in Nat /\ CntMod \in Nat /\ CntMod >= 2
  /\ MaxTv \in Nat /\ MaxChunks \in Nat /\ MaxCalls \in Nat

VARIABLES
  timerOn, tv, ta, Tv,        \* the video timer and the three clocks
  post_cnt, pend_cnt,         \* frames asked for and frames dealt with
  q, ack,                     \* AVIEncodeApQ; avi_encode_ack_m is full
  status,                     \* C_AVI_ENCODE_START, _PAUSE, C_AVI_VID_ENC_START
  open, audioOn, micOn,       \* the file is open; audio is recorded; its timer runs
  ready_frame, ready_size,    \* the published frame
  lock, vidx,                 \* g_video_lock_addr, g_video_index
  vbuf, bufSize,              \* buffer being encoded into; size of its last frame
  total,                      \* record_total_size
  sizeOver,                   \* g_file_size_over
  spc, temp, amt, frame, size, ok, \* the state task and its locals
  apc, asize,                 \* the audio task and the chunk it puts
  mpc, calls,                 \* the main task
  accepted, chunks, taken, raced   \* history: see below

(* accepted: bytes of the chunks PutData took; chunks: how many; taken[b]:  *)
(* the frame in b is in the file; raced: where the state task stood, between *)
(* two of its accesses to the published frame, when another was published.  *)

clockVars == <<timerOn, tv, ta, Tv, post_cnt, pend_cnt>>
videoVars == <<ready_frame, ready_size, lock, vidx, vbuf, bufSize, taken, raced>>
fileVars  == <<total, sizeOver, accepted, chunks>>
stateVars == <<spc, temp, amt, frame, size, ok>>
audioVars == <<apc, asize>>
mainVars  == <<mpc, calls, open, audioOn>>
vars == <<clockVars, q, ack, status, micOn, videoVars, fileVars, stateVars, audioVars, mainVars>>

Init ==
  /\ timerOn = FALSE /\ tv = 0 /\ ta = 0 /\ Tv = 0 /\ post_cnt = 0 /\ pend_cnt = 0
  /\ q = <<>> /\ ack = FALSE /\ status = {}
  /\ open = FALSE /\ audioOn = FALSE /\ micOn = FALSE
  /\ ready_frame = NoBuffer /\ ready_size = 0 /\ lock = NoBuffer /\ vidx = 1
  /\ vbuf = NoBuffer /\ bufSize = [b \in Buffers |-> 0]
  /\ taken = [b \in Buffers |-> FALSE] /\ raced = {}
  /\ total = 0 /\ sizeOver = FALSE /\ accepted = 0 /\ chunks = 0
  /\ spc = "idle" /\ temp = 0 /\ amt = 0 /\ frame = NoBuffer /\ size = 0 /\ ok = FALSE
  /\ apc = "idle" /\ asize = 0 /\ mpc = "idle" /\ calls = 0

(* OSQPost: a message for a full queue is lost.                            *)
Post(m) == q' = IF Len(q) < QMax THEN Append(q, m) ELSE q
-----------------------------------------------------------------------------
(* The timer interrupt.                                                    *)

(* Variant: the clock is not held back while audio is behind.              *)
ClockFree == tv + Tick

(* tv after the interrupt: it waits for the audio task.                    *)
Clock == IF Audio /\ tv - ta >= DeltaTa THEN tv ELSE tv + Tick

(* Variant: a frame is asked for while another is pending.                 *)
TimerIsrEager ==
  /\ timerOn /\ tv < MaxTv
  /\ tv' = Clock
  /\ IF tv' > Tv
       THEN Post("ONE") /\ post_cnt' = (post_cnt + 1) % CntMod
       ELSE UNCHANGED <<q, post_cnt>>
  /\ UNCHANGED <<timerOn, ta, Tv, pend_cnt, ack, status, micOn, videoVars, fileVars,
                 stateVars, audioVars, mainVars>>

TimerIsr ==
  /\ timerOn /\ tv < MaxTv
  /\ tv' = Clock
  /\ IF tv' > Tv /\ post_cnt = pend_cnt
       THEN Post("ONE") /\ post_cnt' = (post_cnt + 1) % CntMod
       ELSE UNCHANGED <<q, post_cnt>>
  /\ UNCHANGED <<timerOn, ta, Tv, pend_cnt, ack, status, micOn, videoVars, fileVars,
                 stateVars, audioVars, mainVars>>
-----------------------------------------------------------------------------
(* The video task.                                                         *)

NextBuffer(b) == (b % NumBuffers) + 1

(* Variant: the lock is not looked at.                                     *)
FreeBufferUnlocked == vidx

(* avi_encode_get_video_frame skips the locked buffer.                     *)
FreeBuffer == IF vidx = lock THEN NextBuffer(vidx) ELSE vidx

(* A frame of the sensor arrives and is encoded, if recording is on; where *)
(* FrameSizes is empty, no frame arrives and only null frames are put.     *)
VidPick ==
  /\ vbuf = NoBuffer /\ "VID" \in status /\ FrameSizes # {}
  /\ vbuf' = FreeBuffer
  /\ vidx' = NextBuffer(vbuf')
  /\ UNCHANGED <<clockVars, q, ack, status, micOn, ready_frame, ready_size, lock, bufSize,
                 taken, raced, fileVars, stateVars, audioVars, mainVars>>

(* The state task is between two accesses to the published frame.          *)
MidAccess == {"setlock", "frame", "size", "clear2", "unlock"}

VidPublish ==
  /\ vbuf # NoBuffer
  /\ ready_frame' = vbuf
  /\ ready_size' \in FrameSizes
  /\ bufSize' = [bufSize EXCEPT ![vbuf] = ready_size']
  /\ taken' = [taken EXCEPT ![vbuf] = FALSE]
  /\ raced' = raced \cup ({spc} \cap MidAccess)
  /\ vbuf' = NoBuffer
  /\ UNCHANGED <<clockVars, q, ack, status, micOn, lock, vidx, fileVars,
                 stateVars, audioVars, mainVars>>
-----------------------------------------------------------------------------
(* The disk accounting, avi_encode_disk_size_is_enough.                    *)

(* A sum below zero wraps around (INT32U) and is larger than any limit.    *)
TooLong(t) == t >= FileLimit \/ t < 0
DiskFull(t) == t >= FreeSpace
Fits(t) == ~TooLong(t) /\ ~DiskFull(t)

(* avi_enc_storage_full.                                                   *)
StorageFull == timerOn' = FALSE /\ Post("FULL")

(* PutData takes a chunk or refuses it.                                    *)
Accept(n) ==
  /\ chunks < MaxChunks
  /\ accepted' = accepted + n /\ chunks' = chunks + 1
Refuse == UNCHANGED <<accepted, chunks>>
-----------------------------------------------------------------------------
(* The audio task, once a DMA buffer is full (AVI_AUDIO_DMA_DONE).         *)

AudioChunk ==
  /\ apc = "idle" /\ audioOn /\ micOn /\ "START" \in status
  /\ \E n \in AudioSizes :
       LET len == n + Overhead
           t == total + len
       IN  \/ /\ TooLong(t)
              /\ sizeOver' = TRUE
              /\ apc' = "put" /\ asize' = len
              /\ UNCHANGED <<total, q, timerOn>>
           \/ /\ ~TooLong(t) /\ DiskFull(t)
              /\ StorageFull /\ Len(q) < QMax
              /\ UNCHANGED <<total, sizeOver, apc, asize>>
           \/ /\ Fits(t)
              /\ total' = t
              /\ apc' = "put" /\ asize' = len
              /\ UNCHANGED <<sizeOver, q, timerOn>>
  /\ UNCHANGED <<tv, ta, Tv, post_cnt, pend_cnt, ack, status, micOn, videoVars, accepted, chunks,
                 stateVars, mainVars>>

AudioPut ==
  /\ apc = "put"
  /\ \/ /\ Accept(asize) /\ ta < MaxTv
        /\ ta' = ta + DeltaTa
        /\ UNCHANGED total
     \/ /\ Refuse
        /\ total' = IF Fits(total - asize) THEN total - asize ELSE total
        /\ UNCHANGED ta
  /\ apc' = "idle" /\ asize' = 0
  /\ UNCHANGED <<timerOn, tv, Tv, post_cnt, pend_cnt, q, ack, status, micOn, videoVars, sizeOver,
                 stateVars, mainVars>>
-----------------------------------------------------------------------------
(* The state task: one frame.                                              *)

StateOnly == UNCHANGED <<timerOn, tv, ta, post_cnt, ack, status, micOn, audioVars, mainVars>>

Late == tv - Tv > DeltaTv * (2 ^ LateShift)

(* avi_encode_disk_size_is_enough reads record_total_size ...              *)
OneFrame ==
  /\ spc = "idle" /\ q # <<>> /\ Head(q) = "ONE"
  /\ q' = Tail(q)
  /\ IF Late \/ ready_frame = NoBuffer
       THEN spc' = "null" /\ UNCHANGED <<amt, temp>>
       ELSE /\ amt' = ready_size + Overhead
            /\ temp' = total + amt'
            /\ spc' = "count"
  /\ StateOnly /\ UNCHANGED <<Tv, pend_cnt, videoVars, fileVars, frame, size, ok>>

(* ... and writes it.                                                      *)
CountFrame ==
  /\ spc = "count" /\ temp' = 0
  /\ \/ /\ TooLong(temp)
        /\ sizeOver' = TRUE /\ spc' = "finish" /\ UNCHANGED <<total, timerOn, q>>
     \/ /\ ~TooLong(temp) /\ DiskFull(temp)
        /\ StorageFull /\ spc' = "finish" /\ UNCHANGED <<total, sizeOver>>
     \/ /\ Fits(temp)
        /\ total' = temp /\ spc' = "lock" /\ UNCHANGED <<sizeOver, timerOn, q>>
  /\ UNCHANGED <<tv, ta, Tv, post_cnt, pend_cnt, ack, status, micOn, videoVars, accepted, chunks,
                 amt, frame, size, ok, audioVars, mainVars>>

(* vid_enc_buffer_lock(ready_frame): the argument is read ...              *)
LockFrame ==
  /\ spc = "lock"
  /\ frame' = ready_frame
  /\ spc' = "setlock"
  /\ StateOnly /\ UNCHANGED <<Tv, pend_cnt, q, videoVars, fileVars, temp, amt, size, ok>>

(* ... and stored.                                                         *)
SetLock ==
  /\ spc = "setlock"
  /\ lock' = frame
  /\ spc' = "frame"
  /\ StateOnly
  /\ UNCHANGED <<Tv, pend_cnt, q, ready_frame, ready_size, vidx, vbuf, bufSize, taken, raced,
                 fileVars, temp, amt, frame, size, ok>>

TakeFrame ==
  /\ spc = "frame"
  /\ frame' = ready_frame
  /\ spc' = "size"
  /\ StateOnly /\ UNCHANGED <<Tv, pend_cnt, q, videoVars, fileVars, temp, amt, size, ok>>

TakeSize ==
  /\ spc = "size"
  /\ size' = ready_size
  /\ spc' = "put"
  /\ StateOnly /\ UNCHANGED <<Tv, pend_cnt, q, videoVars, fileVars, temp, amt, frame, ok>>

(* PutData has copied the frame, or refused it.                            *)
PutFrame ==
  /\ spc = "put"
  /\ \/ Accept(size + Overhead) /\ ok' = TRUE /\ taken' = [taken EXCEPT ![frame] = TRUE]
     \/ Refuse /\ UNCHANGED <<ok, taken>>
  /\ spc' = "clear1"
  /\ StateOnly
  /\ UNCHANGED <<Tv, pend_cnt, q, ready_frame, ready_size, lock, vidx, vbuf, bufSize, raced,
                 total, sizeOver, temp, amt, frame, size>>

ClearFrame ==
  /\ spc = "clear1"
  /\ ready_frame' = NoBuffer
  /\ raced' = {}
  /\ spc' = "clear2"
  /\ StateOnly
  /\ UNCHANGED <<Tv, pend_cnt, q, ready_size, lock, vidx, vbuf, bufSize, taken,
                 fileVars, temp, amt, frame, size, ok>>

ClearSize ==
  /\ spc = "clear2"
  /\ ready_size' = 0
  /\ spc' = "unlock"
  /\ StateOnly
  /\ UNCHANGED <<Tv, pend_cnt, q, ready_frame, lock, vidx, vbuf, bufSize, taken, raced,
                 fileVars, temp, amt, frame, size, ok>>

(* A refused frame is taken off the account and followed by a null frame.  *)
UnlockFrame ==
  /\ spc = "unlock"
  /\ lock' = NoBuffer
  /\ IF ok THEN spc' = "finish" /\ UNCHANGED temp
     ELSE spc' = "refund" /\ temp' = total - amt
  /\ StateOnly
  /\ UNCHANGED <<Tv, pend_cnt, q, ready_frame, ready_size, vidx, vbuf, bufSize, taken, raced,
                 fileVars, amt, frame, size, ok>>

Refund ==
  /\ spc = "refund"
  /\ total' = IF Fits(temp) THEN temp ELSE total
  /\ spc' = "null"
  /\ StateOnly
  /\ UNCHANGED <<Tv, pend_cnt, q, videoVars, sizeOver, accepted, chunks, temp, amt, frame, size, ok>>

(* EncodeNullFrame: the answer of the accounting is not looked at.         *)
NullRead ==
  /\ spc = "null"
  /\ temp' = total + Overhead
  /\ spc' = "nullcount"
  /\ StateOnly /\ UNCHANGED <<Tv, pend_cnt, q, videoVars, fileVars, amt, frame, size, ok>>

NullCount ==
  /\ spc = "nullcount"
  /\ total' = IF Fits(temp) THEN temp ELSE total
  /\ spc' = "nullput" /\ temp' = 0
  /\ StateOnly
  /\ UNCHANGED <<Tv, pend_cnt, q, videoVars, sizeOver, accepted, chunks, amt, frame, size, ok>>

PutNull ==
  /\ spc = "nullput"
  /\ \/ Accept(Overhead) /\ ok' = TRUE /\ spc' = "finish" /\ UNCHANGED temp
     \/ Refuse /\ spc' = "nullrefund" /\ temp' = total - Overhead /\ UNCHANGED ok
  /\ StateOnly
  /\ UNCHANGED <<Tv, pend_cnt, q, videoVars, total, sizeOver, amt, frame, size>>

NullRefund ==
  /\ spc = "nullrefund"
  /\ total' = IF Fits(temp) THEN temp ELSE total
  /\ spc' = "finish"
  /\ StateOnly
  /\ UNCHANGED <<Tv, pend_cnt, q, videoVars, sizeOver, accepted, chunks, temp, amt, frame, size, ok>>

(* The locals are dead between two messages.                               *)
Forget == temp' = 0 /\ amt' = 0 /\ frame' = NoBuffer /\ size' = 0 /\ ok' = FALSE

(* Variant: only a frame that went into the file is counted.               *)
FinishUncounted ==
  /\ spc = "finish"
  /\ IF ok THEN Tv' = Tv + DeltaTv /\ pend_cnt' = (pend_cnt + 1) % CntMod
     ELSE UNCHANGED <<Tv, pend_cnt>>
  /\ spc' = "idle"
  /\ Forget
  /\ StateOnly /\ UNCHANGED <<q, videoVars, fileVars>>

Finish ==
  /\ spc = "finish"
  /\ Tv' = IF ok THEN Tv + DeltaTv ELSE Tv
  /\ pend_cnt' = (pend_cnt + 1) % CntMod
  /\ spc' = "idle"
  /\ Forget
  /\ StateOnly /\ UNCHANGED <<q, videoVars, fileVars>>

EncodeOneFrame ==
  \/ OneFrame \/ CountFrame \/ LockFrame \/ SetLock \/ TakeFrame \/ TakeSize \/ PutFrame
  \/ ClearFrame \/ ClearSize \/ UnlockFrame \/ Refund \/ NullRead \/ NullCount
  \/ PutNull \/ NullRefund \/ Finish
-----------------------------------------------------------------------------
(* The state task: control messages.                                       *)

Request(ms) == spc = "idle" /\ q # <<>> /\ Head(q) \in ms
ControlOnly == UNCHANGED <<status, lock, vidx, vbuf, bufSize, taken, raced, fileVars,
                           stateVars, audioVars, mainVars>>

(* MSG_AVI_START_ENCODE falls through into MSG_AVI_RESUME_ENCODE, and      *)
(* avi_encode_video_timer_start sets clocks and counters back.             *)
StartOrResume ==
  /\ Request({"START", "RESUME"})
  /\ q' = Tail(q)
  /\ tv' = 0 /\ ta' = 0 /\ Tv' = 0 /\ post_cnt' = 0 /\ pend_cnt' = 0
  /\ IF Head(q) = "START" THEN ready_frame' = NoBuffer /\ ready_size' = 0
     ELSE UNCHANGED <<ready_frame, ready_size>>
  /\ timerOn' = TRUE /\ micOn' = Audio
  /\ ack' = TRUE
  /\ ControlOnly

(* Variant: the video timer runs on.                                       *)
StopKeepsTimer ==
  /\ Request({"STOP", "PAUSE"})
  /\ q' = Tail(q)
  /\ micOn' = FALSE
  /\ ack' = TRUE
  /\ ControlOnly /\ UNCHANGED <<clockVars, ready_frame, ready_size>>

StopOrPause ==
  /\ Request({"STOP", "PAUSE"})
  /\ q' = Tail(q)
  /\ timerOn' = FALSE /\ micOn' = FALSE
  /\ ack' = TRUE
  /\ ControlOnly /\ UNCHANGED <<tv, ta, Tv, post_cnt, pend_cnt, ready_frame, ready_size>>

(* MSG_AVI_STORAGE_FULL: wait for the audio and the video task ...         *)
FullBegin ==
  /\ Request({"FULL"})
  /\ q' = Tail(q)
  /\ spc' = "full"
  /\ UNCHANGED <<clockVars, ack, status, micOn, videoVars, fileVars, temp, amt, frame, size, ok,
                 audioVars, mainVars>>

FullAudio ==
  /\ spc = "full" /\ apc = "idle"
  /\ audioOn' = FALSE
  /\ spc' = "fullvideo"
  /\ UNCHANGED <<clockVars, q, ack, status, micOn, videoVars, fileVars, temp, amt, frame, size,
                 ok, audioVars, mpc, calls, open>>

(* ... then close the file and throw away every message.                   *)
FullEnd ==
  /\ spc = "fullvideo" /\ vbuf = NoBuffer
  /\ open' = FALSE /\ status' = {}
  /\ micOn' = FALSE
  /\ q' = <<>>
  /\ spc' = "idle"
  /\ UNCHANGED <<clockVars, ack, videoVars, fileVars, temp, amt, frame, size, ok, audioVars,
                 mpc, calls, audioOn>>

StateTask == EncodeOneFrame \/ StartOrResume \/ StopOrPause \/ FullBegin \/ FullAudio \/ FullEnd
-----------------------------------------------------------------------------
(* The main task: avi_enc_start, avi_enc_pause, avi_enc_resume and         *)
(* avi_enc_stop with their callers, each with POST_MESSAGE.                *)

(* Main has the lowest priority: it runs while the state task waits for a  *)
(* message, for the audio or video task, or for PutData of the audio task. *)
MainMayRun == \/ spc = "idle" /\ q = <<>>
              \/ spc \in {"full", "fullvideo"}
              \/ spc \in {"put", "nullput"} /\ apc = "put"

(* video_encode_stop resumes before it stops, and resumes only a paused    *)
(* recording.                                                              *)
MayCall(m) ==
  CASE m = "START"  -> "START" \notin status /\ ~open
    [] m = "PAUSE"  -> "START" \in status
    [] m = "RESUME" -> "PAUSE" \in status
    [] m = "STOP"   -> "START" \in status /\ "PAUSE" \notin status /\ ~audioOn

(* avi_enc_stop begins with avi_audio_record_stop.                         *)
MainStopAudio ==
  /\ mpc = "idle" /\ MainMayRun /\ "STOP" \in Calls /\ calls < MaxCalls
  /\ audioOn /\ "START" \in status /\ "PAUSE" \notin status
  /\ apc = "idle"
  /\ audioOn' = FALSE
  /\ UNCHANGED <<clockVars, q, ack, status, micOn, videoVars, fileVars, stateVars, audioVars,
                 mpc, calls, open>>

(* A new file starts with an empty account.                                *)
MainCall ==
  /\ mpc = "idle" /\ MainMayRun /\ calls < MaxCalls
  /\ \E m \in Calls :
       /\ MayCall(m)
       /\ Post(m) /\ mpc' = m
       /\ IF m = "START"
            THEN /\ total' = 0 /\ accepted' = 0 /\ sizeOver' = FALSE
                 /\ open' = TRUE /\ audioOn' = Audio
            ELSE UNCHANGED <<total, accepted, sizeOver, open, audioOn>>
  /\ ack' = FALSE
  /\ calls' = calls + 1
  /\ UNCHANGED <<clockVars, status, micOn, videoVars, chunks, stateVars, audioVars>>

(* After avi_enc_stop the file is closed.                                  *)
MainAck ==
  /\ mpc # "idle" /\ MainMayRun /\ ack
  /\ ack' = FALSE
  /\ status' = CASE mpc = "START"  -> status \cup {"START", "VID"}
                 [] mpc = "PAUSE"  -> status \cup {"PAUSE"}
                 [] mpc = "RESUME" -> status \ {"PAUSE"}
                 [] mpc = "STOP"   -> status \ {"START", "VID"}
  /\ open' = (open /\ mpc # "STOP")
  /\ mpc' = "idle"
  /\ UNCHANGED <<clockVars, q, micOn, videoVars, fileVars, stateVars, audioVars, calls, audioOn>>

(* After five seconds POST_MESSAGE gives up; that is long enough unless    *)
(* the request has been thrown away.                                       *)
MainTimeout ==
  /\ mpc # "idle" /\ MainMayRun /\ ~ack
  /\ \A i \in 1..Len(q) : q[i] # mpc
  /\ mpc' = "idle"
  /\ UNCHANGED <<clockVars, q, ack, status, micOn, videoVars, fileVars, stateVars, audioVars,
                 calls, open, audioOn>>

Main == MainStopAudio \/ MainCall \/ MainAck \/ MainTimeout

Next == TimerIsr \/ VidPick \/ VidPublish \/ AudioChunk \/ AudioPut \/ StateTask \/ Main

Spec == Init /\ [][Next]_vars

(* A task that stays ready runs; the JPEG engine and PutData return; the   *)
(* requests to stop stand in the queues of the audio and video tasks,      *)
(* which get to them.                                                      *)
Fairness == /\ WF_vars(StateTask) /\ WF_vars(AudioPut) /\ WF_vars(VidPublish)
            /\ SF_vars(FullAudio) /\ SF_vars(FullEnd)
            /\ WF_vars(MainAck \/ MainTimeout)

FairSpec == Spec /\ Fairness
-----------------------------------------------------------------------------

(* Requests for a frame, waiting or being served.                          *)
InFlight ==
  Cardinality({i \in 1..Len(q) : q[i] = "ONE"})
    + (IF spc \in {"idle", "full", "fullvideo"} THEN 0 ELSE 1)

(* At most one frame is asked for at a time, and the two counters differ   *)
(* exactly by it (avi_encode_sync_timer_isr compares them for equality: if *)
(* they ever drifted apart, no frame would be asked for again).  This is    *)
(* said of start and stop, the calls the program makes: nothing calls       *)
(* avi_enc_pause.                                                          *)
OneFrameInFlight ==
  /\ InFlight <= 1
  /\ (post_cnt - pend_cnt) % CntMod = InFlight

(* Video is never more than a frame, an audio chunk and a tick ahead of    *)
(* the audio in the file (the comparison of tv with ta in the interrupt).  *)
VideoNotAhead ==
  Audio => Tv < ta + DeltaTa + Tick + DeltaTv

(* A frame is put into the file once, wherever the next one is published;  *)
(* the buffer given to PutData is not the one being encoded into, unless a *)
(* frame was published between the argument of the lock and the frame      *)
(* read after it, or between clearing the last one and its unlocking; and  *)
(* the size is that of the frame, unless one was published between any two *)
(* of the state task's accesses (vid_enc_buffer_lock and                   *)
(* avi_encode_get_video_frame, avi_encoder_state.c:667-682).               *)
FrameWhole ==
  spc = "put" =>
    /\ frame # NoBuffer /\ ~taken[frame]
    /\ raced \subseteq {"size"} => vbuf # frame
    /\ raced = {} => size = bufSize[frame]

(* Every request for a frame is answered, whatever PutData says.           *)
FrameAnswered == (post_cnt # pend_cnt) ~> (post_cnt = pend_cnt)

(* A request to stop ends with the timer off and the file closed, also     *)
(* when the storage-full handler throws the request away.                  *)
StopTakesEffect == (mpc = "STOP") ~> (~timerOn /\ ~open)
=============================================================================
