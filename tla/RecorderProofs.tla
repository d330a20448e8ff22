-------------------------- MODULE RecorderProofs --------------------------
(***************************************************************************)
(* Proofs about the life of a recording: what the main loop takes for a    *)
(* recording is one, whatever the storage-full handler, the time-outs and  *)
(* failures of earlier starts and stops have left behind.                  *)
(***************************************************************************)
EXTENDS Recorder, TLAPS

-----------------------------------------------------------------------------
(* The inductive invariant.                                                *)

MainPlaces == {"idle", "start", "setPacker", "startAudio", "setAudio", "startEnc", "setStart",
               "stopAudio", "clrAudio", "stopEnc", "clrStart", "close", "closing", "closeFile",
               "closeFailed", "clrPacker", "stopEnd", "capture"}
StatePlaces == {"idle", "fullAudio", "fullClose", "fullClosing", "fullFile", "stuck"}

RecTypes ==
  /\ mode \in {"jpeg", "avi", "off", "none"} /\ why \in {"none", "jpeg", "off", "restart"}
  /\ mpc \in MainPlaces /\ spc \in StatePlaces
  /\ dma \in {0, 1, 2} /\ packer \in {"closed", "open", "stopping", "stopped"}
QueueTypes ==
  /\ encq \in Seq({"START", "STOP", "FULL", "CAPTURE"})
  /\ audq \in Seq({"START", "DONE", "STOPING", "STOP"})

(* START and CAPTURE are in a queue alone, and only while main waits.      *)
Messages ==
  /\ \/ encq \in Seq({"FULL", "STOP"})
     \/ mpc = "startEnc" /\ got = "none" /\ encq = <<"START">>
     \/ mpc = "capture" /\ ~captured /\ encq = <<"CAPTURE">>
  /\ \/ audq \in Seq({"DONE", "STOPING", "STOP"})
     \/ mpc = "startAudio" /\ got = "none" /\ audq = <<"START">>

(* The microphone runs, and nobody has asked it to stop.                   *)
Mic == /\ mem /\ ~bStop /\ audq \in Seq({"DONE"})
       /\ \/ "late" \in faults
          \/ dma = 2 /\ audq = <<>>
          \/ dma = 1 /\ audq = <<"DONE">>

(* When the bit START is not set, everything rests.                        *)
Stopped ==
  "START" \notin status /\ mpc \notin {"startEnc", "setStart"} =>
    /\ spc = "idle" /\ ~timer /\ "AUDIO" \notin status
    /\ mpc \notin {"startAudio", "setAudio"} => dma = 0 /\ audq = <<>>
    /\ mpc # "capture" => encq = <<>>

(* vid_start, until the microphone runs                                    *)
Opening ==
  /\ mpc \in {"setPacker", "startAudio", "setAudio"} => "START" \notin status /\ "avi" \in opened
  /\ mpc \in {"setPacker", "setAudio"} => mtmp = status
  /\ mpc = "setPacker" /\ ok => packer = "open"
  /\ mpc \in {"startAudio", "setAudio"} => packer = "open" /\ "PACKER" \in status
  /\ mpc = "startAudio" => \/ got = "none" /\ dma = 0 /\ audq = <<"START">>
                           \/ got = "START" /\ Mic
                           \/ got = "FAIL" /\ dma = 0 /\ audq = <<>>
  /\ mpc = "setAudio" => Mic

(* vid_start to its end: the storage-full handler may run beside it.       *)
Starting ==
  mpc \in {"startEnc", "setStart"} =>
    /\ "START" \notin status
    /\ mpc = "startEnc" => \/ got = "none" /\ spc = "idle" /\ encq = <<"START">>
                           \/ got = "START"
    /\ ~crossed =>
         /\ {"AUDIO", "PACKER"} \subseteq status /\ "avi" \in opened
         /\ mpc = "setStart" => mtmp = status
         /\ \/ spc = "idle" /\ packer = "open" /\ Mic
            \/ spc \in {"fullAudio", "fullClose"} /\ packer = "open"
            \/ spc = "fullClosing" /\ packer \in {"stopping", "stopped"}
            \/ spc = "fullFile"

Live ==
  mpc = "idle" /\ mode = "avi" /\ "START" \in status /\ ~crossed =>
    /\ {"AUDIO", "PACKER"} \subseteq status
    /\ spc = "idle" => packer = "open" /\ "avi" \in opened /\ Mic

(* A recording whose microphone has been stopped may still be stopped.     *)
Muted ==
  /\ "START" \in status /\ "AUDIO" \notin status => dma = 0
  /\ mpc = "startEnc" /\ "AUDIO" \notin status => dma = 0
  /\ mpc = "setStart" /\ "AUDIO" \notin mtmp => dma = 0
  /\ mpc = "clrPacker" /\ "START" \in mtmp /\ "AUDIO" \notin mtmp => dma = 0

(* A failed write of the open packer is on its way to the main loop.       *)
Told ==
  \/ mpc \in {"startAudio", "setAudio", "startEnc", "setStart"} \/ (mpc = "setPacker" /\ ok)
  \/ mode = "avi" /\ mpc = "idle" /\ "START" \in status
  => (dead => errFlag)

(* capture_jpeg only runs when nothing is recorded.                        *)
Still == mpc = "capture" => mode = "jpeg" /\ "START" \notin status /\ encq \in {<<>>, <<"CAPTURE">>}

(* The storage-full handler stops the timer, then the microphone.          *)
FullStops ==
  /\ timer => spc = "idle" /\ encq \in Seq({"START", "STOP", "CAPTURE"})
  /\ spc \in {"fullClose", "fullClosing", "fullFile", "stuck"} => dma = 0

(* vid_stop, and what main carries over its loads and stores               *)
Loaded == /\ "START" \in status => "START" \in mtmp
          /\ "START" \notin mtmp => "AUDIO" \notin mtmp
Stopping ==
  /\ mpc = "stopAudio" => got = "none" \/ (got = "STOP" /\ dma = 0)
  /\ mpc = "clrAudio" => dma = 0 /\ Loaded
  /\ mpc = "stopEnc" =>
       /\ dma = 0 /\ audq = <<>> /\ "AUDIO" \notin status
       /\ \/ spc # "idle" /\ got = "none"
          \/ spc = "idle" /\ got = "none" /\ encq = <<"STOP">>
          \/ spc = "idle" /\ got \in {"none", "STOP"} /\ encq = <<>> /\ ~timer
  /\ mpc = "clrStart" =>
       spc = "idle" /\ encq = <<>> /\ ~timer /\ dma = 0 /\ audq = <<>> /\ "AUDIO" \notin mtmp
  /\ mpc = "clrPacker" => Loaded

(* Whoever waits for the audio task to stop has asked it to, before as many *)
(* buffers have ended as were armed then.                                  *)
Asked == bStop \/ (audq # <<>> /\ Head(audq) = "STOPING")
Stops ==
  /\ ends.main \in Nat /\ ends.full \in Nat
  /\ mpc = "stopAudio" /\ got = "none" => dma + ends.main <= 2 /\ Asked
  /\ spc = "fullAudio" => dma + ends.full <= 2 /\ Asked
  /\ mpc = "stopEnc" /\ spc = "fullAudio" => ~older

RecInv == /\ RecTypes /\ QueueTypes /\ Messages /\ Stopped /\ Opening /\ Starting /\ Live /\ Told
          /\ Muted /\ Still /\ FullStops /\ Stopping /\ DmaInMemory

(* What an action of the modules leaves to Step                            *)
Kept == faults' = faults /\ (crossed => crossed')
-----------------------------------------------------------------------------
(* Queues.                                                                 *)

LEMMA QueueFacts ==
  ASSUME NEW S, NEW s \in Seq(S)
  PROVE  /\ s # <<>> => Head(s) \in S /\ Tail(s) \in Seq(S)
         /\ \A m \in S : Append(s, m) \in Seq(S)
         /\ \A T : S \subseteq T => s \in Seq(T)
<1>1. ASSUME NEW T, S \subseteq T PROVE s \in Seq(T)
  BY <1>1
<1> QED
  BY <1>1

(* Which message the audio task and the state task find.                   *)
LEMMA AudioFinds ==
  ASSUME QueueTypes, Messages, audq # <<>>
  PROVE  \/ /\ Head(audq) = "START" /\ Tail(audq) = <<>> /\ audq = <<"START">>
            /\ mpc = "startAudio" /\ got = "none"
         \/ /\ Head(audq) \in {"DONE", "STOPING", "STOP"}
            /\ audq \in Seq({"DONE", "STOPING", "STOP"}) /\ Tail(audq) \in Seq({"DONE", "STOPING", "STOP"})
<1>1. CASE audq \in Seq({"DONE", "STOPING", "STOP"})
  BY <1>1, QueueFacts
<1>2. CASE mpc = "startAudio" /\ got = "none" /\ audq = <<"START">>
  BY <1>2
<1> QED
  BY <1>1, <1>2 DEF Messages

LEMMA StateFinds ==
  ASSUME QueueTypes, Messages, encq # <<>>
  PROVE  \/ /\ Head(encq) = "START" /\ Tail(encq) = <<>> /\ encq = <<"START">>
            /\ mpc = "startEnc" /\ got = "none"
         \/ /\ Head(encq) = "CAPTURE" /\ Tail(encq) = <<>> /\ encq = <<"CAPTURE">>
            /\ mpc = "capture" /\ ~captured
         \/ /\ Head(encq) \in {"FULL", "STOP"}
            /\ encq \in Seq({"FULL", "STOP"}) /\ Tail(encq) \in Seq({"FULL", "STOP"})
<1>1. CASE encq \in Seq({"FULL", "STOP"})
  BY <1>1, QueueFacts
<1>2. CASE mpc = "startEnc" /\ got = "none" /\ encq = <<"START">>
  BY <1>2
<1>3. CASE mpc = "capture" /\ ~captured /\ encq = <<"CAPTURE">>
  BY <1>3
<1> QED
  BY <1>1, <1>2, <1>3 DEF Messages

(* What a post leaves in a queue; an empty queue always takes it.          *)
LEMMA EncPosts ==
  ASSUME QueueTypes, NEW m \in {"START", "STOP", "FULL", "CAPTURE"}, PostEnc(m)
  PROVE  /\ encq' \in Seq({"START", "STOP", "FULL", "CAPTURE"})
         /\ encq = <<>> => encq' = <<m>>
         /\ encq \in Seq({"FULL", "STOP"}) /\ m \in {"FULL", "STOP"} => encq' \in Seq({"FULL", "STOP"})
<1>1. encq = <<>> => Len(encq) = 0 /\ Append(encq, m) = <<m>>
  OBVIOUS
<1>2. encq' \in {encq, Append(encq, m)} /\ (encq = <<>> => encq' = <<m>>)
  BY <1>1, QueueAssumption DEF PostEnc
<1>3. encq' \in Seq({"START", "STOP", "FULL", "CAPTURE"})
  BY <1>2, QueueFacts DEF QueueTypes
<1>4. ASSUME encq \in Seq({"FULL", "STOP"}), m \in {"FULL", "STOP"} PROVE encq' \in Seq({"FULL", "STOP"})
  BY <1>2, <1>4, QueueFacts
<1> QED
  BY <1>2, <1>3, <1>4

LEMMA AudPosts ==
  ASSUME QueueTypes, NEW m \in {"START", "DONE", "STOPING", "STOP"}, PostAud(m)
  PROVE  /\ audq' \in Seq({"START", "DONE", "STOPING", "STOP"})
         /\ audq = <<>> => audq' = <<m>>
         /\ audq \in Seq({"DONE", "STOPING", "STOP"}) /\ m # "START" => audq' \in Seq({"DONE", "STOPING", "STOP"})
         /\ audq \in Seq({"DONE"}) /\ m = "DONE" => audq' \in Seq({"DONE"})
<1>1. audq = <<>> => Len(audq) = 0 /\ Append(audq, m) = <<m>>
  OBVIOUS
<1>2. audq' \in {audq, Append(audq, m)} /\ (audq = <<>> => audq' = <<m>>)
  BY <1>1, QueueAssumption DEF PostAud
<1>3. audq' \in Seq({"START", "DONE", "STOPING", "STOP"})
  BY <1>2, QueueFacts DEF QueueTypes
<1>4. ASSUME audq \in Seq({"DONE", "STOPING", "STOP"}), m # "START"
      PROVE audq' \in Seq({"DONE", "STOPING", "STOP"})
  BY <1>2, <1>4, QueueFacts
<1>5. ASSUME audq \in Seq({"DONE"}), m = "DONE" PROVE audq' \in Seq({"DONE"})
  BY <1>2, <1>5, QueueFacts
<1> QED
  BY <1>2, <1>3, <1>4, <1>5

(* AudioDone takes DONE and may add STOP, and asks for the storage-full    *)
(* handler only while the bit START is set.                                *)
LEMMA DoneLeaves ==
  ASSUME AudioDone, QueueTypes, Messages, Kept
  PROVE  /\ audq' \in Seq({"DONE", "STOPING", "STOP"}) /\ QueueTypes'
         /\ encq' = encq \/ ("START" \in status /\ PostEnc("FULL"))
         /\ Mic => Mic'
<1>1. audq # <<>> /\ Head(audq) = "DONE" /\ audq' \in {Tail(audq), Append(Tail(audq), "STOP")}
  BY DEF AudioDone, AudioMay, Rearm
<1>2. Tail(audq) \in Seq({"DONE", "STOPING", "STOP"})
  BY <1>1, AudioFinds
<1>3. audq' \in Seq({"DONE", "STOPING", "STOP"}) /\ audq' \in Seq({"START", "DONE", "STOPING", "STOP"})
  BY <1>1, <1>2, QueueFacts
<1>4. encq' = encq \/ ("START" \in status /\ PostEnc("FULL"))
  BY DEF AudioDone
<1>5. encq' \in Seq({"START", "STOP", "FULL", "CAPTURE"})
  BY <1>4, EncPosts DEF QueueTypes
<1>6. Mic => Mic'
  <2> SUFFICES ASSUME Mic PROVE Mic'
    OBVIOUS
  <2>1. UNCHANGED <<mem, bStop, faults>> /\ audq' = Tail(audq) /\ dma' = IF dma = 1 THEN 2 ELSE dma
    BY DEF AudioDone, Rearm, Mic, Kept
  <2>2. audq' \in Seq({"DONE"})
    BY <1>1, <2>1, QueueFacts DEF Mic
  <2>3. "late" \notin faults => dma' = 2 /\ audq' = <<>>
    BY <1>1, <2>1 DEF Mic
  <2> QED
    BY <2>1, <2>2, <2>3 DEF Mic
<1> QED
  BY <1>3, <1>4, <1>5, <1>6 DEF QueueTypes

LEMMA MicFills == ASSUME Mic, QueueTypes, DmaDone, Kept PROVE Mic'
<1>1. /\ PostAud("DONE") /\ dma' = dma - 1 /\ dma > 0 /\ UNCHANGED <<mem, bStop, faults>>
      /\ "late" \in faults \/ dma = 2 \/ ~ \E i \in 1..Len(audq) : audq[i] = "DONE"
  BY DEF DmaDone, Kept
<1>2. audq' \in Seq({"DONE"}) /\ (audq = <<>> => audq' = <<"DONE">>)
  BY <1>1, AudPosts DEF Mic
<1>3. CASE "late" \in faults
  BY <1>1, <1>2, <1>3 DEF Mic
<1>4. CASE dma = 2 /\ audq = <<>>
  BY <1>1, <1>2, <1>4 DEF Mic
<1>5. CASE dma = 1 /\ audq = <<"DONE">> /\ "late" \notin faults
  <2>1. 1 \in 1..Len(audq) /\ audq[1] = "DONE"
    BY <1>5
  <2> QED
    BY <1>1, <1>5, <2>1
<1> QED
  BY <1>3, <1>4, <1>5 DEF Mic

(* What main is told at the start of the microphone.                       *)
LEMMA StartAnswers ==
  ASSUME AudioStart, spc = "idle", mpc = "startAudio", got = "none"
  PROVE  (got' = "START" /\ mem' /\ ~bStop' /\ dma' = 2) \/ (got' = "FAIL" /\ dma' = 0)
BY DEF AudioStart, AckAud

(* When the 5 s are over, the DMA has run out.                             *)
LEMMA TimeIsUp ==
  ASSUME RecTypes, Stops
  PROVE  /\ mpc = "stopAudio" /\ AudSilent => dma = 0
         /\ spc = "fullAudio" /\ Passed(ends.full) => dma = 0
BY EndsAssumption DEF RecTypes, Stops, AudSilent, Passed

(* So the buffers are only given back when no DMA is armed.                *)
LEMMA StopFrees == ASSUME MainStopAudio, RecTypes, Stops, DmaInMemory PROVE DmaInMemory'
<1>1. mpc = "stopAudio" /\ dma' = dma /\ (mem' = mem \/ AudSilent)
  BY DEF MainStopAudio, Main
<1>2. CASE mem' = mem
  BY <1>1, <1>2 DEF DmaInMemory
<1>3. CASE AudSilent
  BY <1>1, <1>3, TimeIsUp DEF DmaInMemory, RecTypes
<1> QED
  BY <1>1, <1>2, <1>3

-----------------------------------------------------------------------------
(* Each action keeps the invariant.                                        *)
USE QueueAssumption DEF RecInv, RecTypes, QueueTypes, Messages, Stopped, Opening, Starting, Live,
    Told, Muted, Kept, Still, FullStops, Stopping, DmaInMemory, MainPlaces, StatePlaces, Bits, Mic, Loaded

LEMMA DmaDoneKeeps == ASSUME RecInv, Kept, DmaDone PROVE RecInv'
<1>1. RecTypes' /\ QueueTypes' /\ Messages' /\ Stopped' /\ Told' /\ Muted' /\ Still' /\ FullStops'
      /\ Stopping' /\ DmaInMemory'
  BY AudPosts DEF DmaDone, mainVars, flagVars, boxVars, stateVars, packVars, fileVars
<1>2. UNCHANGED <<mpc, spc, got, encq, status, mtmp, ok, packer, opened, mode>> /\ dma > 0
  BY DEF DmaDone, mainVars, boxVars, stateVars, packVars, fileVars
<1>3. Opening' /\ Starting' /\ Live'
  BY <1>2, MicFills
<1> QED BY <1>1, <1>3

LEMMA AudioStartKeeps == ASSUME RecInv, Kept, AudioStart PROVE RecInv'
<1>1. RecTypes' /\ QueueTypes' /\ Stopped' /\ Starting' /\ Live' /\ Told' /\ Muted' /\ Still' /\ FullStops'
      /\ Stopping' /\ DmaInMemory'
  BY AudioFinds DEF AudioStart, AudioMay, AckAud, mainVars, flagVars, boxVars, packVars, fileVars
<1>2. Messages'
  <2>1. mpc = "startAudio" /\ got = "none" /\ Tail(audq) = <<>>
    BY AudioFinds DEF AudioStart, AudioMay
  <2>2. encq \in Seq({"FULL", "STOP"}) /\ encq' = encq /\ audq' = <<>>
    BY <2>1 DEF AudioStart
  <2> QED
    BY <2>2
<1>3. Opening'
  <2>1. mpc = "startAudio" /\ got = "none" /\ audq' = <<>> /\ packer = "open" /\ "PACKER" \in status
    BY AudioFinds DEF AudioStart, AudioMay
  <2>2. spc = "idle" /\ UNCHANGED <<mpc, status, packer, opened>>
    BY <2>1 DEF AudioStart, mainVars, packVars, fileVars
  <2>3. (got' = "START" /\ mem' /\ ~bStop' /\ dma' = 2) \/ (got' = "FAIL" /\ dma' = 0)
    BY <2>1, <2>2, StartAnswers
  <2> QED
    BY <2>1, <2>2, <2>3
<1> QED BY <1>1, <1>2, <1>3

LEMMA AudioStopingKeeps == ASSUME RecInv, Kept, AudioStoping PROVE RecInv'
BY AudioFinds DEF AudioStoping, AudioMay, mainVars, flagVars, boxVars, stateVars, packVars, fileVars

LEMMA AudioDoneKeeps == ASSUME RecInv, Kept, AudioDone PROVE RecInv'
<1>1. RecTypes' /\ Stopped' /\ Told' /\ Muted' /\ Still' /\ FullStops' /\ Stopping' /\ DmaInMemory'
  BY EncPosts, AudioFinds DEF AudioDone, AudioMay, Rearm, mainVars, boxVars, packVars, fileVars
<1>2. QueueTypes'
  BY DoneLeaves
<1>3. Messages'
  <2>1. audq' \in Seq({"DONE", "STOPING", "STOP"}) /\ UNCHANGED <<mpc, got, captured>>
    BY DoneLeaves DEF AudioDone, mainVars, boxVars
  <2>2. encq' = encq \/ ("START" \in status /\ PostEnc("FULL"))
    BY DoneLeaves
  <2>3. CASE encq' = encq
    BY <2>1, <2>3
  <2>4. CASE "START" \in status /\ PostEnc("FULL")
    <3>1. encq \in Seq({"FULL", "STOP"})
      BY <2>4
    <3>2. encq' \in Seq({"FULL", "STOP"})
      BY <2>4, <3>1, EncPosts
    <3> QED
      BY <2>1, <3>2
  <2> QED
    BY <2>2, <2>3, <2>4
<1>4. Opening'
  <2>1. audq # <<>> /\ Head(audq) = "DONE" /\ UNCHANGED <<mpc, got, status, mtmp, ok, packer, opened, mem, bStop>>
    BY DEF AudioDone, AudioMay, mainVars, boxVars, packVars, fileVars
  <2>2. mpc = "startAudio" => got = "START" /\ Mic
    BY <2>1
  <2> QED
    BY <2>1, <2>2, DoneLeaves
<1>5. Starting'
  <2>1. UNCHANGED <<mpc, got, status, mtmp, packer, opened, spc>>
    BY DEF AudioDone, mainVars, boxVars, packVars, fileVars
  <2>2. mpc = "startEnc" => encq' = encq
    BY DoneLeaves
  <2> QED
    BY <2>1, <2>2, DoneLeaves
<1>6. Live'
  <2>1. UNCHANGED <<mpc, mode, status, packer, opened, spc>>
    BY DEF AudioDone, mainVars, packVars, fileVars
  <2> QED
    BY <2>1, DoneLeaves
<1> QED BY <1>1, <1>2, <1>3, <1>4, <1>5, <1>6

LEMMA AudioStopKeeps == ASSUME RecInv, Kept, AudioStop PROVE RecInv'
BY AudioFinds DEF AudioStop, AudioMay, AckAud, mainVars, flagVars, boxVars, packVars, fileVars

LEMMA PackerStopKeeps == ASSUME RecInv, Kept, PackerStop PROVE RecInv'
BY DEF PackerStop, mainVars, flagVars, boxVars, stateVars, audioVars, fileVars

LEMMA PackerErrorKeeps == ASSUME RecInv, Kept, PackerError PROVE RecInv'
BY DEF PackerError, mainVars, boxVars, audioVars, packVars, fileVars

LEMMA EncStartKeeps == ASSUME RecInv, Kept, EncStart PROVE RecInv'
<1>1. RecTypes' /\ QueueTypes' /\ Stopped' /\ Opening' /\ Starting' /\ Live' /\ Told' /\ Muted' /\ Still'
      /\ FullStops' /\ Stopping' /\ DmaInMemory'
  BY StateFinds DEF EncStart, StateMay, StateMayRun, AckEnc, mainVars, flagVars, audioVars,
      packVars, fileVars
<1>2. Messages'
  <2>1. mpc = "startEnc" /\ Tail(encq) = <<>>
    BY StateFinds DEF EncStart, StateMay
  <2>2. encq' = <<>> /\ audq \in Seq({"DONE", "STOPING", "STOP"}) /\ audq' = audq
    BY <2>1 DEF EncStart, audioVars
  <2> QED
    BY <2>2
<1> QED BY <1>1, <1>2

LEMMA EncStopKeeps == ASSUME RecInv, Kept, EncStop PROVE RecInv'
BY StateFinds DEF EncStop, StateMay, StateMayRun, AckEnc, mainVars, flagVars, audioVars, packVars,
    fileVars

LEMMA EncCaptureKeeps == ASSUME RecInv, Kept, EncCapture PROVE RecInv'
<1>1. RecTypes' /\ QueueTypes' /\ Stopped' /\ Opening' /\ Starting' /\ Live' /\ Told' /\ Muted' /\ Still'
      /\ FullStops' /\ Stopping' /\ DmaInMemory'
  BY StateFinds DEF EncCapture, StateMay, StateMayRun, AckEnc, CloseHandle, mainVars, audioVars,
      packVars
<1>2. Messages'
  <2>1. mpc = "capture" /\ Tail(encq) = <<>>
    BY StateFinds DEF EncCapture, StateMay
  <2>2. encq' = <<>> /\ audq \in Seq({"DONE", "STOPING", "STOP"}) /\ audq' = audq
    BY <2>1 DEF EncCapture, audioVars
  <2> QED
    BY <2>2
<1> QED BY <1>1, <1>2

LEMMA EncFrameKeeps == ASSUME RecInv, Kept, EncFrame PROVE RecInv'
<1>1. RecTypes' /\ QueueTypes'
  BY EncPosts, ZenonT(60) DEF EncFrame, StateMayRun, mainVars, boxVars, audioVars, packVars, fileVars
<1>2. Messages' /\ Stopped' /\ Opening'
  BY EncPosts DEF EncFrame, StateMayRun, mainVars, boxVars, audioVars, packVars, fileVars
<1>3. Starting' /\ Live' /\ Told' /\ Muted' /\ Still'
  BY EncPosts DEF EncFrame, StateMayRun, mainVars, boxVars, audioVars, packVars, fileVars
<1>4. FullStops' /\ Stopping' /\ DmaInMemory'
  BY EncPosts DEF EncFrame, StateMayRun, mainVars, boxVars, audioVars, packVars, fileVars
<1> QED BY <1>1, <1>2, <1>3, <1>4

LEMMA FullBeginKeeps == ASSUME RecInv, Kept, FullBegin PROVE RecInv'
<1>1. RecTypes' /\ QueueTypes' /\ Messages' /\ Opening' /\ Starting' /\ Live' /\ Told' /\ Muted' /\ Still'
      /\ FullStops' /\ Stopping' /\ DmaInMemory'
  BY AudPosts, StateFinds DEF FullBegin, StateMay, StateMayRun, mainVars, flagVars, packVars,
      fileVars
<1>2. Stopped'
  <2>1. encq # <<>> /\ Head(encq) = "FULL" /\ UNCHANGED <<mpc, status>>
    BY DEF FullBegin, StateMay, mainVars
  <2>2. mpc # "capture"
    BY <2>1
  <2>3. "START" \in status \/ mpc \in {"startEnc", "setStart"}
    BY <2>1, <2>2
  <2> QED
    BY <2>1, <2>3
<1> QED BY <1>1, <1>2

LEMMA FullTimeoutKeeps == ASSUME RecInv, Stops, Kept, FullTimeout PROVE RecInv'
BY TimeIsUp DEF FullTimeout, StateMayRun, mainVars, flagVars, boxVars, packVars, fileVars

LEMMA FullCloseKeeps == ASSUME RecInv, Kept, FullClose PROVE RecInv'
BY DEF FullClose, StateMayRun, CloseBegin, PackerOpen, mainVars, flagVars, boxVars, audioVars,
    packVars, fileVars

LEMMA FullClosingKeeps == ASSUME RecInv, Kept, FullClosing PROVE RecInv'
BY DEF FullClosing, StateMayRun, CloseEnd, mainVars, flagVars, boxVars, audioVars, fileVars

LEMMA FullEndKeeps == ASSUME RecInv, Kept, mpc \in Updates \/ got # "none" => crossed', FullEnd PROVE RecInv'
BY DEF FullEnd, StateMayRun, CloseHandle, FullBits, Updates, mainVars, flagVars, boxVars, audioVars,
    packVars

LEMMA MainStartKeeps == ASSUME RecInv, Kept, MainStart PROVE RecInv'
BY DEF MainStart, Main, MainMayRun, StateReady, StartRefused, StartOpened, boxVars, stateVars,
    audioVars

LEMMA MainSetPackerKeeps == ASSUME RecInv, Kept, MainSetPacker PROVE RecInv'
<1>1. RecTypes' /\ QueueTypes' /\ Messages'
  BY EncPosts, AudPosts DEF MainSetPacker, Main, MainMayRun, StateReady, CloseHandle, AskAud,
      AskEncode, flagVars, boxVars, stateVars, audioVars, packVars
<1>2. Stopped' /\ Opening' /\ Still'
  BY EncPosts, AudPosts DEF MainSetPacker, Main, MainMayRun, StateReady, CloseHandle, AskAud,
      AskEncode, flagVars, boxVars, stateVars, audioVars, packVars
<1>3. Starting' /\ Live' /\ Told' /\ Muted'
  BY EncPosts, AudPosts DEF MainSetPacker, Main, MainMayRun, StateReady, CloseHandle, AskAud,
      AskEncode, flagVars, boxVars, stateVars, audioVars, packVars
<1>4. FullStops' /\ Stopping' /\ DmaInMemory'
  BY EncPosts, AudPosts DEF MainSetPacker, Main, MainMayRun, StateReady, CloseHandle, AskAud,
      AskEncode, flagVars, boxVars, stateVars, audioVars, packVars
<1> QED BY <1>1, <1>2, <1>3, <1>4

LEMMA MainStartAudioKeeps == ASSUME RecInv, Kept, MainStartAudio PROVE RecInv'
BY DEF MainStartAudio, Main, MainMayRun, StateReady, Acked, AudSilent, StartFailed, CloseHandle,
    flagVars, stateVars, audioVars, packVars

LEMMA MainSetAudioKeeps == ASSUME RecInv, Kept, MainSetAudio PROVE RecInv'
BY EncPosts DEF MainSetAudio, Main, MainMayRun, StateReady, AskEncode, AskEnc, flagVars, boxVars,
    stateVars, audioVars, packVars, fileVars

LEMMA MainStartEncKeeps == ASSUME RecInv, Kept, MainStartEnc PROVE RecInv'
BY DEF MainStartEnc, Main, MainMayRun, StateReady, Acked, EncSilent, StartFailed, CloseHandle,
    flagVars, stateVars, audioVars, packVars

LEMMA MainSetStartKeeps == ASSUME RecInv, Kept, MainSetStart PROVE RecInv'
BY DEF MainSetStart, Main, MainMayRun, StateReady, flagVars, boxVars, stateVars, audioVars,
    packVars, fileVars

LEMMA MainStopAudioKeeps == ASSUME RecInv, Stops, Kept, MainStopAudio PROVE RecInv'
<1>1. RecTypes' /\ QueueTypes' /\ Messages' /\ Stopped' /\ Opening' /\ Starting' /\ Live'
      /\ Told' /\ Muted' /\ Still' /\ FullStops' /\ Stopping'
  BY TimeIsUp DEF MainStopAudio, Main, MainMayRun, StateReady, Acked, AudSilent, StopPacker, flagVars,
      boxVars, stateVars, packVars, fileVars
<1>2. DmaInMemory'
  BY StopFrees
<1> QED BY <1>1, <1>2

LEMMA MainClrAudioKeeps == ASSUME RecInv, Kept, MainClrAudio PROVE RecInv'
<1>1. RecTypes' /\ QueueTypes' /\ Messages' /\ Stopped' /\ Opening'
  BY EncPosts DEF MainClrAudio, Main, MainMayRun, StateReady, StopEncode, StopPacker, AskEnc,
      flagVars, boxVars, stateVars, audioVars, packVars, fileVars
<1>2. Starting' /\ Live' /\ Told' /\ Muted' /\ Still'
  <2>1. mpc' \in {"stopEnc", "close", "stopEnd"} /\ dma' = 0
    BY DEF MainClrAudio, StopEncode, StopPacker, Main, audioVars
  <2> QED
    BY <2>1
<1>3. FullStops'
  <2>1. (spc = "idle" => encq = <<>>) /\ UNCHANGED <<spc, timer, dma>>
    BY DEF MainClrAudio, Main, MainMayRun, StateReady, StopEncode, StopPacker, AskEnc, stateVars, audioVars
  <2>2. encq' = encq \/ PostEnc("STOP")
    BY DEF MainClrAudio, StopEncode, StopPacker, AskEnc, stateVars
  <2>3. CASE timer /\ encq' = <<>>
    BY <2>1, <2>3
  <2>4. CASE timer /\ encq' = <<"STOP">>
    BY <2>1, <2>4
  <2>5. timer => encq' \in {<<>>, <<"STOP">>}
    BY <2>1, <2>2, EncPosts
  <2> QED
    BY <2>1, <2>3, <2>4, <2>5
<1>5. Stopping' /\ DmaInMemory'
  BY EncPosts DEF MainClrAudio, Main, MainMayRun, StateReady, StopEncode, StopPacker, AskEnc,
      flagVars, boxVars, stateVars, audioVars, packVars, fileVars
<1> QED BY <1>1, <1>2, <1>3, <1>5

LEMMA MainStopEncKeeps == ASSUME RecInv, Kept, MainStopEnc PROVE RecInv'
BY DEF MainStopEnc, Main, MainMayRun, StateReady, Acked, EncSilent, StopPacker, flagVars, boxVars,
    stateVars, audioVars, packVars, fileVars

LEMMA MainClrStartKeeps == ASSUME RecInv, Kept, MainClrStart PROVE RecInv'
BY DEF MainClrStart, Main, MainMayRun, StateReady, StopPacker, flagVars, boxVars, stateVars,
    audioVars, packVars, fileVars

LEMMA MainCloseKeeps == ASSUME RecInv, Kept, MainClose PROVE RecInv'
BY DEF MainClose, Main, MainMayRun, StateReady, CloseBegin, PackerOpen, flagVars, boxVars,
    stateVars, audioVars, packVars, fileVars

LEMMA MainClosingKeeps == ASSUME RecInv, Kept, MainClosing PROVE RecInv'
BY DEF MainClosing, Main, MainMayRun, StateReady, CloseEnd, flagVars, boxVars, audioVars, fileVars

LEMMA MainCloseFileKeeps == ASSUME RecInv, Kept, MainCloseFile PROVE RecInv'
BY DEF MainCloseFile, Main, MainMayRun, StateReady, CloseHandle, flagVars, boxVars, stateVars,
    audioVars, packVars

LEMMA MainClrPackerKeeps == ASSUME RecInv, Kept, MainClrPacker PROVE RecInv'
BY DEF MainClrPacker, Main, MainMayRun, StateReady, flagVars, boxVars, stateVars, audioVars,
    packVars, fileVars

LEMMA MainStopEndKeeps == ASSUME RecInv, Kept, MainStopEnd PROVE RecInv'
BY DEF MainStopEnd, Main, MainMayRun, StateReady, CloseHandle, flagVars, boxVars, stateVars,
    audioVars, packVars

LEMMA MainPowerOffKeeps == ASSUME RecInv, Kept, MainPowerOff PROVE RecInv'
BY DEF MainPowerOff, Main, MainMayRun, StateReady, flagVars, boxVars, stateVars, audioVars,
    packVars, fileVars

LEMMA MainRestartKeeps == ASSUME RecInv, Kept, MainRestart PROVE RecInv'
<1>1. RecTypes' /\ QueueTypes' /\ Messages'
  BY EncPosts, AudPosts DEF MainRestart, Main, MainMayRun, StateReady, VidStop, StopEncode,
      StopPacker, AskAud, AskEnc, flagVars, boxVars, stateVars, audioVars, packVars, fileVars
<1>2. Stopped' /\ Opening' /\ Still'
  BY EncPosts, AudPosts DEF MainRestart, Main, MainMayRun, StateReady, VidStop, StopEncode,
      StopPacker, AskAud, AskEnc, flagVars, boxVars, stateVars, audioVars, packVars, fileVars
<1>3. Starting' /\ Live' /\ Told' /\ Muted'
  BY EncPosts, AudPosts DEF MainRestart, Main, MainMayRun, StateReady, VidStop, StopEncode,
      StopPacker, AskAud, AskEnc, flagVars, boxVars, stateVars, audioVars, packVars, fileVars
<1>4. FullStops'
  <2>1. (spc = "idle" => encq = <<>>) /\ UNCHANGED <<spc, timer, dma>>
    BY DEF MainRestart, Main, MainMayRun, StateReady, VidStop, StopEncode, StopPacker, AskAud, AskEnc, stateVars, audioVars
  <2>2. encq' = encq \/ PostEnc("STOP")
    BY DEF MainRestart, VidStop, StopEncode, StopPacker, AskAud, AskEnc, stateVars
  <2>3. CASE timer /\ encq' = <<>>
    BY <2>1, <2>3
  <2>4. CASE timer /\ encq' = <<"STOP">>
    BY <2>1, <2>4
  <2>5. timer => encq' \in {<<>>, <<"STOP">>}
    BY <2>1, <2>2, EncPosts
  <2> QED
    BY <2>1, <2>3, <2>4, <2>5
<1>5. Stopping' /\ DmaInMemory'
  BY EncPosts, AudPosts DEF MainRestart, Main, MainMayRun, StateReady, VidStop, StopEncode,
      StopPacker, AskAud, AskEnc, flagVars, boxVars, stateVars, audioVars, packVars, fileVars
<1> QED BY <1>1, <1>2, <1>3, <1>4, <1>5

LEMMA MainCapturedKeeps == ASSUME RecInv, Kept, MainCaptured PROVE RecInv'
BY DEF MainCaptured, Main, MainMayRun, StateReady, boxVars, stateVars, audioVars, packVars, fileVars

LEMMA MainStopKeeps == ASSUME RecInv, Kept, MainStop PROVE RecInv'
<1>1. RecTypes' /\ QueueTypes' /\ Messages'
  BY EncPosts, AudPosts DEF MainStop, Main, MainMayRun, StateReady, VidStop, StopEncode, StopPacker,
      AskAud, AskEnc, flagVars, boxVars, stateVars, audioVars, packVars, fileVars
<1>2. Stopped' /\ Opening' /\ Still'
  BY EncPosts, AudPosts DEF MainStop, Main, MainMayRun, StateReady, VidStop, StopEncode, StopPacker,
      AskAud, AskEnc, flagVars, boxVars, stateVars, audioVars, packVars, fileVars
<1>3. Starting' /\ Live' /\ Told' /\ Muted'
  BY EncPosts, AudPosts DEF MainStop, Main, MainMayRun, StateReady, VidStop, StopEncode, StopPacker,
      AskAud, AskEnc, flagVars, boxVars, stateVars, audioVars, packVars, fileVars
<1>4. FullStops'
  <2>1. (spc = "idle" => encq = <<>>) /\ UNCHANGED <<spc, timer, dma>>
    BY DEF MainStop, Main, MainMayRun, StateReady, VidStop, StopEncode, StopPacker, AskAud, AskEnc, stateVars, audioVars
  <2>2. encq' = encq \/ PostEnc("STOP")
    BY DEF MainStop, VidStop, StopEncode, StopPacker, AskAud, AskEnc, stateVars
  <2>3. CASE timer /\ encq' = <<>>
    BY <2>1, <2>3
  <2>4. CASE timer /\ encq' = <<"STOP">>
    BY <2>1, <2>4
  <2>5. timer => encq' \in {<<>>, <<"STOP">>}
    BY <2>1, <2>2, EncPosts
  <2> QED
    BY <2>1, <2>3, <2>4, <2>5
<1>5. Stopping' /\ DmaInMemory'
  BY EncPosts, AudPosts DEF MainStop, Main, MainMayRun, StateReady, VidStop, StopEncode, StopPacker,
      AskAud, AskEnc, flagVars, boxVars, stateVars, audioVars, packVars, fileVars
<1> QED BY <1>1, <1>2, <1>3, <1>4, <1>5

LEMMA MainRecordKeeps == ASSUME RecInv, Kept, MainRecord PROVE RecInv'
BY DEF MainRecord, Main, MainMayRun, StateReady, flagVars, boxVars, stateVars, audioVars, packVars,
    fileVars

LEMMA MainIdleOffKeeps == ASSUME RecInv, Kept, MainIdleOff PROVE RecInv'
BY DEF MainIdleOff, Main, MainMayRun, StateReady, flagVars, boxVars, stateVars, audioVars, packVars,
    fileVars

LEMMA MainCaptureKeeps == ASSUME RecInv, Kept, MainCapture PROVE RecInv'
BY EncPosts DEF MainCapture, Main, MainMayRun, StateReady, boxVars, audioVars, packVars

HIDE QueueAssumption DEF RecInv, RecTypes, QueueTypes, Messages, Stopped, Opening, Starting, Live,
    Told, Muted, Kept, Still, FullStops, Stopping, DmaInMemory, MainPlaces, StatePlaces, Bits, Mic, Loaded

-----------------------------------------------------------------------------
(* Without a late audio task: a second invariant.                          *)

(* Two messages fit into the queue of the audio task.                      *)
RoomForTwo == AudQ >= 2

(* The two buffers of the DMA and the messages about them.                 *)
Buffers ==
  \/ /\ mem
     /\ \/ dma = 2 /\ audq \in {<<>>, <<"STOPING">>}
        \/ dma = 1 /\ audq \in {<<"DONE">>, <<"STOPING", "DONE">>}
        \/ bStop /\ ((dma = 1 /\ audq = <<"STOP">>) \/ (dma = 0 /\ audq = <<"STOP", "DONE">>))
  \/ /\ ~mem /\ dma = 0
     /\ \/ audq \in {<<>>, <<"STOPING">>, <<"START">>}
        \/ bStop /\ audq \in {<<"DONE">>, <<"STOP">>}

(* How far the storage-full handler has got with the packer                *)
Handler ==
  /\ spc = "idle" /\ "START" \in status => packer = "open"
  /\ spc \in {"fullAudio", "fullClose"} => packer = "open"
  /\ spc = "fullClosing" => packer \in {"stopping", "stopped"}
  /\ spc = "fullFile" => packer = "closed"
  /\ spc # "stuck"
  /\ spc \in {"fullClosing", "fullFile"} => audq \in {<<>>, <<"STOPING">>}
  /\ sem \in {"none", "main", "state"}
  /\ sem = "state" <=> spc = "fullClosing"
  /\ sem = "main" <=> mpc = "closing"

(* While the bit START is set, main is where vid_stop begins, or it goes   *)
(* on after a time-out beside the handler.                                 *)
Where ==
  /\ "START" \in status =>
       \/ mpc \in {"stopAudio", "clrAudio", "stopEnc", "clrStart"}
       \/ mpc = "idle" /\ mode = "avi"
       \/ mpc = "close" /\ ~ok /\ spc \in {"fullClosing", "fullFile"}
       \/ mpc \in {"closeFailed", "stopEnd"} /\ ~ok /\ spc = "fullFile"
       \/ mpc \in {"start", "idle"} /\ spc = "fullFile"
  /\ mpc \in {"clrAudio", "clrStart", "clrPacker"} => mtmp = status
  /\ ~ok => mpc \in {"setPacker", "close", "closeFailed", "stopEnd"}

(* A request that has not been answered is still being worked on.          *)
Answered ==
  /\ "START" \in status /\ spc = "idle" /\ got = "none" =>
       /\ mpc = "stopAudio" => mem
       /\ mpc = "stopEnc" => encq = <<"STOP">>
  /\ spc = "fullAudio" =>
       /\ mpc \in {"startEnc", "setStart"} => mem
       /\ "START" \in status /\ (mpc = "idle" \/ (mpc = "stopAudio" /\ got = "none")) => mem

(* The file that is open                                                   *)
Filming ==
  \/ mpc \in {"setPacker", "startAudio", "setAudio", "startEnc", "setStart", "closing", "closeFile"}
  \/ "START" \in status /\ mpc \in {"stopAudio", "clrAudio", "stopEnc", "clrStart", "close", "closeFailed"}
  \/ "START" \in status /\ mpc = "idle" /\ mode = "avi"
  \/ mpc = "close" /\ "PACKER" \in status
Files ==
  /\ Filming => fh = "avi" /\ opened = {"avi"}
  /\ mpc = "capture" /\ encq # <<>> => fh = "jpg" /\ opened = {"jpg"}
  /\ ~Filming /\ ~(mpc = "capture" /\ encq # <<>>) => opened = {}

(* The packer after vid_stop                                               *)
Closing ==
  /\ mpc \in {"stopAudio", "clrAudio", "stopEnc", "clrStart"} =>
       IF "START" \in status THEN "PACKER" \in status ELSE "PACKER" \notin status /\ packer = "closed"
  /\ mpc = "close" /\ "START" \notin status =>
       IF "PACKER" \in status THEN ok /\ packer = "open" ELSE ~ok /\ packer = "closed"
  /\ mpc \in {"closeFile", "closeFailed", "clrPacker"} => packer = "closed"
  /\ mpc \in {"closing", "closeFile", "clrPacker"} => "START" \notin status

CalmInv == /\ Buffers /\ Handler /\ Where /\ Answered /\ Files /\ Closing

(* Only a full card and failed writes: what vid_stop leaves                *)
AtRest ==
    /\ mpc = "setPacker" => ok
    /\ ~(mpc = "startAudio" /\ got = "FAIL")
    /\ "START" \notin status /\ mpc \in {"idle", "start", "capture", "stopAudio", "clrAudio", "stopEnc",
                                         "closeFailed", "stopEnd"} =>
         packer = "closed" /\ "PACKER" \notin status

(* No full card: no handler beside vid_stop                                *)
NoHandler ==
  /\ spc = "idle" /\ encq \in Seq({"START", "STOP", "CAPTURE"})
  /\ ~ok => mpc = "setPacker"
  /\ mpc \in {"stopAudio", "clrAudio", "stopEnc"} => "START" \in status
  /\ mpc = "close" => "START" \notin status /\ "PACKER" \in status
  /\ mpc # "closeFailed"

AloneInv == NoHandler /\ ~stale
-----------------------------------------------------------------------------
(* The buffers, as the interrupt fills them and the task stops.            *)

LEMMA BuffersFill == ASSUME Buffers, RoomForTwo, "late" \notin faults, DmaDone PROVE Buffers'
<1>1. /\ dma > 0 /\ dma' = dma - 1 /\ UNCHANGED <<mem, bStop>>
      /\ dma = 2 \/ ~ \E i \in 1..Len(audq) : audq[i] = "DONE"
      /\ Len(audq) < AudQ => audq' = Append(audq, "DONE")
  BY DEF DmaDone, PostAud
<1>2. AudQ \in Nat /\ AudQ >= 2
  BY QueueAssumption DEF RoomForTwo
<1>3. CASE dma = 2 /\ audq = <<>> /\ mem
  BY <1>1, <1>2, <1>3 DEF Buffers
<1>4. CASE dma = 2 /\ audq = <<"STOPING">> /\ mem
  BY <1>1, <1>2, <1>4 DEF Buffers
<1>5. CASE dma = 1 /\ audq = <<"STOP">> /\ bStop /\ mem
  BY <1>1, <1>2, <1>5 DEF Buffers
<1>6. CASE dma = 1 /\ audq = <<"DONE">>
  <2>1. 1 \in 1..Len(audq) /\ audq[1] = "DONE"
    BY <1>6
  <2> QED
    BY <1>1, <1>6, <2>1
<1>7. CASE dma = 1 /\ audq = <<"STOPING", "DONE">>
  <2>1. 2 \in 1..Len(audq) /\ audq[2] = "DONE"
    BY <1>7
  <2> QED
    BY <1>1, <1>7, <2>1
<1> QED
  BY <1>1, <1>3, <1>4, <1>5, <1>6, <1>7 DEF Buffers

LEMMA BuffersStoping == ASSUME Buffers, AudioStoping PROVE Buffers'
<1>1. audq # <<>> /\ Head(audq) = "STOPING" /\ audq' = Tail(audq) /\ bStop' = TRUE /\ UNCHANGED <<dma, mem>>
  BY DEF AudioStoping, AudioMay
<1>2. CASE dma = 2 /\ audq = <<"STOPING">> /\ mem
  BY <1>1, <1>2 DEF Buffers
<1>3. CASE dma = 1 /\ audq = <<"STOPING", "DONE">> /\ mem
  <2>1. audq' = <<"DONE">>
    BY <1>1, <1>3
  <2> QED
    BY <1>1, <1>3, <2>1 DEF Buffers
<1>4. CASE dma = 0 /\ audq = <<"STOPING">> /\ ~mem
  BY <1>1, <1>4 DEF Buffers
<1> QED
  BY <1>1, <1>2, <1>3, <1>4 DEF Buffers

LEMMA BuffersStop == ASSUME Buffers, AudioStop PROVE Buffers'
<1>1. audq # <<>> /\ Head(audq) = "STOP" /\ audq' = Tail(audq) /\ dma' = 0 /\ mem' = FALSE /\ UNCHANGED bStop
  BY DEF AudioStop, AudioMay
<1>2. CASE audq = <<"STOP">>
  BY <1>1, <1>2 DEF Buffers
<1>3. CASE audq = <<"STOP", "DONE">> /\ bStop
  <2>1. audq' = <<"DONE">>
    BY <1>1, <1>3
  <2> QED
    BY <1>1, <1>3, <2>1 DEF Buffers
<1> QED
  BY <1>1, <1>2, <1>3 DEF Buffers

-----------------------------------------------------------------------------
(* Each action keeps the second invariant.                                 *)
USE QueueAssumption DEF RecInv, RecTypes, QueueTypes, Messages, Stopped, Opening, Starting, Live,
    Told, Muted, Kept, Still, FullStops, Stopping, DmaInMemory, MainPlaces, StatePlaces, Mic, Loaded, CalmInv, Buffers,
    Handler, Where, Answered, Files, Closing, Filming

LEMMA DmaDoneCalm ==
  ASSUME RecInv, CalmInv, RoomForTwo, Kept, ~crossed, "late" \notin faults, DmaDone
  PROVE  CalmInv'
<1>1. Buffers'
  BY BuffersFill
<1>2. Handler' /\ Where' /\ Answered' /\ Files' /\ Closing'
  BY AudPosts DEF DmaDone, mainVars, flagVars, boxVars, stateVars, packVars, fileVars
<1> QED BY <1>1, <1>2

LEMMA AudioStartCalm ==
  ASSUME RecInv, CalmInv, RoomForTwo, Kept, ~crossed, "late" \notin faults, AudioStart
  PROVE  CalmInv'
BY AudioFinds DEF AudioStart, AudioMay, AckAud, mainVars, flagVars, boxVars, packVars, fileVars

LEMMA AudioStopingCalm ==
  ASSUME RecInv, CalmInv, RoomForTwo, Kept, ~crossed, "late" \notin faults, AudioStoping
  PROVE  CalmInv'
<1>1. Buffers'
  BY BuffersStoping
<1>2. Handler' /\ Where' /\ Answered' /\ Files' /\ Closing'
  BY AudioFinds DEF AudioStoping, AudioMay, mainVars, flagVars, boxVars, stateVars, packVars,
      fileVars
<1> QED BY <1>1, <1>2

LEMMA AudioDoneCalm ==
  ASSUME RecInv, CalmInv, RoomForTwo, Kept, ~crossed, "late" \notin faults, AudioDone
  PROVE  CalmInv'
BY EncPosts, AudioFinds DEF AudioDone, AudioMay, Rearm, mainVars, boxVars, packVars, fileVars

LEMMA AudioStopCalm ==
  ASSUME RecInv, CalmInv, RoomForTwo, Kept, ~crossed, "late" \notin faults, AudioStop
  PROVE  CalmInv'
<1>1. Buffers'
  BY BuffersStop
<1>2. Handler' /\ Where' /\ Answered' /\ Files' /\ Closing'
  BY AudioFinds DEF AudioStop, AudioMay, AckAud, mainVars, flagVars, boxVars, packVars, fileVars
<1> QED BY <1>1, <1>2

LEMMA PackerStopCalm ==
  ASSUME RecInv, CalmInv, RoomForTwo, Kept, ~crossed, "late" \notin faults, PackerStop
  PROVE  CalmInv'
BY DEF PackerStop, mainVars, flagVars, boxVars, stateVars, audioVars, fileVars

LEMMA PackerErrorCalm ==
  ASSUME RecInv, CalmInv, RoomForTwo, Kept, ~crossed, "late" \notin faults, PackerError
  PROVE  CalmInv'
BY DEF PackerError, mainVars, boxVars, audioVars, packVars, fileVars

LEMMA EncStartCalm ==
  ASSUME RecInv, CalmInv, RoomForTwo, Kept, ~crossed, "late" \notin faults, EncStart
  PROVE  CalmInv'
BY StateFinds DEF EncStart, StateMay, StateMayRun, AckEnc, mainVars, flagVars, audioVars, packVars,
    fileVars

LEMMA EncStopCalm ==
  ASSUME RecInv, CalmInv, RoomForTwo, Kept, ~crossed, "late" \notin faults, EncStop
  PROVE  CalmInv'
BY StateFinds DEF EncStop, StateMay, StateMayRun, AckEnc, mainVars, flagVars, audioVars, packVars,
    fileVars

LEMMA EncCaptureCalm ==
  ASSUME RecInv, CalmInv, RoomForTwo, Kept, ~crossed, "late" \notin faults, EncCapture
  PROVE  CalmInv'
BY StateFinds DEF EncCapture, StateMay, StateMayRun, AckEnc, CloseHandle, mainVars, audioVars,
    packVars

LEMMA EncFrameCalm ==
  ASSUME RecInv, CalmInv, RoomForTwo, Kept, ~crossed, "late" \notin faults, EncFrame
  PROVE  CalmInv'
BY EncPosts DEF EncFrame, StateMayRun, mainVars, boxVars, audioVars, packVars, fileVars

LEMMA FullBeginCalm ==
  ASSUME RecInv, CalmInv, RoomForTwo, Kept, ~crossed, "late" \notin faults, FullBegin
  PROVE  CalmInv'
BY AudPosts, StateFinds DEF FullBegin, StateMay, StateMayRun, mainVars, flagVars, packVars, fileVars

LEMMA FullTimeoutCalm ==
  ASSUME RecInv, CalmInv, RoomForTwo, Kept, ~crossed, Stops, "late" \notin faults, FullTimeout
  PROVE  CalmInv'
BY TimeIsUp DEF FullTimeout, StateMayRun, mainVars, flagVars, boxVars, packVars, fileVars

LEMMA FullCloseCalm ==
  ASSUME RecInv, CalmInv, RoomForTwo, Kept, ~crossed, "late" \notin faults, FullClose
  PROVE  CalmInv'
BY DEF FullClose, StateMayRun, CloseBegin, PackerOpen, mainVars, flagVars, boxVars, audioVars,
    packVars, fileVars

LEMMA FullClosingCalm ==
  ASSUME RecInv, CalmInv, RoomForTwo, Kept, ~crossed, "late" \notin faults, FullClosing
  PROVE  CalmInv'
BY DEF FullClosing, StateMayRun, CloseEnd, mainVars, flagVars, boxVars, audioVars, fileVars

LEMMA FullEndCalm ==
  ASSUME RecInv, CalmInv, RoomForTwo, Kept, ~crossed, mpc \notin Updates, got = "none",
         "late" \notin faults, FullEnd
  PROVE  CalmInv'
BY DEF FullEnd, StateMayRun, CloseHandle, FullBits, Updates, mainVars, flagVars, boxVars, audioVars,
    packVars

LEMMA MainStartCalm ==
  ASSUME RecInv, CalmInv, RoomForTwo, Kept, ~crossed, "late" \notin faults, MainStart
  PROVE  CalmInv'
BY DEF MainStart, Main, MainMayRun, StateReady, StartRefused, StartOpened, boxVars, stateVars,
    audioVars

LEMMA MainSetPackerCalm ==
  ASSUME RecInv, CalmInv, RoomForTwo, Kept, ~crossed, "late" \notin faults, MainSetPacker
  PROVE  CalmInv'
BY EncPosts, AudPosts DEF MainSetPacker, Main, MainMayRun, StateReady, CloseHandle, AskAud,
    AskEncode, flagVars, boxVars, stateVars, audioVars, packVars

LEMMA MainStartAudioCalm ==
  ASSUME RecInv, CalmInv, RoomForTwo, Kept, ~crossed, "late" \notin faults, MainStartAudio
  PROVE  CalmInv'
BY DEF MainStartAudio, Main, MainMayRun, StateReady, Acked, AudSilent, StartFailed, CloseHandle,
    flagVars, stateVars, audioVars, packVars

LEMMA MainSetAudioCalm ==
  ASSUME RecInv, CalmInv, RoomForTwo, Kept, ~crossed, "late" \notin faults, MainSetAudio
  PROVE  CalmInv'
BY EncPosts DEF MainSetAudio, Main, MainMayRun, StateReady, AskEncode, AskEnc, flagVars, boxVars,
    stateVars, audioVars, packVars, fileVars

LEMMA MainStartEncCalm ==
  ASSUME RecInv, CalmInv, RoomForTwo, Kept, ~crossed, "late" \notin faults, MainStartEnc
  PROVE  CalmInv'
BY DEF MainStartEnc, Main, MainMayRun, StateReady, Acked, EncSilent, StartFailed, CloseHandle,
    flagVars, stateVars, audioVars, packVars

LEMMA MainSetStartCalm ==
  ASSUME RecInv, CalmInv, RoomForTwo, Kept, ~crossed, "late" \notin faults, MainSetStart
  PROVE  CalmInv'
BY DEF MainSetStart, Main, MainMayRun, StateReady, flagVars, boxVars, stateVars, audioVars,
    packVars, fileVars

LEMMA MainStopAudioCalm ==
  ASSUME RecInv, CalmInv, RoomForTwo, Kept, ~crossed, Stops, "late" \notin faults, MainStopAudio
  PROVE  CalmInv'
BY TimeIsUp DEF MainFirst, MainStopAudio, Main, MainMayRun, StateReady, Acked, AudSilent, StopPacker, flagVars, boxVars,
    stateVars, packVars, fileVars

LEMMA MainClrAudioCalm ==
  ASSUME RecInv, CalmInv, RoomForTwo, Kept, ~crossed, "late" \notin faults, MainClrAudio
  PROVE  CalmInv'
BY EncPosts DEF MainClrAudio, Main, MainMayRun, StateReady, StopEncode, StopPacker, AskEnc,
    flagVars, boxVars, stateVars, audioVars, packVars, fileVars

LEMMA MainStopEncCalm ==
  ASSUME RecInv, CalmInv, RoomForTwo, Kept, ~crossed, Stops, "late" \notin faults, MainStopEnc
  PROVE  CalmInv'
<1>1. Buffers' /\ Handler' /\ Answered' /\ Files' /\ Closing'
  BY DEF MainStopEnc, Main, MainMayRun, StateReady, Acked, EncSilent, StopPacker, flagVars, boxVars,
      stateVars, audioVars, packVars, fileVars
<1>2. Where'
  <2>1. mpc = "stopEnc" /\ audq = <<>> /\ ~StateReady /\ UNCHANGED <<mode, status, spc, packer>>
    BY DEF MainStopEnc, Main, MainMayRun, stateVars, packVars
  <2>2. CASE Acked("clrStart") /\ UNCHANGED ok
    BY <2>1, <2>2 DEF Acked
  <2>3. CASE EncSilent /\ ok' = FALSE /\ StopPacker(status) /\ UNCHANGED <<boxVars, mtmp>>
    <3>1. ASSUME "START" \in status
          PROVE  spc \in {"fullClosing", "fullFile"} /\ "PACKER" \in status
      <4>1. spc # "idle"
        BY <2>1, <2>3, <3>1 DEF EncSilent
      <4>2. spc # "fullAudio"
        BY <2>1, <2>3 DEF EncSilent, MainFirst, Stops
      <4>3. spc # "fullClose"
        BY <2>1 DEF StateReady
      <4> QED
        BY <2>1, <3>1, <4>1, <4>2, <4>3
    <3>2. mpc' \in {"close", "stopEnd"} /\ ("PACKER" \in status => mpc' = "close")
      BY <2>3 DEF StopPacker
    <3> QED
      BY <2>1, <2>3, <3>1, <3>2
  <2> QED
    BY <2>2, <2>3 DEF MainStopEnc
<1> QED BY <1>1, <1>2

LEMMA MainClrStartCalm ==
  ASSUME RecInv, CalmInv, RoomForTwo, Kept, ~crossed, "late" \notin faults, MainClrStart
  PROVE  CalmInv'
BY DEF MainClrStart, Main, MainMayRun, StateReady, StopPacker, flagVars, boxVars, stateVars,
    audioVars, packVars, fileVars

LEMMA MainCloseCalm ==
  ASSUME RecInv, CalmInv, RoomForTwo, Kept, ~crossed, "late" \notin faults, MainClose
  PROVE  CalmInv'
BY DEF MainClose, Main, MainMayRun, StateReady, CloseBegin, PackerOpen, flagVars, boxVars,
    stateVars, audioVars, packVars, fileVars

LEMMA MainClosingCalm ==
  ASSUME RecInv, CalmInv, RoomForTwo, Kept, ~crossed, "late" \notin faults, MainClosing
  PROVE  CalmInv'
BY DEF MainClosing, Main, MainMayRun, StateReady, CloseEnd, flagVars, boxVars, audioVars, fileVars

LEMMA MainCloseFileCalm ==
  ASSUME RecInv, CalmInv, RoomForTwo, Kept, ~crossed, "late" \notin faults, MainCloseFile
  PROVE  CalmInv'
BY DEF MainCloseFile, Main, MainMayRun, StateReady, CloseHandle, flagVars, boxVars, stateVars,
    audioVars, packVars

LEMMA MainClrPackerCalm ==
  ASSUME RecInv, CalmInv, RoomForTwo, Kept, ~crossed, "late" \notin faults, MainClrPacker
  PROVE  CalmInv'
BY DEF MainClrPacker, Main, MainMayRun, StateReady, flagVars, boxVars, stateVars, audioVars,
    packVars, fileVars

LEMMA MainStopEndCalm ==
  ASSUME RecInv, CalmInv, RoomForTwo, Kept, ~crossed, "late" \notin faults, MainStopEnd
  PROVE  CalmInv'
BY DEF MainStopEnd, Main, MainMayRun, StateReady, CloseHandle, flagVars, boxVars, stateVars,
    audioVars, packVars

LEMMA MainPowerOffCalm ==
  ASSUME RecInv, CalmInv, RoomForTwo, Kept, ~crossed, "late" \notin faults, MainPowerOff
  PROVE  CalmInv'
BY DEF MainPowerOff, Main, MainMayRun, StateReady, flagVars, boxVars, stateVars, audioVars,
    packVars, fileVars

LEMMA MainRestartCalm ==
  ASSUME RecInv, CalmInv, RoomForTwo, Kept, ~crossed, "late" \notin faults, MainRestart
  PROVE  CalmInv'
BY EncPosts, AudPosts DEF MainRestart, Main, MainMayRun, StateReady, VidStop, StopEncode,
    StopPacker, AskAud, AskEnc, flagVars, boxVars, stateVars, audioVars, packVars, fileVars

LEMMA MainCapturedCalm ==
  ASSUME RecInv, CalmInv, RoomForTwo, Kept, ~crossed, "late" \notin faults, MainCaptured
  PROVE  CalmInv'
BY DEF MainCaptured, Main, MainMayRun, StateReady, boxVars, stateVars, audioVars, packVars, fileVars

LEMMA MainStopCalm ==
  ASSUME RecInv, CalmInv, RoomForTwo, Kept, ~crossed, "late" \notin faults, MainStop
  PROVE  CalmInv'
BY EncPosts, AudPosts DEF MainStop, Main, MainMayRun, StateReady, VidStop, StopEncode, StopPacker,
    AskAud, AskEnc, flagVars, boxVars, stateVars, audioVars, packVars, fileVars

LEMMA MainRecordCalm ==
  ASSUME RecInv, CalmInv, RoomForTwo, Kept, ~crossed, "late" \notin faults, MainRecord
  PROVE  CalmInv'
BY DEF MainRecord, Main, MainMayRun, StateReady, flagVars, boxVars, stateVars, audioVars, packVars,
    fileVars

LEMMA MainIdleOffCalm ==
  ASSUME RecInv, CalmInv, RoomForTwo, Kept, ~crossed, "late" \notin faults, MainIdleOff
  PROVE  CalmInv'
BY DEF MainIdleOff, Main, MainMayRun, StateReady, flagVars, boxVars, stateVars, audioVars, packVars,
    fileVars

LEMMA MainCaptureCalm ==
  ASSUME RecInv, CalmInv, RoomForTwo, Kept, ~crossed, "late" \notin faults, MainCapture
  PROVE  CalmInv'
BY EncPosts DEF MainCapture, Main, MainMayRun, StateReady, boxVars, audioVars, packVars

HIDE QueueAssumption DEF RecInv, RecTypes, QueueTypes, Messages, Stopped, Opening, Starting, Live,
    Told, Muted, Kept, Still, FullStops, Stopping, DmaInMemory, MainPlaces, StatePlaces, Mic, Loaded, CalmInv, Buffers,
    Handler, Where, Answered, Files, Closing, Filming

-----------------------------------------------------------------------------
(* Each action keeps AtRest, when only the card and the writes fail.        *)
USE QueueAssumption DEF Only, RecInv, RecTypes, QueueTypes, Messages, Stopped, Opening, Starting,
    Live, Told, Muted, Kept, Still, FullStops, Stopping, DmaInMemory, MainPlaces, StatePlaces, Mic, Loaded, CalmInv,
    Buffers, Handler, Where, Answered, Files, Closing, Filming, AtRest

LEMMA DmaDoneAtRest ==
  ASSUME RecInv, CalmInv, RoomForTwo, Kept, ~crossed, AtRest, Only({"full", "error"}), DmaDone
  PROVE  AtRest'
BY AudPosts DEF DmaDone, mainVars, flagVars, boxVars, stateVars, packVars, fileVars

LEMMA AudioStartAtRest ==
  ASSUME RecInv, CalmInv, RoomForTwo, Kept, ~crossed, AtRest, Only({"full", "error"}), AudioStart
  PROVE  AtRest'
BY AudioFinds DEF AudioStart, AudioMay, AckAud, mainVars, flagVars, boxVars, packVars, fileVars

LEMMA AudioStopingAtRest ==
  ASSUME RecInv, CalmInv, RoomForTwo, Kept, ~crossed, AtRest, Only({"full", "error"}), AudioStoping
  PROVE  AtRest'
BY AudioFinds DEF AudioStoping, AudioMay, mainVars, flagVars, boxVars, stateVars, packVars, fileVars

LEMMA AudioDoneAtRest ==
  ASSUME RecInv, CalmInv, RoomForTwo, Kept, ~crossed, AtRest, Only({"full", "error"}), AudioDone
  PROVE  AtRest'
BY EncPosts, AudioFinds DEF AudioDone, AudioMay, Rearm, mainVars, boxVars, packVars, fileVars

LEMMA AudioStopAtRest ==
  ASSUME RecInv, CalmInv, RoomForTwo, Kept, ~crossed, AtRest, Only({"full", "error"}), AudioStop
  PROVE  AtRest'
BY AudioFinds DEF AudioStop, AudioMay, AckAud, mainVars, flagVars, boxVars, packVars, fileVars

LEMMA PackerStopAtRest ==
  ASSUME RecInv, CalmInv, RoomForTwo, Kept, ~crossed, AtRest, Only({"full", "error"}), PackerStop
  PROVE  AtRest'
BY DEF PackerStop, mainVars, flagVars, boxVars, stateVars, audioVars, fileVars

LEMMA PackerErrorAtRest ==
  ASSUME RecInv, CalmInv, RoomForTwo, Kept, ~crossed, AtRest, Only({"full", "error"}), PackerError
  PROVE  AtRest'
BY DEF PackerError, mainVars, boxVars, audioVars, packVars, fileVars

LEMMA EncStartAtRest ==
  ASSUME RecInv, CalmInv, RoomForTwo, Kept, ~crossed, AtRest, Only({"full", "error"}), EncStart
  PROVE  AtRest'
BY StateFinds DEF EncStart, StateMay, StateMayRun, AckEnc, mainVars, flagVars, audioVars, packVars,
    fileVars

LEMMA EncStopAtRest ==
  ASSUME RecInv, CalmInv, RoomForTwo, Kept, ~crossed, AtRest, Only({"full", "error"}), EncStop
  PROVE  AtRest'
BY StateFinds DEF EncStop, StateMay, StateMayRun, AckEnc, mainVars, flagVars, audioVars, packVars,
    fileVars

LEMMA EncCaptureAtRest ==
  ASSUME RecInv, CalmInv, RoomForTwo, Kept, ~crossed, AtRest, Only({"full", "error"}), EncCapture
  PROVE  AtRest'
BY StateFinds DEF EncCapture, StateMay, StateMayRun, AckEnc, CloseHandle, mainVars, audioVars,
    packVars

LEMMA EncFrameAtRest ==
  ASSUME RecInv, CalmInv, RoomForTwo, Kept, ~crossed, AtRest, Only({"full", "error"}), EncFrame
  PROVE  AtRest'
BY EncPosts DEF EncFrame, StateMayRun, mainVars, boxVars, audioVars, packVars, fileVars

LEMMA FullBeginAtRest ==
  ASSUME RecInv, CalmInv, RoomForTwo, Kept, ~crossed, AtRest, Only({"full", "error"}), FullBegin
  PROVE  AtRest'
BY AudPosts, StateFinds DEF FullBegin, StateMay, StateMayRun, mainVars, flagVars, packVars, fileVars

LEMMA FullTimeoutAtRest ==
  ASSUME RecInv, CalmInv, RoomForTwo, Kept, ~crossed, Stops, AtRest, Only({"full", "error"}),
         FullTimeout
  PROVE  AtRest'
BY DEF FullTimeout, StateMayRun, mainVars, flagVars, boxVars, packVars, fileVars

LEMMA FullCloseAtRest ==
  ASSUME RecInv, CalmInv, RoomForTwo, Kept, ~crossed, AtRest, Only({"full", "error"}), FullClose
  PROVE  AtRest'
BY DEF FullClose, StateMayRun, CloseBegin, PackerOpen, mainVars, flagVars, boxVars, audioVars,
    packVars, fileVars

LEMMA FullClosingAtRest ==
  ASSUME RecInv, CalmInv, RoomForTwo, Kept, ~crossed, AtRest, Only({"full", "error"}), FullClosing
  PROVE  AtRest'
BY DEF FullClosing, StateMayRun, CloseEnd, mainVars, flagVars, boxVars, audioVars, fileVars

LEMMA FullEndAtRest ==
  ASSUME RecInv, CalmInv, RoomForTwo, Kept, ~crossed, mpc \notin Updates, got = "none", AtRest,
         Only({"full", "error"}), FullEnd
  PROVE  AtRest'
BY DEF FullEnd, StateMayRun, CloseHandle, FullBits, mainVars, flagVars, boxVars, audioVars, packVars

LEMMA MainStartAtRest ==
  ASSUME RecInv, CalmInv, RoomForTwo, Kept, ~crossed, AtRest, Only({"full", "error"}), MainStart
  PROVE  AtRest'
BY DEF MainStart, Main, MainMayRun, StateReady, StartRefused, StartOpened, boxVars, stateVars,
    audioVars

LEMMA MainSetPackerAtRest ==
  ASSUME RecInv, CalmInv, RoomForTwo, Kept, ~crossed, AtRest, Only({"full", "error"}), MainSetPacker
  PROVE  AtRest'
BY EncPosts, AudPosts DEF MainSetPacker, Main, MainMayRun, StateReady, CloseHandle, AskAud,
    AskEncode, flagVars, boxVars, stateVars, audioVars, packVars

LEMMA MainStartAudioAtRest ==
  ASSUME RecInv, CalmInv, RoomForTwo, Kept, ~crossed, AtRest, Only({"full", "error"}),
         MainStartAudio
  PROVE  AtRest'
BY DEF MainStartAudio, Main, MainMayRun, StateReady, Acked, AudSilent, StartFailed, CloseHandle,
    flagVars, stateVars, audioVars, packVars

LEMMA MainSetAudioAtRest ==
  ASSUME RecInv, CalmInv, RoomForTwo, Kept, ~crossed, AtRest, Only({"full", "error"}), MainSetAudio
  PROVE  AtRest'
BY EncPosts DEF MainSetAudio, Main, MainMayRun, StateReady, AskEncode, AskEnc, flagVars, boxVars,
    stateVars, audioVars, packVars, fileVars

LEMMA MainStartEncAtRest ==
  ASSUME RecInv, CalmInv, RoomForTwo, Kept, ~crossed, AtRest, Only({"full", "error"}), MainStartEnc
  PROVE  AtRest'
BY DEF MainStartEnc, Main, MainMayRun, StateReady, Acked, EncSilent, StartFailed, CloseHandle,
    flagVars, stateVars, audioVars, packVars

LEMMA MainSetStartAtRest ==
  ASSUME RecInv, CalmInv, RoomForTwo, Kept, ~crossed, AtRest, Only({"full", "error"}), MainSetStart
  PROVE  AtRest'
BY DEF MainSetStart, Main, MainMayRun, StateReady, flagVars, boxVars, stateVars, audioVars,
    packVars, fileVars

LEMMA MainStopAudioAtRest ==
  ASSUME RecInv, CalmInv, RoomForTwo, Kept, ~crossed, Stops, AtRest, Only({"full", "error"}),
         MainStopAudio
  PROVE  AtRest'
BY DEF MainStopAudio, Main, MainMayRun, StateReady, Acked, AudSilent, StopPacker, flagVars, boxVars,
    stateVars, packVars, fileVars

LEMMA MainClrAudioAtRest ==
  ASSUME RecInv, CalmInv, RoomForTwo, Kept, ~crossed, AtRest, Only({"full", "error"}), MainClrAudio
  PROVE  AtRest'
BY EncPosts DEF MainClrAudio, Main, MainMayRun, StateReady, StopEncode, StopPacker, AskEnc,
    flagVars, boxVars, stateVars, audioVars, packVars, fileVars

LEMMA MainStopEncAtRest ==
  ASSUME RecInv, CalmInv, RoomForTwo, Kept, ~crossed, AtRest, Only({"full", "error"}), MainStopEnc
  PROVE  AtRest'
BY DEF MainStopEnc, Main, MainMayRun, StateReady, Acked, EncSilent, StopPacker, flagVars, boxVars,
    stateVars, audioVars, packVars, fileVars

LEMMA MainClrStartAtRest ==
  ASSUME RecInv, CalmInv, RoomForTwo, Kept, ~crossed, AtRest, Only({"full", "error"}), MainClrStart
  PROVE  AtRest'
BY DEF MainClrStart, Main, MainMayRun, StateReady, StopPacker, flagVars, boxVars, stateVars,
    audioVars, packVars, fileVars

LEMMA MainCloseAtRest ==
  ASSUME RecInv, CalmInv, RoomForTwo, Kept, ~crossed, AtRest, Only({"full", "error"}), MainClose
  PROVE  AtRest'
BY DEF MainClose, Main, MainMayRun, StateReady, CloseBegin, PackerOpen, flagVars, boxVars,
    stateVars, audioVars, packVars, fileVars

LEMMA MainClosingAtRest ==
  ASSUME RecInv, CalmInv, RoomForTwo, Kept, ~crossed, AtRest, Only({"full", "error"}), MainClosing
  PROVE  AtRest'
BY DEF MainClosing, Main, MainMayRun, StateReady, CloseEnd, flagVars, boxVars, audioVars, fileVars

LEMMA MainCloseFileAtRest ==
  ASSUME RecInv, CalmInv, RoomForTwo, Kept, ~crossed, AtRest, Only({"full", "error"}), MainCloseFile
  PROVE  AtRest'
BY DEF MainCloseFile, Main, MainMayRun, StateReady, CloseHandle, flagVars, boxVars, stateVars,
    audioVars, packVars

LEMMA MainClrPackerAtRest ==
  ASSUME RecInv, CalmInv, RoomForTwo, Kept, ~crossed, AtRest, Only({"full", "error"}), MainClrPacker
  PROVE  AtRest'
BY DEF MainClrPacker, Main, MainMayRun, StateReady, flagVars, boxVars, stateVars, audioVars,
    packVars, fileVars

LEMMA MainStopEndAtRest ==
  ASSUME RecInv, CalmInv, RoomForTwo, Kept, ~crossed, AtRest, Only({"full", "error"}), MainStopEnd
  PROVE  AtRest'
BY DEF MainStopEnd, Main, MainMayRun, StateReady, CloseHandle, flagVars, boxVars, stateVars,
    audioVars, packVars

LEMMA MainPowerOffAtRest ==
  ASSUME RecInv, CalmInv, RoomForTwo, Kept, ~crossed, AtRest, Only({"full", "error"}), MainPowerOff
  PROVE  AtRest'
BY DEF MainPowerOff, Main, MainMayRun, StateReady, flagVars, boxVars, stateVars, audioVars,
    packVars, fileVars

LEMMA MainRestartAtRest ==
  ASSUME RecInv, CalmInv, RoomForTwo, Kept, ~crossed, AtRest, Only({"full", "error"}), MainRestart
  PROVE  AtRest'
BY EncPosts, AudPosts DEF MainRestart, Main, MainMayRun, StateReady, VidStop, StopEncode,
    StopPacker, AskAud, AskEnc, flagVars, boxVars, stateVars, audioVars, packVars, fileVars

LEMMA MainCapturedAtRest ==
  ASSUME RecInv, CalmInv, RoomForTwo, Kept, ~crossed, AtRest, Only({"full", "error"}), MainCaptured
  PROVE  AtRest'
BY DEF MainCaptured, Main, MainMayRun, StateReady, boxVars, stateVars, audioVars, packVars, fileVars

LEMMA MainStopAtRest ==
  ASSUME RecInv, CalmInv, RoomForTwo, Kept, ~crossed, AtRest, Only({"full", "error"}), MainStop
  PROVE  AtRest'
BY EncPosts, AudPosts DEF MainStop, Main, MainMayRun, StateReady, VidStop, StopEncode, StopPacker,
    AskAud, AskEnc, flagVars, boxVars, stateVars, audioVars, packVars, fileVars

LEMMA MainRecordAtRest ==
  ASSUME RecInv, CalmInv, RoomForTwo, Kept, ~crossed, AtRest, Only({"full", "error"}), MainRecord
  PROVE  AtRest'
BY DEF MainRecord, Main, MainMayRun, StateReady, flagVars, boxVars, stateVars, audioVars, packVars,
    fileVars

LEMMA MainIdleOffAtRest ==
  ASSUME RecInv, CalmInv, RoomForTwo, Kept, ~crossed, AtRest, Only({"full", "error"}), MainIdleOff
  PROVE  AtRest'
BY DEF MainIdleOff, Main, MainMayRun, StateReady, flagVars, boxVars, stateVars, audioVars, packVars,
    fileVars

LEMMA MainCaptureAtRest ==
  ASSUME RecInv, CalmInv, RoomForTwo, Kept, ~crossed, AtRest, Only({"full", "error"}), MainCapture
  PROVE  AtRest'
BY EncPosts DEF MainCapture, Main, MainMayRun, StateReady, boxVars, audioVars, packVars

HIDE QueueAssumption DEF Only, RecInv, RecTypes, QueueTypes, Messages, Stopped, Opening, Starting,
    Live, Told, Muted, Kept, Still, FullStops, Stopping, DmaInMemory, MainPlaces, StatePlaces, Mic, Loaded, CalmInv,
    Buffers, Handler, Where, Answered, Files, Closing, Filming, AtRest

-----------------------------------------------------------------------------
(* Each action keeps AloneInv, when the card never fills up.                *)
USE QueueAssumption DEF Only, RecInv, RecTypes, QueueTypes, Messages, Stopped, Opening, Starting,
    Still, FullStops, Stopping, DmaInMemory, MainPlaces, StatePlaces, Mic, Loaded, CalmInv,
    Buffers, Handler, Where, Answered, Files, Closing, Filming, AloneInv, NoHandler

LEMMA DmaDoneAlone ==
  ASSUME RecInv, CalmInv, RoomForTwo, Kept, ~crossed, AloneInv, Only({"error", "audio", "open"}),
         DmaDone
  PROVE  AloneInv'
BY AudPosts DEF DmaDone, mainVars, flagVars, boxVars, stateVars, packVars, fileVars

LEMMA AudioStartAlone ==
  ASSUME RecInv, CalmInv, RoomForTwo, Kept, ~crossed, AloneInv, Only({"error", "audio", "open"}),
         AudioStart
  PROVE  AloneInv'
BY AudioFinds DEF AudioStart, AudioMay, AckAud, mainVars, flagVars, boxVars, packVars, fileVars

LEMMA AudioStopingAlone ==
  ASSUME RecInv, CalmInv, RoomForTwo, Kept, ~crossed, AloneInv, Only({"error", "audio", "open"}),
         AudioStoping
  PROVE  AloneInv'
BY AudioFinds DEF AudioStoping, AudioMay, mainVars, flagVars, boxVars, stateVars, packVars, fileVars

LEMMA AudioDoneAlone ==
  ASSUME RecInv, CalmInv, RoomForTwo, Kept, ~crossed, AloneInv, Only({"error", "audio", "open"}),
         AudioDone
  PROVE  AloneInv'
BY EncPosts, AudioFinds DEF AudioDone, AudioMay, Rearm, mainVars, boxVars, packVars, fileVars

LEMMA AudioStopAlone ==
  ASSUME RecInv, CalmInv, RoomForTwo, Kept, ~crossed, AloneInv, Only({"error", "audio", "open"}),
         AudioStop
  PROVE  AloneInv'
BY AudioFinds DEF AudioStop, AudioMay, AckAud, mainVars, flagVars, boxVars, packVars, fileVars

LEMMA PackerStopAlone ==
  ASSUME RecInv, CalmInv, RoomForTwo, Kept, ~crossed, AloneInv, Only({"error", "audio", "open"}),
         PackerStop
  PROVE  AloneInv'
BY DEF PackerStop, mainVars, flagVars, boxVars, stateVars, audioVars, fileVars

LEMMA PackerErrorAlone ==
  ASSUME RecInv, CalmInv, RoomForTwo, Kept, ~crossed, AloneInv, Only({"error", "audio", "open"}),
         PackerError
  PROVE  AloneInv'
BY DEF PackerError, mainVars, boxVars, audioVars, packVars, fileVars

LEMMA EncStartAlone ==
  ASSUME RecInv, CalmInv, RoomForTwo, Kept, ~crossed, AloneInv, Only({"error", "audio", "open"}),
         EncStart
  PROVE  AloneInv'
BY StateFinds DEF EncStart, StateMay, StateMayRun, AckEnc, mainVars, flagVars, audioVars, packVars,
    fileVars

LEMMA EncStopAlone ==
  ASSUME RecInv, CalmInv, RoomForTwo, Kept, ~crossed, AloneInv, Only({"error", "audio", "open"}),
         EncStop
  PROVE  AloneInv'
BY StateFinds DEF EncStop, StateMay, StateMayRun, AckEnc, mainVars, flagVars, audioVars, packVars,
    fileVars

LEMMA EncCaptureAlone ==
  ASSUME RecInv, CalmInv, RoomForTwo, Kept, ~crossed, AloneInv, Only({"error", "audio", "open"}),
         EncCapture
  PROVE  AloneInv'
<1>1. NoHandler'
  BY StateFinds DEF EncCapture, StateMay, StateMayRun, AckEnc, CloseHandle, mainVars, audioVars,
      packVars
<1>2. ~stale'
  BY StateFinds DEF EncCapture, StateMay, StateMayRun, AckEnc, CloseHandle, mainVars, audioVars,
      packVars
<1> QED BY <1>1, <1>2

LEMMA EncFrameAlone ==
  ASSUME RecInv, CalmInv, RoomForTwo, Kept, ~crossed, AloneInv, Only({"error", "audio", "open"}),
         EncFrame
  PROVE  AloneInv'
BY EncPosts DEF EncFrame, StateMayRun, mainVars, boxVars, audioVars, packVars, fileVars

LEMMA FullBeginAlone ==
  ASSUME RecInv, CalmInv, RoomForTwo, Kept, ~crossed, AloneInv, Only({"error", "audio", "open"}),
         FullBegin
  PROVE  AloneInv'
BY AudPosts, StateFinds DEF FullBegin, StateMay, StateMayRun, mainVars, flagVars, packVars, fileVars

LEMMA FullTimeoutAlone ==
  ASSUME RecInv, CalmInv, RoomForTwo, Kept, ~crossed, Stops, AloneInv, Only({"error", "audio",
         "open"}), FullTimeout
  PROVE  AloneInv'
BY DEF FullTimeout, StateMayRun, mainVars, flagVars, boxVars, packVars, fileVars

LEMMA FullCloseAlone ==
  ASSUME RecInv, CalmInv, RoomForTwo, Kept, ~crossed, AloneInv, Only({"error", "audio", "open"}),
         FullClose
  PROVE  AloneInv'
BY DEF FullClose, StateMayRun, CloseBegin, PackerOpen, mainVars, flagVars, boxVars, audioVars,
    packVars, fileVars

LEMMA FullClosingAlone ==
  ASSUME RecInv, CalmInv, RoomForTwo, Kept, ~crossed, AloneInv, Only({"error", "audio", "open"}),
         FullClosing
  PROVE  AloneInv'
BY DEF FullClosing, StateMayRun, CloseEnd, mainVars, flagVars, boxVars, audioVars, fileVars

LEMMA FullEndAlone ==
  ASSUME RecInv, CalmInv, RoomForTwo, Kept, ~crossed, AloneInv, Only({"error", "audio", "open"}),
         FullEnd
  PROVE  AloneInv'
BY DEF FullEnd, StateMayRun, CloseHandle, FullBits, mainVars, flagVars, boxVars, audioVars, packVars

LEMMA MainStartAlone ==
  ASSUME RecInv, CalmInv, RoomForTwo, Kept, ~crossed, AloneInv, Only({"error", "audio", "open"}),
         MainStart
  PROVE  AloneInv'
BY DEF MainStart, Main, MainMayRun, StateReady, StartRefused, StartOpened, boxVars, stateVars,
    audioVars

LEMMA MainSetPackerAlone ==
  ASSUME RecInv, CalmInv, RoomForTwo, Kept, ~crossed, AloneInv, Only({"error", "audio", "open"}),
         MainSetPacker
  PROVE  AloneInv'
<1>1. /\ mpc = "setPacker" /\ spc = "idle" /\ encq = <<>> /\ "avi" \in opened /\ "AUDIO" \notin mtmp
      /\ encq \in Seq({"START", "STOP", "CAPTURE"})
  BY DEF MainSetPacker, Main, MainMayRun, StateReady
<1>2. ~stale
  OBVIOUS
<1> HIDE DEF RecInv, CalmInv, AloneInv, Only
<1>3. /\ mpc' \in {"idle", "startAudio"} /\ ok' /\ UNCHANGED <<spc, encq>>
      /\ "avi" \in opened => ~stale'
  BY <1>1, <1>2 DEF MainSetPacker, Main, AskAud, CloseHandle, stateVars
<1> QED
  BY <1>1, <1>2, <1>3 DEF AloneInv

LEMMA MainStartAudioAlone ==
  ASSUME RecInv, CalmInv, RoomForTwo, Kept, ~crossed, AloneInv, Only({"error", "audio", "open"}),
         MainStartAudio
  PROVE  AloneInv'
<1>1. /\ mpc = "startAudio" /\ spc = "idle" /\ encq \in Seq({"START", "STOP", "CAPTURE"})
      /\ "avi" \in opened /\ ok /\ ~stale
  BY DEF MainStartAudio, Main
<1> HIDE DEF RecInv, CalmInv, AloneInv, Only
<1>2. UNCHANGED <<ok, spc, encq>>
  BY DEF MainStartAudio, stateVars
<1>3. mpc' \in {"idle", "setAudio"} /\ ~stale'
  <2>1. CASE Acked("setAudio") /\ UNCHANGED <<mode, opened, stale>>
    BY <1>1, <2>1 DEF Acked
  <2>2. CASE StartFailed
    BY <1>1, <2>2 DEF StartFailed, CloseHandle
  <2> QED
    BY <2>1, <2>2 DEF MainStartAudio
<1> QED
  BY <1>1, <1>2, <1>3 DEF AloneInv

LEMMA MainSetAudioAlone ==
  ASSUME RecInv, CalmInv, RoomForTwo, Kept, ~crossed, AloneInv, Only({"error", "audio", "open"}),
         MainSetAudio
  PROVE  AloneInv'
<1>1. spc = "idle" /\ encq = <<>> /\ QueueTypes
  BY DEF MainSetAudio, Main, MainMayRun, StateReady, AloneInv, NoHandler, RecInv
<1>2. UNCHANGED spc /\ (UNCHANGED encq \/ PostEnc("START"))
  BY DEF MainSetAudio, AskEncode, AskEnc, stateVars
<1>3. encq' \in {<<>>, <<"START">>}
  BY <1>1, <1>2, EncPosts
<1>4. spc' = "idle" /\ encq' \in Seq({"START", "STOP", "CAPTURE"})
  <2>1. CASE encq' = <<>>
    BY <1>1, <1>2, <2>1
  <2>2. CASE encq' = <<"START">>
    BY <1>1, <1>2, <2>2
  <2> QED
    BY <1>3, <2>1, <2>2
<1>5. NoHandler'
  BY <1>1, <1>4 DEF Only, RecInv, Opening, AloneInv, NoHandler, MainSetAudio, AskEncode, AskEnc,
      Main, mainVars, fileVars
<1>6. ~stale'
  BY DEF AloneInv, MainSetAudio, fileVars
<1> QED
  BY <1>5, <1>6 DEF AloneInv

LEMMA MainStartEncAlone ==
  ASSUME RecInv, CalmInv, RoomForTwo, Kept, ~crossed, AloneInv, Only({"error", "audio", "open"}),
         MainStartEnc
  PROVE  AloneInv'
BY DEF MainStartEnc, Main, MainMayRun, StateReady, Acked, EncSilent, StartFailed, CloseHandle,
    flagVars, stateVars, audioVars, packVars

LEMMA MainSetStartAlone ==
  ASSUME RecInv, CalmInv, RoomForTwo, Kept, ~crossed, AloneInv, Only({"error", "audio", "open"}),
         MainSetStart
  PROVE  AloneInv'
BY DEF MainSetStart, Main, MainMayRun, StateReady, flagVars, boxVars, stateVars, audioVars,
    packVars, fileVars

LEMMA MainStopAudioAlone ==
  ASSUME RecInv, CalmInv, RoomForTwo, Kept, ~crossed, Stops, AloneInv, Only({"error", "audio",
         "open"}), MainStopAudio
  PROVE  AloneInv'
<1>1. /\ mpc = "stopAudio" /\ spc = "idle" /\ encq \in Seq({"START", "STOP", "CAPTURE"})
      /\ "START" \in status /\ ok /\ ~stale
  BY DEF MainStopAudio, Main
<1>2. ~(got = "none" /\ dma = 0 /\ audq = <<>>)
  BY <1>1
<1>3. ~AudSilent
  BY <1>1, <1>2, TimeIsUp DEF AudSilent
<1> HIDE DEF RecInv, CalmInv, AloneInv, Only
<1>4. /\ mpc' = "clrAudio" /\ UNCHANGED <<ok, status, spc, encq, stale>>
  BY <1>3 DEF MainStopAudio, Acked, stateVars, fileVars
<1> QED
  BY <1>1, <1>4 DEF AloneInv

LEMMA MainClrAudioAlone ==
  ASSUME RecInv, CalmInv, RoomForTwo, Kept, ~crossed, AloneInv, Only({"error", "audio", "open"}),
         MainClrAudio
  PROVE  AloneInv'
<1>1. spc = "idle" /\ encq = <<>> /\ QueueTypes
  BY DEF MainClrAudio, Main, MainMayRun, StateReady, AloneInv, NoHandler, RecInv
<1>2. UNCHANGED spc /\ (UNCHANGED encq \/ PostEnc("STOP"))
  BY DEF MainClrAudio, StopEncode, StopPacker, AskEnc, stateVars
<1>3. encq' \in {<<>>, <<"STOP">>}
  BY <1>1, <1>2, EncPosts
<1>4. spc' = "idle" /\ encq' \in Seq({"START", "STOP", "CAPTURE"})
  <2>1. CASE encq' = <<>>
    BY <1>1, <1>2, <2>1
  <2>2. CASE encq' = <<"STOP">>
    BY <1>1, <1>2, <2>2
  <2> QED
    BY <1>3, <2>1, <2>2
<1>5. NoHandler'
  BY <1>1, <1>4 DEF Only, RecInv, CalmInv, Where, Closing, Stopping, Loaded, AloneInv, NoHandler,
      MainClrAudio, StopEncode, StopPacker, AskEnc, Main, mainVars, fileVars
<1>6. ~stale'
  BY DEF AloneInv, MainClrAudio, fileVars
<1> QED
  BY <1>5, <1>6 DEF AloneInv

LEMMA MainStopEncAlone ==
  ASSUME RecInv, CalmInv, RoomForTwo, Kept, ~crossed, AloneInv, Only({"error", "audio", "open"}),
         MainStopEnc
  PROVE  AloneInv'
BY DEF MainStopEnc, Main, MainMayRun, StateReady, Acked, EncSilent, StopPacker, flagVars, boxVars,
    stateVars, audioVars, packVars, fileVars

LEMMA MainClrStartAlone ==
  ASSUME RecInv, CalmInv, RoomForTwo, Kept, ~crossed, AloneInv, Only({"error", "audio", "open"}),
         MainClrStart
  PROVE  AloneInv'
BY DEF MainClrStart, Main, MainMayRun, StateReady, StopPacker, flagVars, boxVars, stateVars,
    audioVars, packVars, fileVars

LEMMA MainCloseAlone ==
  ASSUME RecInv, CalmInv, RoomForTwo, Kept, ~crossed, AloneInv, Only({"error", "audio", "open"}),
         MainClose
  PROVE  AloneInv'
BY DEF MainClose, Main, MainMayRun, StateReady, CloseBegin, PackerOpen, flagVars, boxVars,
    stateVars, audioVars, packVars, fileVars

LEMMA MainClosingAlone ==
  ASSUME RecInv, CalmInv, RoomForTwo, Kept, ~crossed, AloneInv, Only({"error", "audio", "open"}),
         MainClosing
  PROVE  AloneInv'
BY DEF MainClosing, Main, MainMayRun, StateReady, CloseEnd, flagVars, boxVars, audioVars, fileVars

LEMMA MainCloseFileAlone ==
  ASSUME RecInv, CalmInv, RoomForTwo, Kept, ~crossed, AloneInv, Only({"error", "audio", "open"}),
         MainCloseFile
  PROVE  AloneInv'
BY DEF MainCloseFile, Main, MainMayRun, StateReady, CloseHandle, flagVars, boxVars, stateVars,
    audioVars, packVars

LEMMA MainClrPackerAlone ==
  ASSUME RecInv, CalmInv, RoomForTwo, Kept, ~crossed, AloneInv, Only({"error", "audio", "open"}),
         MainClrPacker
  PROVE  AloneInv'
BY DEF MainClrPacker, Main, MainMayRun, StateReady, flagVars, boxVars, stateVars, audioVars,
    packVars, fileVars

LEMMA MainStopEndAlone ==
  ASSUME RecInv, CalmInv, RoomForTwo, Kept, ~crossed, AloneInv, Only({"error", "audio", "open"}),
         MainStopEnd
  PROVE  AloneInv'
BY DEF MainStopEnd, Main, MainMayRun, StateReady, CloseHandle, flagVars, boxVars, stateVars,
    audioVars, packVars

LEMMA MainPowerOffAlone ==
  ASSUME RecInv, CalmInv, RoomForTwo, Kept, ~crossed, AloneInv, Only({"error", "audio", "open"}),
         MainPowerOff
  PROVE  AloneInv'
BY DEF MainPowerOff, Main, MainMayRun, StateReady, flagVars, boxVars, stateVars, audioVars,
    packVars, fileVars

(* vid_stop begins beside no handler.                                      *)
LEMMA VidStopAlone ==
  ASSUME RecInv, CalmInv, AloneInv, Main("idle"), VidStop, UNCHANGED <<ok, status, stale>>
  PROVE  AloneInv'
<1>1. /\ mpc = "idle" /\ spc = "idle" /\ encq = <<>> /\ encq \in Seq({"START", "STOP", "CAPTURE"})
      /\ ok /\ ~stale /\ QueueTypes
  BY DEF Main, MainMayRun, StateReady
<1> HIDE DEF RecInv, CalmInv, AloneInv, Only, QueueTypes
<1>2. \/ mpc' = "stopEnd" /\ UNCHANGED <<spc, encq>>
      \/ "START" \in status /\ mpc' = "stopAudio" /\ UNCHANGED <<spc, encq>>
      \/ "START" \in status /\ mpc' = "stopEnc" /\ spc' = spc /\ PostEnc("STOP")
  <2>1. CASE "START" \notin status
    BY <2>1 DEF VidStop, stateVars
  <2>2. CASE "START" \in status /\ "AUDIO" \in status
    BY <2>2 DEF VidStop, stateVars
  <2>3. CASE "START" \in status /\ "AUDIO" \notin status
    BY <2>3 DEF VidStop, StopEncode, AskEnc
  <2> QED
    BY <2>1, <2>2, <2>3
<1>3. PostEnc("STOP") => encq' = <<"STOP">>
  BY <1>1, EncPosts
<1>4. spc' = "idle" /\ encq' \in Seq({"START", "STOP", "CAPTURE"})
  <2>1. CASE encq' = <<"STOP">>
    BY <1>1, <1>2, <2>1
  <2>2. CASE UNCHANGED encq
    BY <1>1, <1>2, <2>2
  <2> QED
    BY <1>2, <1>3, <2>1, <2>2
<1> QED
  BY <1>1, <1>2, <1>4 DEF AloneInv

LEMMA MainRestartAlone ==
  ASSUME RecInv, CalmInv, RoomForTwo, Kept, ~crossed, AloneInv, Only({"error", "audio", "open"}),
         MainRestart
  PROVE  AloneInv'
BY VidStopAlone DEF MainRestart, mainVars, fileVars

LEMMA MainCapturedAlone ==
  ASSUME RecInv, CalmInv, RoomForTwo, Kept, ~crossed, AloneInv, Only({"error", "audio", "open"}),
         MainCaptured
  PROVE  AloneInv'
BY DEF MainCaptured, Main, MainMayRun, StateReady, boxVars, stateVars, audioVars, packVars, fileVars

LEMMA MainStopAlone ==
  ASSUME RecInv, CalmInv, RoomForTwo, Kept, ~crossed, AloneInv, Only({"error", "audio", "open"}),
         MainStop
  PROVE  AloneInv'
BY VidStopAlone DEF MainStop, mainVars, fileVars

LEMMA MainRecordAlone ==
  ASSUME RecInv, CalmInv, RoomForTwo, Kept, ~crossed, AloneInv, Only({"error", "audio", "open"}),
         MainRecord
  PROVE  AloneInv'
BY DEF MainRecord, Main, MainMayRun, StateReady, flagVars, boxVars, stateVars, audioVars, packVars,
    fileVars

LEMMA MainIdleOffAlone ==
  ASSUME RecInv, CalmInv, RoomForTwo, Kept, ~crossed, AloneInv, Only({"error", "audio", "open"}),
         MainIdleOff
  PROVE  AloneInv'
BY DEF MainIdleOff, Main, MainMayRun, StateReady, flagVars, boxVars, stateVars, audioVars, packVars,
    fileVars

LEMMA MainCaptureAlone ==
  ASSUME RecInv, CalmInv, RoomForTwo, Kept, ~crossed, AloneInv, Only({"error", "audio", "open"}),
         MainCapture
  PROVE  AloneInv'
<1>1. spc = "idle" /\ encq = <<>> /\ QueueTypes
  BY DEF MainCapture, Main, MainMayRun, StateReady, AloneInv, NoHandler, RecInv
<1>2. UNCHANGED spc /\ (UNCHANGED encq \/ PostEnc("CAPTURE"))
  BY DEF MainCapture, stateVars
<1>3. encq' \in {<<>>, <<"CAPTURE">>}
  BY <1>1, <1>2, EncPosts
<1>4. spc' = "idle" /\ encq' \in Seq({"START", "STOP", "CAPTURE"})
  <2>1. CASE encq' = <<>>
    BY <1>1, <1>2, <2>1
  <2>2. CASE encq' = <<"CAPTURE">>
    BY <1>1, <1>2, <2>2
  <2> QED
    BY <1>3, <2>1, <2>2
<1>5. NoHandler'
  BY <1>1, <1>4 DEF Only, RecInv, RecTypes, AloneInv, NoHandler, MainCapture, Main, mainVars, fileVars
<1>6. ~stale'
  BY DEF AloneInv, MainCapture, fileVars
<1> QED
  BY <1>5, <1>6 DEF AloneInv

HIDE QueueAssumption DEF Only, RecInv, RecTypes, QueueTypes, Messages, Stopped, Opening, Starting,
    Still, FullStops, Stopping, DmaInMemory, MainPlaces, StatePlaces, Mic, Loaded, CalmInv,
    Buffers, Handler, Where, Answered, Files, Closing, Filming, AloneInv, NoHandler

-----------------------------------------------------------------------------
(* The waits for the audio task: each action keeps Stops.                   *)

LEMMA SinceFacts ==
  ASSUME NEW w, NEW c \in Nat, NEW n \in {0, 1}
  PROVE  /\ Since(w, c, n) \in Nat
         /\ Since(w, c, n) <= c + n
         /\ ~w => Since(w, c, n) = 0
BY EndsAssumption DEF Since

(* What a step in which n buffers end does to those who wait                *)
Waiters(n) ==
  /\ mpc' = "stopAudio" /\ got' = "none" =>
       /\ Asked'
       /\ mpc = "stopAudio" => got = "none" /\ dma' + n <= dma
  /\ spc' = "fullAudio" =>
       /\ Asked'
       /\ spc = "fullAudio" => dma' + n <= dma
       /\ mpc' = "stopEnc" => spc = "fullAudio" \/ mpc # "stopEnc"

LEMMA RunsOut ==
  ASSUME NEW d \in Nat, NEW d1 \in Nat, NEW e \in Nat, NEW e1 \in Nat, NEW n \in Nat,
         d1 + n <= d, d + e <= 2, e1 <= e + n
  PROVE  d1 + e1 <= 2
OBVIOUS

LEMMA Waited ==
  ASSUME RecTypes, RecTypes', Stops, NEW n \in {0, 1}, Waiting(n), Waiters(n)
  PROVE  Stops'
<1> DEFINE w == mpc' = mpc /\ mpc \in {"startAudio", "stopAudio"}
           v == spc' = spc /\ spc = "fullAudio"
<1>1. /\ ends'.main = Since(w, ends.main, n) /\ ends'.full = Since(v, ends.full, n)
      /\ n \in Nat
  BY DEF Waiting
<1>2. ends.main \in Nat /\ ends.full \in Nat /\ dma \in Nat /\ dma' \in Nat /\ dma' <= 2
  BY DEF Stops, RecTypes
<1> HIDE DEF w, v
<1>3. /\ ends'.main \in Nat /\ ends'.main <= ends.main + n
      /\ ends'.full \in Nat /\ ends'.full <= ends.full + n
  BY <1>1, <1>2, SinceFacts
<1>6. (~w => ends'.main = 0) /\ (~v => ends'.full = 0)
  BY <1>1, <1>2, SinceFacts
<1>4. ASSUME mpc' = "stopAudio", got' = "none" PROVE dma' + ends'.main <= 2 /\ Asked'
  <2>1. CASE mpc = "stopAudio"
    <3>1. dma' + n <= dma /\ dma + ends.main <= 2 /\ Asked'
      BY <1>4, <2>1 DEF Waiters, Stops
    <3> QED
      BY <1>1, <1>2, <1>3, <3>1, RunsOut
  <2>2. CASE mpc # "stopAudio"
    BY <1>2, <1>6, <1>4, <2>2 DEF Waiters, w
  <2> QED
    BY <2>1, <2>2
<1>5. ASSUME spc' = "fullAudio" PROVE dma' + ends'.full <= 2 /\ Asked'
  <2>1. CASE spc = "fullAudio"
    <3>1. dma' + n <= dma /\ dma + ends.full <= 2 /\ Asked'
      BY <1>5, <2>1 DEF Waiters, Stops
    <3> QED
      BY <1>1, <1>2, <1>3, <3>1, RunsOut
  <2>2. CASE spc # "fullAudio"
    BY <1>2, <1>6, <1>5, <2>2 DEF Waiters, v
  <2> QED
    BY <2>1, <2>2
<1>7. mpc' = "stopEnc" /\ spc' = "fullAudio" => ~older'
  BY DEF Waiters, Waiting, Stops
<1> QED
  BY <1>3, <1>4, <1>5, <1>7 DEF Stops

LEMMA DmaDoneWaits == ASSUME RecInv, Stops, DmaDone PROVE Waiters(1)
<1>1. /\ dma' = dma - 1 /\ dma \in 1..2 /\ PostAud("DONE") /\ UNCHANGED <<mpc, spc, got, bStop>>
      /\ audq \in Seq({"START", "DONE", "STOPING", "STOP"})
  BY DEF DmaDone, RecInv, RecTypes, QueueTypes, mainVars, boxVars, stateVars
<1>2. audq' \in {audq, Append(audq, "DONE")}
  BY <1>1 DEF PostAud
<1>3. audq # <<>> => audq' # <<>> /\ Head(audq') = Head(audq)
  BY <1>1, <1>2
<1>4. Asked => Asked'
  BY <1>1, <1>3 DEF Asked
<1>5. dma' + 1 <= dma
  BY <1>1
<1> QED
  BY <1>1, <1>4, <1>5 DEF Waiters, Stops

LEMMA AudioWaits == ASSUME RecInv, Stops, Audio PROVE Waiters(0)
<1>1. dma \in 0..2 /\ QueueTypes /\ Messages
  BY DEF RecInv, RecTypes
<1>2. CASE AudioStart
  <2>1. audq # <<>> /\ Head(audq) = "START" /\ UNCHANGED mpc /\ (spc' = "fullAudio" => spc = "fullAudio")
    BY <1>2 DEF AudioStart, AudioMay, AckAud, mainVars
  <2>2. mpc = "startAudio"
    BY <1>1, <2>1, AudioFinds
  <2>3. spc = "idle"
    BY <2>2 DEF RecInv, Opening, Stopped
  <2> QED
    BY <2>1, <2>2, <2>3 DEF Waiters
<1>3. CASE AudioStoping
  BY <1>1, <1>3 DEF AudioStoping, Waiters, Stops, Asked, mainVars, boxVars, stateVars
<1>4. CASE AudioDone
  <2>1. /\ Head(audq) = "DONE" /\ UNCHANGED <<mpc, got, spc, bStop>> /\ Rearm
    BY <1>4 DEF AudioDone, AudioMay, mainVars, boxVars
  <2>2. Asked => bStop
    BY <2>1 DEF Asked
  <2>3. bStop => dma' = dma /\ Asked'
    BY <2>1 DEF Rearm, Asked
  <2> QED
    BY <1>1, <2>1, <2>2, <2>3 DEF Waiters, Stops
<1>5. CASE AudioStop
  <2>1. /\ Head(audq) = "STOP" /\ UNCHANGED <<mpc, bStop>> /\ dma' = 0
        /\ spc' = "fullAudio" => spc = "fullAudio"
        /\ mpc = "stopAudio" /\ got' = "none" => got = "none"
    BY <1>5 DEF AudioStop, AudioMay, AckAud, mainVars, boxVars
  <2>2. Asked => Asked'
    BY <2>1 DEF Asked
  <2> QED
    BY <1>1, <2>1, <2>2 DEF Waiters, Stops
<1> QED
  BY <1>2, <1>3, <1>4, <1>5 DEF Audio

LEMMA PackerWaits == ASSUME RecInv, Stops, PackerStop \/ PackerError PROVE Waiters(0)
<1>1. dma \in 0..2
  BY DEF RecInv, RecTypes
<1>2. UNCHANGED <<mpc, got, spc, audq, bStop, dma>>
  BY DEF PackerStop, PackerError, mainVars, boxVars, stateVars, audioVars
<1> QED
  BY <1>1, <1>2 DEF Waiters, Stops, Asked

LEMMA StateWaits == ASSUME RecInv, Stops, State PROVE Waiters(0)
<1>1. dma \in 0..2 /\ audq \in Seq({"START", "DONE", "STOPING", "STOP"}) /\ QueueTypes
  BY DEF RecInv, RecTypes, QueueTypes
<1>2. CASE FullBegin
  <2>1. /\ spc = "idle" /\ encq # <<>> /\ Head(encq) = "FULL" /\ audq = <<>> /\ PostAud("STOPING")
        /\ UNCHANGED <<mpc, got, dma>>
    BY <1>2 DEF FullBegin, StateMay, StateMayRun, mainVars
  <2>2. audq' = <<"STOPING">>
    BY <1>1, <2>1, AudPosts
  <2>3. Asked'
    BY <2>2 DEF Asked
  <2>4. mpc # "stopEnc"
    BY <2>1 DEF RecInv, Stopping
  <2> QED
    BY <1>1, <2>1, <2>3, <2>4 DEF Waiters
<1>3. CASE FullTimeout
  BY <1>1, <1>3 DEF FullTimeout, Waiters, Stops, Asked, mainVars, boxVars
<1>4. CASE EncStart \/ EncStop \/ EncCapture
  <2>1. /\ UNCHANGED <<mpc, spc, audq, bStop, dma>>
        /\ mpc = "stopAudio" => UNCHANGED got
    BY <1>4 DEF EncStart, EncStop, EncCapture, AckEnc, mainVars, boxVars, audioVars
  <2> QED
    BY <1>1, <2>1 DEF Waiters, Stops, Asked
<1>5. CASE EncFrame \/ FullClose \/ FullClosing \/ FullEnd
  <2>1. /\ UNCHANGED <<mpc, got, audq, bStop, dma>> /\ (spc' = "fullAudio" => spc = "fullAudio")
    BY <1>5 DEF EncFrame, FullClose, FullClosing, FullEnd, mainVars, boxVars, audioVars
  <2> QED
    BY <1>1, <2>1 DEF Waiters, Stops, Asked
<1> QED
  BY <1>2, <1>3, <1>4, <1>5 DEF State

(* vid_stop asks the audio task                                             *)
LEMMA VidStopWaits == ASSUME RecInv, Stops, Main("idle"), VidStop, UNCHANGED spc PROVE Waiters(0)
<1>1. dma \in 0..2 /\ QueueTypes /\ mpc = "idle" /\ audq = <<>>
  BY DEF RecInv, RecTypes, Main, MainMayRun
<1>2. CASE "START" \in status /\ "AUDIO" \in status
  <2>1. mpc' = "stopAudio" /\ PostAud("STOPING") /\ UNCHANGED <<dma, bStop>>
    BY <1>2 DEF VidStop, AskAud
  <2>2. audq' = <<"STOPING">>
    BY <1>1, <2>1, AudPosts
  <2>3. Asked'
    BY <2>2 DEF Asked
  <2> QED
    BY <1>1, <2>1, <2>3 DEF Waiters
<1>3. CASE ~("START" \in status /\ "AUDIO" \in status)
  <2>1. mpc' # "stopAudio" /\ UNCHANGED <<audq, bStop, dma>>
    BY <1>3 DEF VidStop, StopEncode, StopPacker, audioVars
  <2> QED
    BY <1>1, <2>1 DEF Waiters, Stops, Asked
<1> QED
  BY <1>2, <1>3

LEMMA MainWaits == ASSUME RecInv, Stops, MainTask \/ Keys PROVE Waiters(0)
<1>1. dma \in 0..2 /\ QueueTypes
  BY DEF RecInv, RecTypes
<1>2. CASE MainRestart \/ MainStop
  BY <1>2, VidStopWaits DEF MainRestart, MainStop, Main, VidStop, StopEncode, AskEnc, stateVars
<1>3. CASE MainSetPacker
  <2>1. mpc = "setPacker" /\ "START" \notin status /\ spc = "idle"
    BY <1>3 DEF MainSetPacker, Main, RecInv, Opening, Stopped
  <2>2. mpc' # "stopAudio" /\ spc' = spc
    BY <1>3 DEF MainSetPacker, AskEncode, AskEnc, stateVars
  <2> QED
    BY <2>1, <2>2 DEF Waiters
<1>4. CASE \/ MainStart \/ MainStartAudio \/ MainSetAudio \/ MainStartEnc \/ MainSetStart \/ MainStopAudio
           \/ MainClrAudio \/ MainStopEnc \/ MainClrStart
  <2>1. mpc' # "stopAudio" /\ UNCHANGED <<spc, audq, bStop, dma>>
    <3>1. CASE MainStart \/ MainStartAudio \/ MainSetAudio \/ MainStartEnc \/ MainSetStart
      BY <3>1 DEF MainStart, StartRefused, StartOpened, MainStartAudio, MainSetAudio, MainStartEnc,
          MainSetStart, Acked, StartFailed, AskEncode, AskEnc, stateVars, audioVars
    <3>2. CASE MainStopAudio \/ MainClrAudio \/ MainStopEnc \/ MainClrStart
      BY <3>2 DEF MainStopAudio, MainClrAudio, MainStopEnc, MainClrStart, Acked, StopEncode, StopPacker,
          AskEnc, stateVars, audioVars
    <3> QED
      BY <1>4, <3>1, <3>2
  <2> QED
    BY <1>1, <2>1 DEF Waiters, Stops, Asked
<1>5. CASE \/ MainClose \/ MainClosing \/ MainCloseFile \/ MainClrPacker \/ MainStopEnd \/ MainPowerOff
           \/ MainCaptured \/ MainRecord \/ MainIdleOff \/ MainCapture
  <2>1. /\ mpc \notin {"stopAudio"} /\ mpc' # "stopAudio" /\ UNCHANGED <<audq, bStop, dma>>
        /\ spc' = "fullAudio" => spc = "fullAudio"
    BY <1>5 DEF MainClose, MainClosing, MainCloseFile, MainClrPacker, MainStopEnd, MainPowerOff,
        MainCaptured, MainRecord, MainIdleOff, MainCapture, Main, stateVars, audioVars
  <2> QED
    BY <1>1, <2>1 DEF Waiters, Stops, Asked
<1> QED
  BY <1>2, <1>3, <1>4, <1>5 DEF MainTask, Keys

-----------------------------------------------------------------------------
(* The invariants hold at the start, and steps keep them.                  *)

LEMMA AtTheStart == ASSUME Init PROVE RecInv /\ Stops /\ CalmInv /\ AtRest /\ AloneInv
<1> USE DEF Init
<1>1. RecInv /\ Stops
  BY DEF RecInv, RecTypes, QueueTypes, Messages, Stopped, Opening, Starting, Live, Told, Muted, Still,
      FullStops, Stopping, DmaInMemory, MainPlaces, StatePlaces, Stops
<1>2. CalmInv
  BY DEF CalmInv, Buffers, Handler, Where, Answered, Files, Closing, Filming
<1>3. AtRest /\ AloneInv
  BY DEF AtRest, AloneInv, NoHandler
<1> QED
  BY <1>1, <1>2, <1>3

(* What stays as it is                                                     *)
LEMMA Stutters ==
  ASSUME UNCHANGED vars
  PROVE  /\ RecInv => RecInv'
         /\ Stops => Stops'
         /\ CalmInv => CalmInv'
         /\ AtRest => AtRest'
         /\ AloneInv => AloneInv'
<1> USE DEF vars, mainVars, flagVars, boxVars, stateVars, audioVars, packVars, fileVars, pastVars
<1>1. RecInv => RecInv'
  BY DEF RecInv, RecTypes, QueueTypes, Messages, Stopped, Opening, Starting, Live, Told, Muted, Still,
      FullStops, Stopping, DmaInMemory, Mic, Loaded
<1>2. CalmInv => CalmInv'
  BY DEF CalmInv, Buffers, Handler, Where, Answered, Files, Closing, Filming
<1>3. (AtRest => AtRest') /\ (AloneInv => AloneInv') /\ (Stops => Stops')
  BY DEF AtRest, AloneInv, NoHandler, Stops, Asked
<1> QED
  BY <1>1, <1>2, <1>3

(* A behaviour keeps its faults, and what has been crossed.                *)
LEMMA SameFaults == ASSUME [Next]_vars PROVE Kept
<1>1. CASE UNCHANGED vars
  BY <1>1 DEF Kept, vars, pastVars
<1>2. CASE faults' = faults /\ (Waiting(0) \/ Waiting(1))
  BY <1>2 DEF Kept, Waiting
<1> QED
  BY <1>1, <1>2 DEF Next, Step

LEMMA Crossing ==
  ASSUME FullEnd, Waiting(0)
  PROVE  /\ mpc \in Updates \/ got # "none" => crossed'
         /\ ~crossed' => mpc \notin Updates /\ got = "none"
BY DEF FullEnd, Waiting

(* The status word and main's copy of it                                    *)
BitTypes == status \subseteq Bits /\ mtmp \subseteq Bits

LEMMA BitSteps == ASSUME BitTypes, [Next]_vars PROVE BitTypes'
<1> USE DEF BitTypes, mainVars
<1>1. CASE DmaDone \/ Audio \/ PackerStop \/ PackerError
  BY <1>1 DEF DmaDone, Audio, AudioStart, AudioStoping, AudioDone, AudioStop, PackerStop, PackerError
<1>2. CASE State
  BY <1>2 DEF State, EncStart, EncStop, EncCapture, EncFrame, FullBegin, FullTimeout, FullClose,
      FullClosing, FullEnd
<1>3. CASE MainStart \/ MainSetPacker \/ MainStartAudio \/ MainSetAudio \/ MainStartEnc \/ MainSetStart
  BY <1>3 DEF Bits, MainStart, StartRefused, StartOpened, MainSetPacker, MainStartAudio, MainSetAudio,
      MainStartEnc, MainSetStart, Acked, StartFailed
<1>4. CASE MainStopAudio \/ MainClrAudio \/ MainStopEnc \/ MainClrStart \/ MainCloseFile \/ MainClrPacker
  BY <1>4 DEF MainStopAudio, MainClrAudio, MainStopEnc, MainClrStart, MainCloseFile, MainClrPacker, Acked
<1>5. CASE \/ MainClose \/ MainClosing \/ MainStopEnd \/ MainPowerOff \/ MainRestart \/ MainCaptured
           \/ MainStop \/ MainRecord \/ MainIdleOff \/ MainCapture
  BY <1>5 DEF MainClose, MainClosing, MainStopEnd, MainPowerOff, MainRestart, MainCaptured, MainStop,
      MainRecord, MainIdleOff, MainCapture
<1>6. CASE UNCHANGED vars
  BY <1>6 DEF vars
<1> QED
  BY <1>1, <1>2, <1>3, <1>4, <1>5, <1>6 DEF Next, Step, MainTask, Keys

LEMMA Steps == ASSUME RecInv, Stops, [Next]_vars PROVE RecInv'
<1> Kept
  BY SameFaults
<1>1. CASE DmaDone \/ Audio
  BY <1>1, DmaDoneKeeps, AudioStartKeeps, AudioStopingKeeps, AudioDoneKeeps, AudioStopKeeps DEF Audio
<1>2. CASE PackerStop \/ PackerError
  BY <1>2, PackerStopKeeps, PackerErrorKeeps
<1>3. CASE State /\ Waiting(0)
  BY <1>3, EncStartKeeps, EncStopKeeps, EncCaptureKeeps, EncFrameKeeps, FullBeginKeeps,
      FullTimeoutKeeps, FullCloseKeeps, FullClosingKeeps, FullEndKeeps, Crossing DEF State
<1>4. CASE MainTask
  BY <1>4, MainStartKeeps, MainSetPackerKeeps, MainStartAudioKeeps, MainSetAudioKeeps,
      MainStartEncKeeps, MainSetStartKeeps, MainStopAudioKeeps, MainClrAudioKeeps, MainStopEncKeeps,
      MainClrStartKeeps, MainCloseKeeps, MainClosingKeeps, MainCloseFileKeeps, MainClrPackerKeeps,
      MainStopEndKeeps, MainPowerOffKeeps, MainRestartKeeps, MainCapturedKeeps DEF MainTask
<1>5. CASE Keys
  BY <1>5, MainStopKeeps, MainRecordKeeps, MainIdleOffKeeps, MainCaptureKeeps DEF Keys
<1> QED
  BY <1>1, <1>2, <1>3, <1>4, <1>5, Stutters DEF Next, Step

LEMMA StopsSteps == ASSUME RecInv, Stops, [Next]_vars PROVE Stops'
<1>1. RecTypes /\ RecTypes'
  BY Steps DEF RecInv
<1>2. CASE Step(DmaDone, 1)
  <2>1. Waiting(1) /\ Waiters(1)
    BY <1>2, DmaDoneWaits DEF Step
  <2> QED
    BY <1>1, <2>1, Waited
<1>3. CASE Waiting(0) /\ (Audio \/ PackerStop \/ PackerError \/ State \/ MainTask \/ Keys)
  <2>1. Waiters(0)
    BY <1>3, AudioWaits, PackerWaits, StateWaits, MainWaits
  <2> QED
    BY <1>1, <1>3, <2>1, Waited
<1> QED
  BY <1>2, <1>3, Stutters DEF Next, Step

LEMMA CalmSteps ==
  ASSUME RecInv, Stops, CalmInv, RoomForTwo, "late" \notin faults, ~crossed', [Next]_vars
  PROVE  CalmInv'
<1> Kept /\ ~crossed
  BY SameFaults DEF Kept
<1>1. CASE DmaDone \/ Audio
  BY <1>1, DmaDoneCalm, AudioStartCalm, AudioStopingCalm, AudioDoneCalm, AudioStopCalm DEF Audio
<1>2. CASE PackerStop \/ PackerError
  BY <1>2, PackerStopCalm, PackerErrorCalm
<1>3. CASE State /\ Waiting(0)
  BY <1>3, EncStartCalm, EncStopCalm, EncCaptureCalm, EncFrameCalm, FullBeginCalm,
      FullTimeoutCalm, FullCloseCalm, FullClosingCalm, FullEndCalm, Crossing DEF State
<1>4. CASE MainTask
  BY <1>4, MainStartCalm, MainSetPackerCalm, MainStartAudioCalm, MainSetAudioCalm,
      MainStartEncCalm, MainSetStartCalm, MainStopAudioCalm, MainClrAudioCalm, MainStopEncCalm,
      MainClrStartCalm, MainCloseCalm, MainClosingCalm, MainCloseFileCalm, MainClrPackerCalm,
      MainStopEndCalm, MainPowerOffCalm, MainRestartCalm, MainCapturedCalm DEF MainTask
<1>5. CASE Keys
  BY <1>5, MainStopCalm, MainRecordCalm, MainIdleOffCalm, MainCaptureCalm DEF Keys
<1> QED
  BY <1>1, <1>2, <1>3, <1>4, <1>5, Stutters DEF Next, Step

LEMMA RestSteps ==
  ASSUME RecInv, Stops, CalmInv, RoomForTwo, AtRest, Only({"full", "error"}), ~crossed', [Next]_vars
  PROVE  AtRest'
<1> Kept /\ ~crossed
  BY SameFaults DEF Kept
<1>1. CASE DmaDone \/ Audio
  BY <1>1, DmaDoneAtRest, AudioStartAtRest, AudioStopingAtRest, AudioDoneAtRest, AudioStopAtRest DEF Audio
<1>2. CASE PackerStop \/ PackerError
  BY <1>2, PackerStopAtRest, PackerErrorAtRest
<1>3. CASE State /\ Waiting(0)
  BY <1>3, EncStartAtRest, EncStopAtRest, EncCaptureAtRest, EncFrameAtRest, FullBeginAtRest,
      FullTimeoutAtRest, FullCloseAtRest, FullClosingAtRest, FullEndAtRest, Crossing DEF State
<1>4. CASE MainTask
  BY <1>4, MainStartAtRest, MainSetPackerAtRest, MainStartAudioAtRest, MainSetAudioAtRest,
      MainStartEncAtRest, MainSetStartAtRest, MainStopAudioAtRest, MainClrAudioAtRest, MainStopEncAtRest,
      MainClrStartAtRest, MainCloseAtRest, MainClosingAtRest, MainCloseFileAtRest, MainClrPackerAtRest,
      MainStopEndAtRest, MainPowerOffAtRest, MainRestartAtRest, MainCapturedAtRest DEF MainTask
<1>5. CASE Keys
  BY <1>5, MainStopAtRest, MainRecordAtRest, MainIdleOffAtRest, MainCaptureAtRest DEF Keys
<1> QED
  BY <1>1, <1>2, <1>3, <1>4, <1>5, Stutters DEF Next, Step

LEMMA AloneSteps ==
  ASSUME RecInv, Stops, CalmInv, RoomForTwo, AloneInv, Only({"error", "audio", "open"}), ~crossed,
         [Next]_vars
  PROVE  AloneInv' /\ ~crossed'
<1> Kept
  BY SameFaults
<1>0. ~crossed'
  BY DEF AloneInv, NoHandler, Next, Step, Waiting, vars, pastVars
<1>1. CASE DmaDone \/ Audio
  BY <1>0, <1>1, DmaDoneAlone, AudioStartAlone, AudioStopingAlone, AudioDoneAlone, AudioStopAlone DEF Audio
<1>2. CASE PackerStop \/ PackerError
  BY <1>0, <1>2, PackerStopAlone, PackerErrorAlone
<1>3. CASE State /\ Waiting(0)
  BY <1>0, <1>3, EncStartAlone, EncStopAlone, EncCaptureAlone, EncFrameAlone, FullBeginAlone,
      FullTimeoutAlone, FullCloseAlone, FullClosingAlone, FullEndAlone DEF State
<1>4. CASE MainTask
  BY <1>0, <1>4, MainStartAlone, MainSetPackerAlone, MainStartAudioAlone, MainSetAudioAlone,
      MainStartEncAlone, MainSetStartAlone, MainStopAudioAlone, MainClrAudioAlone, MainStopEncAlone,
      MainClrStartAlone, MainCloseAlone, MainClosingAlone, MainCloseFileAlone, MainClrPackerAlone,
      MainStopEndAlone, MainPowerOffAlone, MainRestartAlone, MainCapturedAlone DEF MainTask
<1>5. CASE Keys
  BY <1>0, <1>5, MainStopAlone, MainRecordAlone, MainIdleOffAlone, MainCaptureAlone DEF Keys
<1> QED
  BY <1>0, <1>1, <1>2, <1>3, <1>4, <1>5, Stutters DEF Next, Step

-----------------------------------------------------------------------------
(* The theorems.                                                           *)

(* In every behaviour, whatever fails and however long the queues are, the words, the
   queues, the acknowledgements and the places of the four tasks fit together (RecInv),
   and whoever waits for the audio task has asked it to stop, and waits longer than its
   DMA can go on (Stops). *)
THEOREM RecorderInvariant == Spec => [](RecInv /\ Stops)
<1>1. Init => RecInv /\ Stops
  BY AtTheStart
<1>2. RecInv /\ Stops /\ [Next]_vars => RecInv' /\ Stops'
  BY Steps, StopsSteps
<1> QED
  BY <1>1, <1>2, PTL DEF Spec

(* The status word and main's copy of it hold the four bits and nothing else. *)
THEOREM BitInvariant == Spec => []BitTypes
<1>1. Init => BitTypes
  BY DEF Init, BitTypes, Bits
<1>2. BitTypes /\ [Next]_vars => BitTypes'
  BY BitSteps
<1> QED
  BY <1>1, <1>2, PTL DEF Spec

(* The audio DMA is never armed when avi_audio_memory_free has given the PCM buffers
   back, although both callers of avi_audio_record_stop free them after a time-out
   without a look at the DMA: two buffers end sooner than OSMboxPend does. *)
THEOREM DmaAlwaysInMemory == Spec => []DmaInMemory
<1>1. RecInv => DmaInMemory
  BY DEF RecInv
<1> QED
  BY <1>1, RecorderInvariant, PTL

(* Whenever the main loop believes that it records, after any stops, starts, failures
   and full cards that have not crossed one of main's stores: the packer takes data for
   an open file or the loop knows that a write has failed, the bits of vid_stop are set,
   and the audio task has its buffers, no request to stop, and an armed DMA unless it
   has come late for one. *)
THEOREM RecordingAlwaysReal == Spec => []RecordingIsReal
<1>1. RecInv => RecordingIsReal
  BY DEF RecInv, RecTypes, Live, Told, Mic, RecordingIsReal, Idle
<1> QED
  BY <1>1, RecorderInvariant, PTL

(* The acknowledgement that vid_start or vid_stop takes is the one of the request it has
   made: no older answer and no answer meant for the state task gets there. *)
THEOREM AckAlwaysMine == Spec => []AckIsMine
<1>1. RecInv => AckIsMine
  BY DEF RecInv, Opening, Starting, Stopping, AckIsMine
<1> QED
  BY <1>1, RecorderInvariant, PTL

CalmSoFar == "late" \notin faults /\ ~crossed => CalmInv

(* While the audio task answers the DMA in time and the storage-full handler has not
   crossed a store of main, the second invariant holds as well. *)
THEOREM CalmInvariant ==
  ASSUME RoomForTwo
  PROVE  Spec => []CalmSoFar
<1>1. Init => CalmSoFar
  BY AtTheStart DEF CalmSoFar
<1>2. RecInv /\ Stops /\ CalmSoFar /\ [Next]_vars => CalmSoFar'
  BY CalmSteps, SameFaults DEF CalmSoFar, Kept
<1> QED
  BY <1>1, <1>2, RecorderInvariant, PTL DEF Spec

(* Back in photo mode, or stopped by a full card, nothing of the recording is left: no
   bit, file or buffer that would refuse a later vid_start.  Only the card and the
   writes fail, and the storage-full handler has not crossed a store of main.  Two
   messages have to fit into the queue of the audio task. *)
THEOREM NothingEverLeft ==
  ASSUME RoomForTwo
  PROVE  Spec => []NothingLeft
<1> DEFINE Rest == Only({"full", "error"}) /\ ~crossed => AtRest
<1>1. Init => Rest
  BY AtTheStart
<1>2. RecInv /\ Stops /\ CalmSoFar /\ Rest /\ [Next]_vars => Rest'
  <2> SUFFICES ASSUME RecInv, Stops, CalmSoFar, Rest, [Next]_vars,
                      Only({"full", "error"})', ~crossed'
               PROVE  AtRest'
    OBVIOUS
  <2>1. Only({"full", "error"}) /\ "late" \notin faults /\ ~crossed
    BY SameFaults DEF Only, Kept
  <2> QED
    BY <2>1, RestSteps DEF CalmSoFar
<1>3. RecInv /\ BitTypes /\ CalmSoFar /\ Rest => NothingLeft
  <2> SUFFICES ASSUME RecInv, BitTypes, CalmSoFar, Rest,
                      Only({"full", "error"}), ~crossed, Idle,
                      mode = "jpeg" \/ (mode = "avi" /\ "START" \notin status)
               PROVE  /\ packer = "closed" /\ opened = {}
                      /\ status \subseteq {"VIDEO"}
                      /\ ~mem /\ dma = 0
    BY DEF NothingLeft
  <2>1. CalmInv /\ AtRest /\ mpc = "idle" /\ spc = "idle"
    BY DEF Only, Idle, CalmSoFar
  <2>2. "START" \notin status
    BY <2>1 DEF CalmInv, Where
  <2>3. packer = "closed" /\ "PACKER" \notin status
    BY <2>1, <2>2 DEF AtRest
  <2>4. "AUDIO" \notin status /\ dma = 0 /\ audq = <<>>
    BY <2>1, <2>2 DEF RecInv, Stopped
  <2>5. ~mem
    BY <2>1, <2>4 DEF CalmInv, Buffers
  <2>6. opened = {}
    BY <2>1, <2>2 DEF CalmInv, Files, Filming
  <2> QED
    BY <2>2, <2>3, <2>4, <2>5, <2>6 DEF BitTypes, Bits
<1> QED
  BY <1>1, <1>2, <1>3, RecorderInvariant, BitInvariant, CalmInvariant, PTL DEF Spec

(* As long as the card does not fill up and the audio task is in time, no file handle is
   closed twice: no storage-full handler runs beside vid_stop, nothing is crossed. *)
THEOREM AlwaysClosedOnce ==
  ASSUME RoomForTwo
  PROVE  Spec => []ClosedOnce
<1> DEFINE Alone == Only({"error", "audio", "open"}) => AloneInv /\ ~crossed
<1>1. Init => Alone
  BY AtTheStart DEF Init
<1>2. RecInv /\ Stops /\ CalmSoFar /\ Alone /\ [Next]_vars => Alone'
  <2> SUFFICES ASSUME RecInv, Stops, CalmSoFar, Alone, [Next]_vars,
                      Only({"error", "audio", "open"})'
               PROVE  AloneInv' /\ ~crossed'
    OBVIOUS
  <2>1. Only({"error", "audio", "open"}) /\ "late" \notin faults
    BY SameFaults DEF Only, Kept
  <2> QED
    BY <2>1, AloneSteps DEF CalmSoFar
<1>3. Alone => ClosedOnce
  BY DEF ClosedOnce, AloneInv
<1> QED
  BY <1>1, <1>2, <1>3, RecorderInvariant, CalmInvariant, PTL DEF Spec

=============================================================================
