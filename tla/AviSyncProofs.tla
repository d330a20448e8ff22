--------------------------- MODULE AviSyncProofs ---------------------------
(***************************************************************************)
(* Proofs about the encoder's clock and its frames: at most one frame is   *)
(* asked for and the counters say so, video does not run ahead of audio,   *)
(* and a frame is put into the file once, and whole unless another is      *)
(* published between two accesses of the state task.                       *)
(***************************************************************************)
EXTENDS AviSync, FiniteSetTheorems, TLAPS

-----------------------------------------------------------------------------
(* What the counters of the clock rest on.                                 *)

(* Nobody calls avi_enc_pause, as nobody in the program does: the status it *)
(* sets outlives the recording that the storage-full handler ends while    *)
(* the pause is on its way, the next recording is then resumed before it   *)
(* is stopped, and that resets the counters in the middle of a frame.      *)
NoPause == "PAUSE" \notin Calls

(* A request of main and one for a frame fit into the queue.               *)
RoomForTwo == QMax >= 2

Messages == {"START", "STOP", "ONE", "FULL"}
Requests == {"START", "STOP"}
Filled == {"full", "fullvideo"}
Serves == {"count", "lock", "setlock", "frame", "size", "put", "clear1", "clear2", "unlock", "refund",
           "null", "nullcount", "nullput", "nullrefund", "finish"}

Has(m) == \E k \in 1..Len(q) : q[k] = m
Flying == Has("ONE") \/ spc \in Serves

SyncTypes ==
  /\ tv \in Nat /\ ta \in Nat /\ Tv \in Nat
  /\ post_cnt \in 0..(CntMod - 1) /\ pend_cnt \in 0..(CntMod - 1)
  /\ q \in Seq(Messages) /\ ack \in BOOLEAN
  /\ timerOn \in BOOLEAN /\ micOn \in BOOLEAN /\ open \in BOOLEAN /\ audioOn \in BOOLEAN
  /\ status \subseteq {"START", "VID"}
  /\ spc \in {"idle"} \cup Filled \cup Serves /\ apc \in {"idle", "put"}
  /\ mpc \in {"idle", "START", "STOP"}

(* One request for a frame and one of main at most, and no request for a   *)
(* frame behind "full".                                                    *)
Order ==
  /\ \A j, k \in 1..Len(q) : q[j] = "ONE" /\ q[k] = "ONE" => j = k
  /\ \A j, k \in 1..Len(q) : q[j] \in Requests /\ q[k] \in Requests => j = k
  /\ \A j, k \in 1..Len(q) : q[j] = "FULL" /\ j < k => q[k] # "ONE"

(* A request is the one main waits for; a frame waits only when none is    *)
(* served; after "full" the timer is off; and a request to start stands    *)
(* alone.                                                                  *)
Alone ==
  /\ \A r \in Requests : Has(r) => r = mpc /\ ~ack
  /\ Has("ONE") => spc = "idle"
  /\ Has("FULL") \/ spc \in Filled => ~timerOn
  /\ Has("START") => /\ ~timerOn /\ ~micOn /\ open /\ ~Has("ONE") /\ spc \notin Serves
                     /\ spc = "idle" => ~Has("FULL")

(* When timer, microphone and audio task are off.  A recording can be      *)
(* started, and audioOn set, while the state task is about to close the    *)
(* last one and to throw the request away.                                 *)
Switches ==
  /\ ~open => ~timerOn /\ ~micOn /\ apc = "idle"
  /\ mpc = "STOP" => ~audioOn /\ (ack => ~timerOn /\ ~micOn)
  /\ apc = "put" => audioOn
  /\ spc = "fullvideo" => apc = "idle" /\ (audioOn => ~micOn)

Succ(c) == (c + 1) % CntMod
Counted == post_cnt = IF Flying THEN Succ(pend_cnt) ELSE pend_cnt

SyncInv == SyncTypes /\ Order /\ Alone /\ Switches /\ Counted

(* The clocks: the interrupt holds tv back, and Tv follows a frame that    *)
(* was asked for when tv was ahead of it.                                  *)
Clocks ==
  /\ Audio => tv < ta + DeltaTa + Tick /\ Tv < ta + DeltaTa + Tick + DeltaTv
  /\ Flying => Tv < tv

-----------------------------------------------------------------------------
(* What the frames rest on.                                                *)

Some == Buffers \cup {NoBuffer}

FrameTypes ==
  /\ ready_frame \in Some /\ lock \in Some /\ vbuf \in Some /\ frame \in Some /\ vidx \in Buffers
  /\ bufSize \in [Buffers -> Nat] /\ taken \in [Buffers -> BOOLEAN] /\ raced \subseteq MidAccess
  /\ spc \in {"idle"} \cup Filled \cup Serves

(* Where the lock is set, and where there is a frame.                      *)
Hands ==
  /\ vbuf # NoBuffer => vidx = NextBuffer(vbuf)
  /\ spc \notin {"frame", "size", "put", "clear1", "clear2", "unlock"} => lock = NoBuffer
  /\ spc \in {"count", "lock", "setlock", "frame", "size"} => ready_frame # NoBuffer

(* The published frame is new; it is whole, and nobody is about to encode  *)
(* into it, unless it was published between two accesses.                  *)
Published ==
  spc \notin {"put", "clear1"} /\ ready_frame # NoBuffer =>
    /\ ~taken[ready_frame]
    /\ raced = {} => /\ ready_size = bufSize[ready_frame]
                     /\ vbuf # ready_frame /\ (vbuf = NoBuffer => vidx # ready_frame)

(* The state task has a new frame, and, unless another was published       *)
(* between its accesses, the published one with the lock on it.            *)
InHand ==
  /\ spc \in {"size", "put"} => frame # NoBuffer /\ ~taken[frame]
  /\ "size" \in raced => spc \in {"size", "put", "clear1"}
  /\ raced \subseteq {"size"} /\ spc \in {"size", "put"} => lock = frame /\ vbuf # frame
  /\ raced = {} =>
       /\ spc = "setlock" => frame = ready_frame
       /\ spc = "frame" => lock = ready_frame
       /\ spc = "size" => frame = ready_frame
       /\ spc = "put" => size = bufSize[frame]
       /\ spc \in {"clear2", "unlock"} => ready_frame = NoBuffer

FrameInv == FrameTypes /\ Hands /\ Published /\ InHand
-----------------------------------------------------------------------------
(* The frames.                                                             *)

LEMMA NextBufferFacts ==
  ASSUME NEW b \in Buffers
  PROVE  NextBuffer(b) \in Buffers /\ NextBuffer(b) # b
<1>1. NumBuffers \in Nat /\ NumBuffers >= 2 /\ b \in 1..NumBuffers
  BY SyncAssumption DEF Buffers
<1>2. CASE b = NumBuffers
  BY <1>1, <1>2 DEF NextBuffer, Buffers
<1>3. CASE b < NumBuffers
  <2>1. b % NumBuffers = b
    BY <1>1, <1>3
  <2>2. QED
    BY <1>1, <1>3, <2>1 DEF NextBuffer, Buffers
<1>4. QED
  BY <1>1, <1>2, <1>3

(* The video task takes a buffer that is neither locked nor, when the last *)
(* frame is still published, the published one.                            *)
LEMMA PickKeepsFrames ==
  ASSUME FrameInv, VidPick
  PROVE  FrameInv'
<1>1. /\ vidx \in Buffers /\ lock \in Some /\ vbuf = NoBuffer /\ NoBuffer \notin Buffers
      /\ NextBuffer(vidx) \in Buffers /\ NextBuffer(vidx) # vidx
  BY NextBufferFacts DEF FrameInv, FrameTypes, VidPick, Buffers, NoBuffer
<1>2. /\ vbuf' \in Buffers /\ vbuf' # lock /\ vbuf' = FreeBuffer
      /\ vidx' = NextBuffer(vbuf')
  BY <1>1 DEF VidPick, FreeBuffer
<1>3. vidx' \in Buffers /\ vidx' # vbuf'
  BY <1>2, NextBufferFacts
<1>4. /\ UNCHANGED <<ready_frame, ready_size, lock, bufSize, taken, raced, spc, frame, size>>
  BY DEF VidPick, stateVars
<1>5. FrameTypes' /\ Hands'
  BY <1>1, <1>2, <1>3, <1>4 DEF FrameInv, FrameTypes, Hands, Some
<1>6. lock # NoBuffer => spc \in {"frame", "size", "put", "clear1", "clear2", "unlock"}
  BY DEF FrameInv, Hands
<1>7. Published'
  <2>1. SUFFICES ASSUME raced = {}, spc \notin {"put", "clear1"}, ready_frame # NoBuffer
                 PROVE  vbuf' # ready_frame
    BY <1>1, <1>2, <1>4 DEF FrameInv, Published
  <2>2. vidx # ready_frame
    BY <1>1, <2>1 DEF FrameInv, Published
  <2>3. vidx = lock => lock = ready_frame
    BY <1>1, <1>6, <2>1 DEF FrameInv, InHand
  <2>4. QED
    BY <1>2, <2>2, <2>3 DEF FreeBuffer
<1>8. InHand'
  BY <1>1, <1>2, <1>4 DEF FrameInv, InHand
<1>9. QED
  BY <1>5, <1>7, <1>8 DEF FrameInv

LEMMA PublishKeepsFrames ==
  ASSUME FrameInv, VidPublish
  PROVE  FrameInv'
<1>1. /\ vbuf \in Buffers /\ vidx = NextBuffer(vbuf) /\ vidx # vbuf /\ NoBuffer \notin Buffers
  BY NextBufferFacts DEF FrameInv, FrameTypes, Hands, VidPublish, Some, Buffers, NoBuffer
<1>2. /\ ready_frame' = vbuf /\ ready_size' \in Nat /\ vbuf' = NoBuffer /\ raced' = raced \cup ({spc} \cap MidAccess)
      /\ bufSize' = [bufSize EXCEPT ![vbuf] = ready_size']
      /\ taken' = [taken EXCEPT ![vbuf] = FALSE]
      /\ UNCHANGED <<lock, vidx, spc, frame, size>>
  BY SyncAssumption DEF VidPublish, stateVars
<1>3. FrameTypes' /\ Hands'
  BY <1>1, <1>2 DEF FrameInv, FrameTypes, Hands, Some, MidAccess
<1>4. bufSize'[vbuf] = ready_size' /\ ~taken'[vbuf]
  BY <1>1, <1>2 DEF FrameInv, FrameTypes
<1>5. Published'
  BY <1>1, <1>2, <1>4 DEF Published
<1>6. InHand'
  <2>1. \A b \in Buffers \ {vbuf} : bufSize'[b] = bufSize[b] /\ taken'[b] = taken[b]
    BY <1>2 DEF FrameInv, FrameTypes
  <2>2. /\ raced \subseteq raced' /\ (spc \in MidAccess => spc \in raced')
        /\ (spc \notin MidAccess => raced' = raced)
    BY <1>2
  <2>3. raced' = {} => raced = {} /\ spc \notin MidAccess
    BY <2>2
  <2>4. spc \in {"size", "put"} => frame # NoBuffer /\ ~taken[frame] /\ frame \in Buffers
    BY DEF FrameInv, FrameTypes, InHand, Some
  <2>5. spc \in {"size", "put"} => ~taken'[frame]
    BY <1>4, <2>1, <2>4
  <2>6. "size" \in raced' => spc \in {"size", "put", "clear1"}
    BY <1>2 DEF FrameInv, InHand
  <2>7. raced' \subseteq {"size"} /\ spc \in {"size", "put"} => lock = frame /\ vbuf # frame
    BY <2>2 DEF FrameInv, InHand
  <2>8. raced' = {} /\ spc = "put" => size = bufSize'[frame]
    BY <2>1, <2>3, <2>4, <2>7 DEF FrameInv, InHand
  <2>9. QED
    BY <1>1, <1>2, <2>3, <2>4, <2>5, <2>6, <2>7, <2>8 DEF InHand, MidAccess
<1>7. QED
  BY <1>3, <1>5, <1>6 DEF FrameInv

(* The state task, step by step.                                           *)
LEMMA EncodingKeepsFrames ==
  ASSUME FrameInv, EncodeOneFrame
  PROVE  FrameInv'
<1> USE DEF FrameInv, FrameTypes, Hands, Published, InHand, Serves, Filled, Some, MidAccess
<1>0. NoBuffer \notin Buffers /\ NoBuffer = NoBuffer
  BY DEF Buffers, NoBuffer
<1>1. CASE OneFrame
  BY <1>1 DEF OneFrame, StateOnly, videoVars
<1>2. CASE CountFrame
  BY <1>2 DEF CountFrame, videoVars
<1>3. CASE LockFrame
  BY <1>3 DEF LockFrame, StateOnly, videoVars
<1>4. CASE SetLock
  BY <1>4 DEF SetLock, StateOnly
<1>5. CASE TakeFrame
  BY <1>5 DEF TakeFrame, StateOnly, videoVars
<1>6. CASE TakeSize
  BY <1>0, <1>6 DEF TakeSize, StateOnly, videoVars
<1>7. CASE PutFrame
  BY <1>7 DEF PutFrame, StateOnly
<1>8. CASE ClearFrame
  BY <1>8 DEF ClearFrame, StateOnly
<1>9. CASE ClearSize
  BY <1>9 DEF ClearSize, StateOnly
<1>10. CASE UnlockFrame
  BY <1>10 DEF UnlockFrame, StateOnly
<1>11. CASE Refund \/ NullRead \/ NullCount
  BY <1>11 DEF Refund, NullRead, NullCount, StateOnly, videoVars
<1>12. CASE PutNull \/ NullRefund
  BY <1>12 DEF PutNull, NullRefund, StateOnly, videoVars
<1>13. CASE Finish
  BY <1>13 DEF Finish, Forget, StateOnly, videoVars
<1>14. QED
  BY <1>1, <1>2, <1>3, <1>4, <1>5, <1>6, <1>7, <1>8, <1>9, <1>10, <1>11, <1>12, <1>13
  DEF EncodeOneFrame

LEMMA ControlKeepsFrames ==
  ASSUME FrameInv, StartOrResume \/ StopOrPause \/ FullBegin \/ FullAudio \/ FullEnd
  PROVE  FrameInv'
<1> USE DEF FrameInv, FrameTypes, Hands, Published, InHand, Serves, Filled, Some, MidAccess
<1>1. CASE StartOrResume
  BY <1>1 DEF StartOrResume, Request, ControlOnly, stateVars
<1>2. CASE StopOrPause
  BY <1>2 DEF StopOrPause, Request, ControlOnly, stateVars
<1>3. CASE FullBegin
  BY <1>3 DEF FullBegin, Request, videoVars
<1>4. CASE FullAudio
  BY <1>4 DEF FullAudio, videoVars
<1>5. CASE FullEnd
  BY <1>5 DEF FullEnd, videoVars
<1>6. QED
  BY <1>1, <1>2, <1>3, <1>4, <1>5

(* For every size of frame, number of buffers and sequence of calls: a     *)
(* frame goes into the file once, whatever is published meanwhile; and it  *)
(* is not the one being encoded and has its own size, unless one was       *)
(* published between the accesses that FrameWhole names.                   *)
THEOREM FrameAlwaysWhole == Spec => []FrameWhole
<1>1. Init => FrameInv
  <2>1. SUFFICES ASSUME Init PROVE FrameInv
    OBVIOUS
  <2>2. 1 \in Buffers /\ NoBuffer \in Some
    BY SyncAssumption DEF Buffers, Some
  <2>3. FrameTypes
    BY <2>1, <2>2 DEF Init, FrameTypes, Some
  <2>4. Hands /\ Published /\ InHand
    BY <2>1 DEF Init, Hands, Published, InHand
  <2>5. QED
    BY <2>3, <2>4 DEF FrameInv
<1>2. FrameInv /\ [Next]_vars => FrameInv'
  <2>1. SUFFICES ASSUME FrameInv, [Next]_vars PROVE FrameInv'
    OBVIOUS
  <2>2. CASE VidPick
    BY <2>1, <2>2, PickKeepsFrames
  <2>3. CASE VidPublish
    BY <2>1, <2>3, PublishKeepsFrames
  <2>4. CASE EncodeOneFrame
    BY <2>1, <2>4, EncodingKeepsFrames
  <2>5. CASE StartOrResume \/ StopOrPause \/ FullBegin \/ FullAudio \/ FullEnd
    BY <2>1, <2>5, ControlKeepsFrames
  <2>6. CASE TimerIsr \/ AudioChunk \/ AudioPut \/ Main \/ UNCHANGED vars
    <3>1. UNCHANGED <<videoVars, stateVars>>
      BY <2>6 DEF TimerIsr, AudioChunk, AudioPut, Main, MainStopAudio, MainCall, MainAck,
         MainTimeout, vars
    <3>2. QED
      BY <2>1, <3>1 DEF FrameInv, FrameTypes, Hands, Published, InHand, videoVars, stateVars
  <2>7. QED
    BY <2>1, <2>2, <2>3, <2>4, <2>5, <2>6 DEF Next, StateTask
<1>3. FrameInv => FrameWhole
  BY DEF FrameInv, InHand, FrameWhole
<1>4. QED
  BY <1>1, <1>2, <1>3, PTL DEF Spec
-----------------------------------------------------------------------------
(* The queue and the counters.                                             *)

LEMMA SuccFacts ==
  ASSUME NEW c \in 0..(CntMod - 1)
  PROVE  Succ(c) \in 0..(CntMod - 1) /\ Succ(c) # c
<1>1. CntMod \in Nat /\ CntMod >= 2
  BY SyncAssumption
<1>2. CASE c = CntMod - 1
  BY <1>1, <1>2 DEF Succ
<1>3. CASE c # CntMod - 1
  <2>1. c + 1 \in 0..(CntMod - 1)
    BY <1>1, <1>3
  <2>2. (c + 1) % CntMod = c + 1
    BY <1>1, <2>1
  <2>3. QED
    BY <2>1, <2>2 DEF Succ
<1>4. QED
  BY <1>2, <1>3

LEMMA TailFacts ==
  ASSUME q \in Seq(Messages), q # <<>>, q' = Tail(q)
  PROVE  /\ q' \in Seq(Messages) /\ Len(q') = Len(q) - 1 /\ Len(q) >= 1
         /\ \A k \in 1..Len(q') : q'[k] = q[k + 1]
         /\ q[1] = Head(q) /\ Head(q) \in Messages
  OBVIOUS

(* What is in the queue after its head has been taken.                     *)
LEMMA TailHas ==
  ASSUME q \in Seq(Messages), q # <<>>, q' = Tail(q), NEW m
  PROVE  /\ Has(Head(q))
         /\ Has(m)' => \E k \in 1..Len(q) : k > 1 /\ q[k] = m
         /\ m # Head(q) => (Has(m) <=> Has(m)')
<1>1. /\ q' \in Seq(Messages) /\ Len(q') = Len(q) - 1 /\ Len(q) \in Nat /\ Len(q) >= 1
      /\ \A k \in 1..Len(q') : q'[k] = q[k + 1]
      /\ q[1] = Head(q)
  BY TailFacts
<1>2. \A k \in 1..Len(q) : k > 1 => q[k] = q'[k - 1] /\ k - 1 \in 1..Len(q')
  <2>1. SUFFICES ASSUME NEW k \in 1..Len(q), k > 1
                 PROVE  q[k] = q'[k - 1] /\ k - 1 \in 1..Len(q')
    OBVIOUS
  <2>2. k - 1 \in 1..Len(q')
    BY <1>1, <2>1
  <2>3. q'[k - 1] = q[(k - 1) + 1]
    BY <1>1, <2>2
  <2>4. QED
    BY <2>1, <2>2, <2>3
<1>3. \A k \in 1..Len(q') : k + 1 \in 1..Len(q) /\ k + 1 > 1
  BY <1>1
<1>4. Has(Head(q))
  BY <1>1 DEF Has
<1>5. Has(m)' => \E k \in 1..Len(q) : k > 1 /\ q[k] = m
  BY <1>1, <1>3 DEF Has
<1>6. m # Head(q) => (Has(m) <=> Has(m)')
  BY <1>1, <1>2, <1>3 DEF Has
<1>7. QED
  BY <1>4, <1>5, <1>6

(* A queue that has lost its head is still in order.                       *)
LEMMA TailKeepsOrder ==
  ASSUME q \in Seq(Messages), q # <<>>, q' = Tail(q), Order
  PROVE  Order'
<1>1. /\ Len(q') = Len(q) - 1 /\ Len(q) \in Nat
      /\ \A k \in 1..Len(q') : q'[k] = q[k + 1]
  BY TailFacts
<1>2. \A k \in 1..Len(q') : k + 1 \in 1..Len(q)
  BY <1>1
<1>3. \A j, k \in 1..Len(q') : (j < k => j + 1 < k + 1) /\ (j + 1 = k + 1 => j = k)
  BY <1>1
<1>4. QED
  BY <1>1, <1>2, <1>3 DEF Order

LEMMA PostFacts ==
  ASSUME q \in Seq(Messages), NEW m \in Messages, Post(m)
  PROVE  /\ q' \in Seq(Messages)
         /\ \/ q' = q
            \/ /\ Len(q') = Len(q) + 1 /\ q'[Len(q) + 1] = m
               /\ \A k \in 1..Len(q) : q'[k] = q[k]
         /\ Len(q) < QMax => Len(q') = Len(q) + 1
  BY SyncAssumption DEF Post

LEMMA PostHas ==
  ASSUME q \in Seq(Messages), NEW m \in Messages, Post(m), NEW n \in Messages
  PROVE  /\ n # m => (Has(n) <=> Has(n)')
         /\ Len(q) < QMax => Has(m)'
         /\ Has(m) => Has(m)'
<1>1. CASE q' = q
  BY <1>1, SyncAssumption DEF Post, Has
<1>2. CASE q' # q
  <2>1. /\ Len(q') = Len(q) + 1 /\ q'[Len(q) + 1] = m /\ Len(q) \in Nat
        /\ \A k \in 1..Len(q) : q'[k] = q[k]
    BY <1>2, PostFacts
  <2>2. \A k \in 1..Len(q') : k \in 1..Len(q) \/ k = Len(q) + 1
    BY <2>1
  <2>3. Len(q) + 1 \in 1..Len(q') /\ \A k \in 1..Len(q) : k \in 1..Len(q')
    BY <2>1
  <2>4. QED
    BY <2>1, <2>2, <2>3 DEF Has
<1>3. QED
  BY <1>1, <1>2

(* A posted message keeps the queue in order when none of its kind is      *)
(* there, and, for ONE, no FULL.                                           *)
LEMMA PostKeepsOrder ==
  ASSUME q \in Seq(Messages), NEW m \in Messages, Post(m), Order,
         m = "ONE" => ~Has("ONE") /\ ~Has("FULL"),
         m \in Requests => \A r \in Requests : ~Has(r)
  PROVE  Order'
<1>1. CASE q' = q
  BY <1>1 DEF Order
<1>2. CASE q' # q
  <2>1. /\ Len(q') = Len(q) + 1 /\ q'[Len(q) + 1] = m /\ Len(q) \in Nat
        /\ \A k \in 1..Len(q) : q'[k] = q[k]
    BY <1>2, PostFacts
  <2>2. \A k \in 1..Len(q') : k \in 1..Len(q) \/ k = Len(q) + 1
    BY <2>1
  <2>3. \A j \in 1..Len(q) : ~(Len(q) + 1 < j)
    BY <2>1
  <2>4. \A j \in 1..Len(q) : /\ m = "ONE" => q[j] # "ONE" /\ q[j] # "FULL"
                             /\ m \in Requests => q[j] \notin Requests
    BY DEF Has
  <2>5. \A j, k \in 1..Len(q') : q'[j] = "ONE" /\ q'[k] = "ONE" => j = k
    BY <2>1, <2>2, <2>4 DEF Order
  <2>6. \A j, k \in 1..Len(q') : q'[j] \in Requests /\ q'[k] \in Requests => j = k
    BY <2>1, <2>2, <2>4 DEF Order
  <2>7. \A j, k \in 1..Len(q') : q'[j] = "FULL" /\ j < k => q'[k] # "ONE"
    <3>1. SUFFICES ASSUME NEW j \in 1..Len(q'), NEW k \in 1..Len(q'), q'[j] = "FULL", j < k
                   PROVE  q'[k] # "ONE"
      OBVIOUS
    <3>2. j \in 1..Len(q)
      BY <2>1, <3>1
    <3>3. CASE k \in 1..Len(q)
      BY <2>1, <3>1, <3>2, <3>3 DEF Order
    <3>4. CASE k = Len(q) + 1
      BY <2>1, <2>4, <3>1, <3>2, <3>4
    <3>5. QED
      BY <2>2, <3>3, <3>4
  <2>8. QED
    BY <2>5, <2>6, <2>7 DEF Order
<1>3. QED
  BY <1>1, <1>2
-----------------------------------------------------------------------------
(* The clock, step by step.                                                *)

SyncAll == SyncInv /\ Clocks

(* The interrupt: with the timer on and no frame in flight, nothing but a  *)
(* request to stop can be in the queue.                                    *)
LEMMA TimerKeepsSync ==
  ASSUME RoomForTwo, SyncAll, TimerIsr
  PROVE  SyncAll'
<1>1. /\ timerOn /\ timerOn' = timerOn
      /\ UNCHANGED <<ta, Tv, pend_cnt, ack, status, micOn, spc, apc, mpc, open, audioOn>>
      /\ tv' = Clock
  BY DEF TimerIsr, stateVars, audioVars, mainVars
<1>2. tv' \in Nat /\ tv' >= tv /\ (Audio => tv' < ta + DeltaTa + Tick) /\ tv \in Nat
  BY <1>1, SyncAssumption DEF SyncAll, SyncInv, SyncTypes, Clocks, Clock
<1>3. ~Has("FULL") /\ spc \notin Filled /\ ~Has("START")
  BY <1>1 DEF SyncAll, SyncInv, Alone
<1>4. CASE UNCHANGED <<q, post_cnt>>
  <2>1. SyncInv'
    BY <1>1, <1>2, <1>4 DEF SyncAll, SyncInv, SyncTypes, Order, Alone, Switches, Counted, Flying, Has
  <2>2. Flying' = Flying
    BY <1>1, <1>4 DEF Flying, Has
  <2>3. Clocks'
    BY <1>1, <1>2, <2>2 DEF SyncAll, SyncInv, SyncTypes, Clocks
  <2>4. QED
    BY <2>1, <2>3 DEF SyncAll
<1>5. CASE Post("ONE") /\ post_cnt' = Succ(post_cnt) /\ tv' > Tv /\ post_cnt = pend_cnt
  <2>1. ~Flying
    BY <1>5, SuccFacts DEF SyncAll, SyncInv, SyncTypes, Counted
  <2>2. spc = "idle" /\ ~Has("ONE")
    BY <1>3, <2>1 DEF SyncAll, SyncInv, SyncTypes, Flying
  <2>3. q \in Seq(Messages) /\ "ONE" \in Messages /\ Order
    BY DEF SyncAll, SyncInv, SyncTypes, Messages
  <2>4. Len(q) < QMax
    <3>1. \A k \in 1..Len(q) : q[k] = "STOP"
      <4>1. \A k \in 1..Len(q) : q[k] \in Messages
        BY <2>3
      <4>2. QED
        BY <4>1, <1>3, <2>2 DEF Has, Messages
    <3>2. Len(q) \in Nat
      BY <2>3
    <3>3. ~(Len(q) >= 2)
      <4>1. SUFFICES ASSUME Len(q) >= 2 PROVE FALSE
        OBVIOUS
      <4>2. 1 \in 1..Len(q) /\ 2 \in 1..Len(q)
        BY <4>1, <3>2
      <4>3. q[1] \in Requests /\ q[2] \in Requests
        BY <3>1, <4>2 DEF Requests
      <4>4. QED
        BY <4>2, <4>3, <2>3 DEF Order
    <3>4. QED
      BY <3>2, <3>3, SyncAssumption DEF RoomForTwo
  <2>5. Order'
    BY <1>3, <1>5, <2>2, <2>3, PostKeepsOrder DEF Requests
  <2>6. /\ q' \in Seq(Messages) /\ Has("ONE")'
        /\ (Has("START") <=> Has("START")') /\ (Has("STOP") <=> Has("STOP")')
        /\ (Has("FULL") <=> Has("FULL")')
    <3>1. /\ "ONE" # "START" /\ "ONE" # "STOP" /\ "ONE" # "FULL"
          /\ "START" \in Messages /\ "STOP" \in Messages /\ "FULL" \in Messages
      BY DEF Messages
    <3>2. q' \in Seq(Messages)
      BY <1>5, <2>3, PostFacts
    <3>3. Has("ONE")'
      BY <1>5, <2>3, <2>4, PostHas
    <3>4. /\ (Has("START") <=> Has("START")') /\ (Has("STOP") <=> Has("STOP")')
          /\ (Has("FULL") <=> Has("FULL")')
      BY <1>5, <2>3, <3>1, PostHas
    <3>5. QED
      BY <3>2, <3>3, <3>4
  <2>7. Alone'
    BY <1>1, <1>3, <2>2, <2>6 DEF SyncAll, SyncInv, Alone, Requests
  <2>8. SyncTypes'
    BY <1>1, <1>2, <1>5, <2>6, SuccFacts DEF SyncAll, SyncInv, SyncTypes
  <2>9. Switches'
    BY <1>1 DEF SyncAll, SyncInv, Switches
  <2>10. Counted' /\ Flying'
    BY <1>1, <1>5, <2>6 DEF Counted, Flying, Succ
  <2>11. Clocks'
    BY <1>1, <1>2, <1>5 DEF SyncAll, Clocks
  <2>12. QED
    BY <2>5, <2>7, <2>8, <2>9, <2>10, <2>11 DEF SyncAll, SyncInv
<1>6. QED
  BY <1>4, <1>5 DEF TimerIsr, Succ

(* "full" may be posted, once the timer is off, while no start waits.      *)
LEMMA FullPosted ==
  ASSUME SyncInv, StorageFull, ~Has("START"), UNCHANGED <<mpc, ack, spc, micOn, open>>
  PROVE  Order' /\ Alone' /\ q' \in Seq(Messages) /\ (Has("ONE") <=> Has("ONE")')
<1>1. /\ q \in Seq(Messages) /\ Order /\ Post("FULL") /\ timerOn' = FALSE
      /\ "FULL" \in Messages /\ "ONE" \in Messages /\ "START" \in Messages /\ "STOP" \in Messages
      /\ "FULL" # "ONE" /\ "FULL" \notin Requests /\ "FULL" # "START" /\ "FULL" # "STOP"
  BY DEF SyncInv, SyncTypes, StorageFull, Messages, Requests
<1>2. Order'
  BY <1>1, PostKeepsOrder
<1>3. q' \in Seq(Messages)
  BY <1>1, PostFacts
<1>4. /\ (Has("START") <=> Has("START")') /\ (Has("STOP") <=> Has("STOP")')
      /\ (Has("ONE") <=> Has("ONE")')
  BY <1>1, PostHas
<1>5. Alone'
  BY <1>1, <1>4 DEF SyncInv, Alone, Requests
<1>6. QED
  BY <1>2, <1>3, <1>4, <1>5

LEMMA AudioKeepsSync ==
  ASSUME SyncAll, AudioChunk \/ AudioPut
  PROVE  SyncAll'
<1>1. CASE AudioChunk /\ q' = q
  <2>1. /\ apc' \in {"idle", "put"} /\ timerOn' \in BOOLEAN /\ (timerOn' => timerOn) /\ audioOn /\ micOn
        /\ UNCHANGED <<q, tv, ta, Tv, post_cnt, pend_cnt, ack, status, micOn, spc, mpc, open, audioOn>>
    <3>1. apc' \in {"idle", "put"} /\ audioOn /\ micOn
      BY <1>1 DEF AudioChunk, SyncAll, SyncInv, SyncTypes
    <3>2. timerOn' = timerOn \/ timerOn' = FALSE
      BY <1>1, Zenon DEF AudioChunk, StorageFull
    <3>3. timerOn' \in BOOLEAN /\ (timerOn' => timerOn)
      <4>1. timerOn \in BOOLEAN
        BY DEF SyncAll, SyncInv, SyncTypes
      <4>2. CASE timerOn' = timerOn
        BY <4>1, <4>2
      <4>3. CASE timerOn' = FALSE
        BY <4>3
      <4>4. QED
        BY <3>2, <4>2, <4>3
    <3>4. UNCHANGED <<q, tv, ta, Tv, post_cnt, pend_cnt, ack, status, micOn, spc, mpc, open, audioOn>>
      BY <1>1, Zenon DEF AudioChunk, stateVars, mainVars
    <3>5. QED
      BY <3>1, <3>3, <3>4
  <2>2. SyncTypes' /\ Order' /\ Alone' /\ Switches'
    BY <2>1 DEF SyncAll, SyncInv, SyncTypes, Order, Alone, Switches, Has
  <2>3. Counted' /\ Clocks'
    BY <2>1 DEF SyncAll, SyncInv, Counted, Clocks, Flying, Has
  <2>4. QED
    BY <2>2, <2>3 DEF SyncAll, SyncInv
<1>2. CASE AudioChunk /\ q' # q
  <2>1. /\ StorageFull /\ audioOn /\ micOn
        /\ UNCHANGED <<tv, ta, Tv, post_cnt, pend_cnt, ack, status, micOn, spc, mpc, open, audioOn, apc>>
    BY <1>2 DEF AudioChunk, stateVars, mainVars
  <2>2. ~Has("START")
    BY <2>1 DEF SyncAll, SyncInv, Alone
  <2>3. Order' /\ Alone' /\ q' \in Seq(Messages) /\ (Has("ONE") <=> Has("ONE")')
    BY <2>1, <2>2, FullPosted DEF SyncAll
  <2>4. SyncTypes' /\ Switches'
    BY <2>1, <2>3 DEF SyncAll, SyncInv, SyncTypes, Switches, StorageFull
  <2>5. Counted' /\ Clocks'
    BY <2>1, <2>3 DEF SyncAll, SyncInv, Counted, Clocks, Flying
  <2>6. QED
    BY <2>3, <2>4, <2>5 DEF SyncAll, SyncInv
<1>3. CASE AudioPut
  <2>1. /\ apc' = "idle" /\ ta' \in {ta, ta + DeltaTa}
        /\ UNCHANGED <<q, timerOn, tv, Tv, post_cnt, pend_cnt, ack, status, micOn, spc, mpc, open, audioOn>>
    BY <1>3 DEF AudioPut, stateVars, mainVars
  <2>2. ta' \in Nat /\ ta' >= ta /\ ta \in Nat
    BY <2>1, SyncAssumption DEF SyncAll, SyncInv, SyncTypes
  <2>3. SyncTypes' /\ Order' /\ Alone' /\ Switches'
    BY <2>1, <2>2 DEF SyncAll, SyncInv, SyncTypes, Order, Alone, Switches, Has
  <2>4. Counted' /\ (Flying <=> Flying')
    BY <2>1 DEF SyncAll, SyncInv, Counted, Flying, Has
  <2>5. Clocks'
    <3>1. tv \in Nat /\ Tv \in Nat /\ DeltaTa \in Nat /\ Tick \in Nat /\ DeltaTv \in Nat
      BY SyncAssumption DEF SyncAll, SyncInv, SyncTypes
    <3>2. Clocks /\ UNCHANGED <<tv, Tv>>
      BY <2>1 DEF SyncAll
    <3>3. Audio => tv' < ta' + DeltaTa + Tick /\ Tv' < ta' + DeltaTa + Tick + DeltaTv
      <4>1. Audio => tv < ta + DeltaTa + Tick /\ Tv < ta + DeltaTa + Tick + DeltaTv
        BY <3>2, Zenon DEF Clocks
      <4>2. tv' = tv /\ Tv' = Tv
        BY <3>2
      <4>3. /\ ta' + DeltaTa + Tick \in Int /\ ta + DeltaTa + Tick \in Int
            /\ ta' + DeltaTa + Tick >= ta + DeltaTa + Tick
            /\ ta' + DeltaTa + Tick + DeltaTv \in Int /\ ta + DeltaTa + Tick + DeltaTv \in Int
            /\ ta' + DeltaTa + Tick + DeltaTv >= ta + DeltaTa + Tick + DeltaTv
        <5>1. \A a, b, c, d, e \in Nat : a >= b =>
                 /\ a + c + d \in Int /\ b + c + d \in Int /\ a + c + d >= b + c + d
                 /\ a + c + d + e \in Int /\ b + c + d + e \in Int /\ a + c + d + e >= b + c + d + e
          OBVIOUS
        <5>2. ta \in Nat /\ ta' \in Nat /\ ta' >= ta
          BY <2>2
        <5>3. QED
          BY <3>1, <5>1, <5>2, Zenon
      <4>4. \A x, y, z \in Int : x < y /\ z >= y => x < z
        OBVIOUS
      <4>5. ASSUME Audio
            PROVE  tv' < ta' + DeltaTa + Tick /\ Tv' < ta' + DeltaTa + Tick + DeltaTv
        BY <3>1, <4>1, <4>2, <4>3, <4>4, <4>5
      <4>6. QED
        BY <4>5
    <3>4. Flying' => Tv' < tv'
      BY <2>4, <3>2, Zenon DEF Clocks
    <3>5. QED
      BY <3>3, <3>4 DEF Clocks
  <2>6. QED
    BY <2>3, <2>4, <2>5 DEF SyncAll, SyncInv
<1>4. QED
  BY <1>1, <1>2, <1>3

LEMMA FrameKeepsSync ==
  ASSUME SyncAll, EncodeOneFrame
  PROVE  SyncAll'
<1>1. CASE OneFrame
  <2>1. /\ q # <<>> /\ Head(q) = "ONE" /\ q' = Tail(q) /\ spc = "idle" /\ spc' \in Serves
        /\ UNCHANGED <<timerOn, tv, ta, Tv, post_cnt, pend_cnt, ack, status, micOn, apc, mpc, open, audioOn>>
    BY <1>1 DEF OneFrame, StateOnly, audioVars, mainVars, Serves
  <2>2. q \in Seq(Messages) /\ Order
    BY DEF SyncAll, SyncInv, SyncTypes
  <2>3. /\ q' \in Seq(Messages) /\ Order' /\ Has("ONE")
        /\ (Has("START") <=> Has("START")') /\ (Has("STOP") <=> Has("STOP")')
        /\ (Has("FULL") <=> Has("FULL")')
    <3>1. q' \in Seq(Messages) /\ Order'
      BY <2>1, <2>2, TailFacts, TailKeepsOrder
    <3>2. "ONE" # "START" /\ "ONE" # "STOP" /\ "ONE" # "FULL"
      OBVIOUS
    <3>3. QED
      BY <2>1, <2>2, <3>1, <3>2, TailHas
  <2>4. ~Has("ONE")'
    <3>1. SUFFICES ASSUME Has("ONE")' PROVE FALSE
      OBVIOUS
    <3>2. PICK k \in 1..Len(q) : k > 1 /\ q[k] = "ONE"
      BY <2>1, <2>2, <3>1, TailHas
    <3>3. q[1] = "ONE" /\ Len(q) >= 1 /\ Len(q) \in Nat
      BY <2>1, <2>2, TailFacts
    <3>4. QED
      BY <2>2, <3>2, <3>3 DEF Order
  <2>5. ~Has("START")
    BY <2>3 DEF SyncAll, SyncInv, Alone
  <2>6. spc' \notin Filled /\ spc' # "fullvideo"
    BY <2>1 DEF Serves, Filled
  <2>7. Alone'
    BY <2>1, <2>3, <2>4, <2>5, <2>6 DEF SyncAll, SyncInv, Alone, Requests
  <2>8. SyncTypes' /\ Switches'
    BY <2>1, <2>3, <2>6 DEF SyncAll, SyncInv, SyncTypes, Switches
  <2>9. Flying /\ Flying'
    BY <2>1, <2>3 DEF Flying
  <2>10. Counted' /\ Clocks'
    BY <2>1, <2>9 DEF SyncAll, SyncInv, Counted, Clocks, Succ
  <2>11. QED
    BY <2>3, <2>7, <2>8, <2>10 DEF SyncAll, SyncInv
<1>2. CASE CountFrame /\ q' # q
  <2>1. /\ spc = "count" /\ spc' = "finish" /\ StorageFull
        /\ UNCHANGED <<tv, ta, Tv, post_cnt, pend_cnt, ack, status, micOn, apc, mpc, open, audioOn>>
    BY <1>2 DEF CountFrame, audioVars, mainVars
  <2>2. spc \in Serves /\ spc' \in Serves /\ spc \notin Filled /\ spc' \notin Filled /\ spc # "idle"
    BY <2>1 DEF Serves, Filled
  <2>3. ~Has("START") /\ ~Has("ONE")
    BY <2>2 DEF SyncAll, SyncInv, Alone
  <2>4. /\ q \in Seq(Messages) /\ Order /\ Post("FULL") /\ timerOn' = FALSE
        /\ "FULL" \in Messages /\ "ONE" \in Messages /\ "START" \in Messages /\ "STOP" \in Messages
        /\ "FULL" # "ONE" /\ "FULL" \notin Requests /\ "FULL" # "START" /\ "FULL" # "STOP"
    BY <2>1 DEF SyncAll, SyncInv, SyncTypes, StorageFull, Messages, Requests
  <2>5. Order' /\ q' \in Seq(Messages)
    BY <2>4, PostKeepsOrder, PostFacts
  <2>6. /\ (Has("START") <=> Has("START")') /\ (Has("STOP") <=> Has("STOP")')
        /\ (Has("ONE") <=> Has("ONE")')
    BY <2>4, PostHas
  <2>7. Alone'
    BY <2>1, <2>3, <2>4, <2>6 DEF SyncAll, SyncInv, Alone, Requests
  <2>8. SyncTypes' /\ Switches'
    BY <2>1, <2>2, <2>4, <2>5 DEF SyncAll, SyncInv, SyncTypes, Switches
  <2>9. Flying /\ Flying'
    BY <2>2 DEF Flying
  <2>10. Counted' /\ Clocks'
    BY <2>1, <2>9 DEF SyncAll, SyncInv, Counted, Clocks, Succ
  <2>11. QED
    BY <2>5, <2>7, <2>8, <2>10 DEF SyncAll, SyncInv
<1>3. CASE Finish
  <2>1. /\ spc = "finish" /\ spc' = "idle" /\ Tv' \in {Tv, Tv + DeltaTv} /\ pend_cnt' = Succ(pend_cnt)
        /\ UNCHANGED <<q, timerOn, tv, ta, post_cnt, ack, status, micOn, apc, mpc, open, audioOn>>
    BY <1>3 DEF Finish, StateOnly, audioVars, mainVars, Succ
  <2>2. spc \in Serves /\ spc # "idle" /\ spc' \notin Serves
    BY <2>1 DEF Serves
  <2>3. ~Has("ONE") /\ ~Has("START") /\ Flying
    BY <2>2 DEF SyncAll, SyncInv, Alone, Flying
  <2>4. ~Has("ONE")' /\ ~Has("START")' /\ ~Flying' /\ (Has("STOP")' <=> Has("STOP"))
        /\ (Has("FULL")' <=> Has("FULL"))
    BY <2>1, <2>2, <2>3 DEF Has, Flying
  <2>5. Tv' \in Nat /\ Tv' <= Tv + DeltaTv /\ Tv \in Nat /\ tv \in Nat /\ ta \in Nat /\ Tv < tv
    BY <2>1, <2>3, SyncAssumption DEF SyncAll, SyncInv, SyncTypes, Clocks
  <2>6. SyncTypes'
    BY <2>1, <2>5, SuccFacts DEF SyncAll, SyncInv, SyncTypes
  <2>7. Order' /\ Switches'
    BY <2>1 DEF SyncAll, SyncInv, Order, Switches
  <2>8. Alone'
    BY <2>1, <2>4 DEF SyncAll, SyncInv, Alone, Requests, Filled
  <2>9. Counted'
    BY <2>1, <2>3, <2>4 DEF SyncAll, SyncInv, Counted
  <2>10. Clocks'
    BY <2>1, <2>4, <2>5, SyncAssumption DEF SyncAll, Clocks
  <2>11. QED
    BY <2>6, <2>7, <2>8, <2>9, <2>10 DEF SyncAll, SyncInv
<1>4. CASE \/ CountFrame /\ q' = q
           \/ LockFrame \/ SetLock \/ TakeFrame \/ TakeSize \/ PutFrame \/ ClearFrame \/ ClearSize
           \/ UnlockFrame \/ Refund \/ NullRead \/ NullCount \/ PutNull \/ NullRefund
  <2>1. /\ spc \in Serves /\ spc' \in Serves /\ timerOn' \in BOOLEAN /\ (timerOn' => timerOn)
        /\ UNCHANGED <<q, tv, ta, Tv, post_cnt, pend_cnt, ack, status, micOn, apc, mpc, open, audioOn>>
    <3>1. timerOn' = timerOn \/ timerOn' = FALSE
      BY <1>4, Zenon DEF CountFrame, LockFrame, SetLock, TakeFrame, TakeSize, PutFrame, ClearFrame,
         ClearSize, UnlockFrame, Refund, NullRead, NullCount, PutNull, NullRefund, StateOnly, StorageFull
    <3>2. timerOn' \in BOOLEAN /\ (timerOn' => timerOn)
      <4>1. timerOn \in BOOLEAN
        BY DEF SyncAll, SyncInv, SyncTypes
      <4>2. CASE timerOn' = timerOn
        BY <4>1, <4>2
      <4>3. CASE timerOn' = FALSE
        BY <4>3
      <4>4. QED
        BY <3>1, <4>2, <4>3
    <3>3. spc \in Serves /\ spc' \in Serves
      BY <1>4 DEF CountFrame, LockFrame, SetLock, TakeFrame, TakeSize, PutFrame, ClearFrame,
         ClearSize, UnlockFrame, Refund, NullRead, NullCount, PutNull, NullRefund, Serves
    <3>4. UNCHANGED <<q, tv, ta, Tv, post_cnt, pend_cnt, ack, status, micOn, apc, mpc, open, audioOn>>
      BY <1>4 DEF CountFrame, LockFrame, SetLock, TakeFrame, TakeSize, PutFrame, ClearFrame, ClearSize,
       UnlockFrame, Refund, NullRead, NullCount, PutNull, NullRefund, StateOnly, audioVars, mainVars
    <3>5. QED
      BY <3>2, <3>3, <3>4
  <2>2. spc # "idle" /\ spc' # "idle" /\ spc' \notin Filled /\ spc' # "fullvideo"
    BY <2>1 DEF Serves, Filled
  <2>3. Flying /\ Flying'
    BY <2>1 DEF Flying
  <2>4. SyncTypes' /\ Order' /\ Switches'
    BY <2>1, <2>2 DEF SyncAll, SyncInv, SyncTypes, Order, Switches
  <2>5. Alone'
    BY <2>1, <2>2 DEF SyncAll, SyncInv, SyncTypes, Alone, Has
  <2>6. Counted' /\ Clocks'
    BY <2>1, <2>3 DEF SyncAll, SyncInv, Counted, Clocks, Succ
  <2>7. QED
    BY <2>4, <2>5, <2>6 DEF SyncAll, SyncInv
<1>5. QED
  BY <1>1, <1>2, <1>3, <1>4 DEF EncodeOneFrame

(* A request to start finds nothing else in the queue.                     *)
LEMMA StartKeepsSync ==
  ASSUME SyncAll, StartOrResume
  PROVE  SyncAll'
<1>1. /\ q \in Seq(Messages) /\ Order /\ q # <<>> /\ q' = Tail(q) /\ spc = "idle"
      /\ Head(q) \in {"START", "RESUME"}
      /\ tv' = 0 /\ ta' = 0 /\ Tv' = 0 /\ post_cnt' = 0 /\ pend_cnt' = 0
      /\ timerOn' = TRUE /\ micOn' = Audio /\ ack' = TRUE
      /\ UNCHANGED <<status, spc, apc, mpc, open, audioOn>>
  BY DEF SyncAll, SyncInv, SyncTypes, StartOrResume, Request, ControlOnly, stateVars, audioVars, mainVars
<1>2. Head(q) = "START"
  BY <1>1, TailFacts DEF Messages
<1>3. Has("START")
  BY <1>1, <1>2, TailHas
<1>4. ~Has("ONE") /\ ~Has("FULL") /\ open /\ mpc = "START"
  BY <1>1, <1>3 DEF SyncAll, SyncInv, Alone, Requests
<1>5. q' \in Seq(Messages) /\ Order' /\ ~Has("ONE")' /\ ~Has("FULL")'
  <2>1. "ONE" # "START" /\ "FULL" # "START"
    OBVIOUS
  <2>2. q' \in Seq(Messages) /\ Order'
    BY <1>1, TailFacts, TailKeepsOrder
  <2>3. QED
    BY <1>1, <1>2, <1>4, <2>1, <2>2, TailHas
<1>6. \A r \in Requests : ~Has(r)'
  <2>1. SUFFICES ASSUME NEW r \in Requests, Has(r)' PROVE FALSE
    OBVIOUS
  <2>2. PICK k \in 1..Len(q) : k > 1 /\ q[k] = r
    BY <1>1, <2>1, TailHas
  <2>3. q[1] = "START" /\ Len(q) >= 1 /\ Len(q) \in Nat
    BY <1>1, <1>2, TailFacts
  <2>4. QED
    BY <1>1, <2>2, <2>3 DEF Order, Requests
<1>7. SyncTypes'
  <2>1. 0 \in Nat /\ 0 \in 0..(CntMod - 1) /\ micOn' \in BOOLEAN
    BY <1>1, SyncAssumption
  <2>2. QED
    BY <1>1, <1>5, <2>1 DEF SyncAll, SyncInv, SyncTypes
<1>8. Alone'
  BY <1>1, <1>5, <1>6 DEF Alone, Requests, Filled
<1>9. Switches'
  BY <1>1, <1>4 DEF SyncAll, SyncInv, Switches
<1>10. ~Flying'
  BY <1>1, <1>5 DEF Flying, Serves
<1>11. Counted' /\ Clocks'
  <2>1. Counted'
    BY <1>1, <1>10 DEF Counted
  <2>2. DeltaTa \in Nat \ {0} /\ Tick \in Nat /\ DeltaTv \in Nat
    BY SyncAssumption
  <2>3. 0 < 0 + DeltaTa + Tick /\ 0 < 0 + DeltaTa + Tick + DeltaTv
    BY <2>2
  <2>4. QED
    BY <1>1, <1>10, <2>1, <2>3 DEF Clocks
<1>12. QED
  BY <1>5, <1>7, <1>8, <1>9, <1>11 DEF SyncAll, SyncInv

LEMMA StopKeepsSync ==
  ASSUME SyncAll, StopOrPause
  PROVE  SyncAll'
<1>1. /\ q \in Seq(Messages) /\ Order /\ q # <<>> /\ q' = Tail(q) /\ spc = "idle"
      /\ Head(q) \in {"STOP", "PAUSE"}
      /\ timerOn' = FALSE /\ micOn' = FALSE /\ ack' = TRUE
      /\ UNCHANGED <<tv, ta, Tv, post_cnt, pend_cnt, status, spc, apc, mpc, open, audioOn>>
  BY DEF SyncAll, SyncInv, SyncTypes, StopOrPause, Request, ControlOnly, stateVars, audioVars, mainVars
<1>2. Head(q) = "STOP"
  BY <1>1, TailFacts DEF Messages
<1>3. Has("STOP") /\ mpc = "STOP"
  BY <1>1, <1>2, TailHas DEF SyncAll, SyncInv, Alone, Requests
<1>4. /\ q' \in Seq(Messages) /\ Order' /\ (Has("ONE") <=> Has("ONE")') /\ (Has("FULL") <=> Has("FULL")')
  <2>1. "ONE" # "STOP" /\ "FULL" # "STOP"
    OBVIOUS
  <2>2. q' \in Seq(Messages) /\ Order'
    BY <1>1, TailFacts, TailKeepsOrder
  <2>3. QED
    BY <1>1, <1>2, <2>1, <2>2, TailHas
<1>5. \A r \in Requests : ~Has(r)'
  <2>1. SUFFICES ASSUME NEW r \in Requests, Has(r)' PROVE FALSE
    OBVIOUS
  <2>2. PICK k \in 1..Len(q) : k > 1 /\ q[k] = r
    BY <1>1, <2>1, TailHas
  <2>3. q[1] = "STOP" /\ Len(q) >= 1 /\ Len(q) \in Nat
    BY <1>1, <1>2, TailFacts
  <2>4. QED
    BY <1>1, <2>2, <2>3 DEF Order, Requests
<1>6. SyncTypes' /\ Switches'
  BY <1>1, <1>4 DEF SyncAll, SyncInv, SyncTypes, Switches
<1>7. Alone'
  BY <1>1, <1>4, <1>5 DEF Alone, Requests
<1>8. Counted' /\ Clocks'
  <2>1. Flying <=> Flying'
    BY <1>1, <1>4 DEF Flying
  <2>2. QED
    BY <1>1, <2>1 DEF SyncAll, SyncInv, Counted, Clocks, Succ
<1>9. QED
  BY <1>4, <1>6, <1>7, <1>8 DEF SyncAll, SyncInv

(* Behind "full" there is no request for a frame, and none to start.       *)
LEMMA FullKeepsSync ==
  ASSUME SyncAll, FullBegin \/ FullAudio \/ FullEnd
  PROVE  SyncAll'
<1>1. CASE FullBegin
  <2>1. /\ q \in Seq(Messages) /\ Order /\ q # <<>> /\ q' = Tail(q) /\ spc = "idle" /\ spc' = "full"
        /\ Head(q) = "FULL"
        /\ UNCHANGED <<timerOn, tv, ta, Tv, post_cnt, pend_cnt, micOn, ack, status, apc, mpc, open, audioOn>>
    BY <1>1 DEF SyncAll, SyncInv, SyncTypes, FullBegin, Request, clockVars, audioVars, mainVars
  <2>2. Has("FULL") /\ ~Has("START") /\ ~timerOn
    BY <2>1, TailHas DEF SyncAll, SyncInv, Alone
  <2>3. ~Has("ONE")
    <3>1. SUFFICES ASSUME NEW k \in 1..Len(q), q[k] = "ONE" PROVE FALSE
      BY DEF Has
    <3>2. q[1] = "FULL" /\ Len(q) >= 1 /\ Len(q) \in Nat
      BY <2>1, TailFacts
    <3>3. 1 \in 1..Len(q) /\ (k = 1 \/ 1 < k)
      BY <3>1, <3>2
    <3>4. QED
      BY <2>1, <3>1, <3>2, <3>3 DEF Order
  <2>4. /\ q' \in Seq(Messages) /\ Order' /\ ~Has("ONE")' /\ ~Has("START")'
        /\ (Has("STOP") <=> Has("STOP")')
    <3>1. "ONE" # "FULL" /\ "START" # "FULL" /\ "STOP" # "FULL"
      OBVIOUS
    <3>2. q' \in Seq(Messages) /\ Order'
      BY <2>1, TailFacts, TailKeepsOrder
    <3>3. QED
      BY <2>1, <2>2, <2>3, <3>1, <3>2, TailHas
  <2>5. SyncTypes' /\ Switches'
    BY <2>1, <2>4 DEF SyncAll, SyncInv, SyncTypes, Switches, Filled
  <2>6. Alone'
    BY <2>1, <2>2, <2>4 DEF SyncAll, SyncInv, Alone, Requests
  <2>7. ~Flying /\ ~Flying'
    BY <2>1, <2>3, <2>4 DEF Flying, Serves
  <2>8. Counted' /\ Clocks'
    BY <2>1, <2>7 DEF SyncAll, SyncInv, Counted, Clocks
  <2>9. QED
    BY <2>4, <2>5, <2>6, <2>8 DEF SyncAll, SyncInv
<1>2. CASE FullAudio
  <2>1. /\ spc = "full" /\ spc' = "fullvideo" /\ apc = "idle" /\ audioOn' = FALSE
        /\ UNCHANGED <<q, timerOn, tv, ta, Tv, post_cnt, pend_cnt, micOn, ack, status, apc, mpc, open>>
    BY <1>2 DEF FullAudio, clockVars, audioVars
  <2>2. SyncTypes' /\ Switches' /\ Order'
    BY <2>1 DEF SyncAll, SyncInv, SyncTypes, Switches, Filled, Order
  <2>3. Alone'
    BY <2>1 DEF SyncAll, SyncInv, Alone, Filled, Serves, Has
  <2>4. ~Has("ONE") /\ ~Has("ONE")'
    BY <2>1 DEF SyncAll, SyncInv, Alone, Has
  <2>5. ~Flying /\ ~Flying'
    BY <2>1, <2>4 DEF Flying, Serves
  <2>6. Counted' /\ Clocks'
    BY <2>1, <2>5 DEF SyncAll, SyncInv, Counted, Clocks
  <2>7. QED
    BY <2>2, <2>3, <2>6 DEF SyncAll, SyncInv
<1>3. CASE FullEnd
  <2>1. /\ spc = "fullvideo" /\ spc' = "idle" /\ q' = <<>> /\ micOn' = FALSE /\ open' = FALSE
        /\ status' = {}
        /\ UNCHANGED <<timerOn, tv, ta, Tv, post_cnt, pend_cnt, ack, apc, mpc, audioOn>>
    BY <1>3 DEF FullEnd, clockVars, audioVars
  <2>2. ~timerOn /\ ~Has("ONE")
    BY <2>1 DEF SyncAll, SyncInv, Alone, Filled
  <2>3. \A m : ~Has(m)'
    BY <2>1 DEF Has
  <2>4. q' \in Seq(Messages) /\ Order'
    BY <2>1 DEF Order
  <2>5. SyncTypes' /\ Switches'
    BY <2>1, <2>2, <2>4 DEF SyncAll, SyncInv, SyncTypes, Switches
  <2>6. Alone'
    BY <2>1, <2>2, <2>3 DEF Alone
  <2>7. ~Flying /\ ~Flying'
    BY <2>1, <2>2, <2>3 DEF Flying, Serves
  <2>8. Counted' /\ Clocks'
    BY <2>1, <2>7 DEF SyncAll, SyncInv, Counted, Clocks
  <2>9. QED
    BY <2>4, <2>5, <2>6, <2>8 DEF SyncAll, SyncInv
<1>4. QED
  BY <1>1, <1>2, <1>3

LEMMA MainKeepsSync ==
  ASSUME NoPause, SyncAll, Main
  PROVE  SyncAll'
<1>1. CASE MainStopAudio
  <2>1. /\ apc = "idle" /\ audioOn' = FALSE
        /\ UNCHANGED <<q, timerOn, tv, ta, Tv, post_cnt, pend_cnt, micOn, ack, status, spc, apc, mpc, open>>
    BY <1>1 DEF MainStopAudio, clockVars, stateVars, audioVars
  <2>2. SyncTypes' /\ Order' /\ Switches'
    BY <2>1 DEF SyncAll, SyncInv, SyncTypes, Order, Switches
  <2>3. Alone'
    BY <2>1 DEF SyncAll, SyncInv, Alone, Has
  <2>4. Counted' /\ Clocks'
    BY <2>1 DEF SyncAll, SyncInv, Counted, Clocks, Flying, Has
  <2>5. QED
    BY <2>2, <2>3, <2>4 DEF SyncAll, SyncInv
<1>2. CASE MainCall
  <2>1. PICK m \in Calls : /\ MayCall(m) /\ Post(m) /\ mpc' = m
                           /\ IF m = "START"
                                THEN /\ total' = 0 /\ accepted' = 0 /\ sizeOver' = FALSE
                                     /\ open' = TRUE /\ audioOn' = Audio
                                ELSE UNCHANGED <<total, accepted, sizeOver, open, audioOn>>
    BY <1>2 DEF MainCall
  <2>2. /\ mpc = "idle" /\ MainMayRun /\ ack' = FALSE
        /\ UNCHANGED <<timerOn, tv, ta, Tv, post_cnt, pend_cnt, micOn, status, spc, apc>>
    BY <1>2 DEF MainCall, clockVars, stateVars, audioVars
  <2>3. m \in Requests
    <3>1. "PAUSE" \notin status
      BY DEF SyncAll, SyncInv, SyncTypes
    <3>2. m \in {"START", "PAUSE", "RESUME", "STOP"} /\ m # "PAUSE"
      BY <2>1, SyncAssumption DEF NoPause
    <3>3. m # "RESUME"
      BY <2>1, <3>1 DEF MayCall
    <3>4. QED
      BY <3>2, <3>3 DEF Requests
  <2>4. q \in Seq(Messages) /\ Order /\ m \in Messages /\ "ONE" \in Messages /\ "FULL" \in Messages
        /\ m # "ONE" /\ m # "FULL"
    BY <2>3 DEF SyncAll, SyncInv, SyncTypes, Messages, Requests
  <2>5. \A r \in Requests : ~Has(r)
    BY <2>2 DEF SyncAll, SyncInv, Alone, Requests
  <2>6. Order' /\ q' \in Seq(Messages)
    BY <2>1, <2>4, <2>5, PostKeepsOrder, PostFacts
  <2>7. (Has("ONE") <=> Has("ONE")') /\ (Has("FULL") <=> Has("FULL")')
    BY <2>1, <2>4, PostHas
  <2>8. \A r \in Requests : Has(r)' => r = m
    <3>1. SUFFICES ASSUME NEW r \in Requests, r # m PROVE ~Has(r)'
      OBVIOUS
    <3>2. r \in Messages
      BY <3>1 DEF Requests, Messages
    <3>3. QED
      BY <2>1, <2>4, <2>5, <3>1, <3>2, PostHas
  <2>9. Counted' /\ Clocks'
    <3>1. Flying <=> Flying'
      BY <2>2, <2>7 DEF Flying
    <3>2. QED
      BY <2>2, <3>1 DEF SyncAll, SyncInv, Counted, Clocks, Succ
  <2>10. CASE m = "START"
    <3>1. /\ ~open /\ ~timerOn /\ ~micOn /\ apc = "idle"
      BY <2>1, <2>10 DEF MayCall, SyncAll, SyncInv, Switches
    <3>2. spc \notin Serves /\ ~Has("ONE") /\ (spc = "idle" => ~Has("FULL"))
      <4>1. (spc = "idle" /\ q = <<>>) \/ spc \in Filled
        BY <2>2, <3>1 DEF MainMayRun, Filled
      <4>2. q = <<>> => ~Has("ONE") /\ ~Has("FULL")
        BY DEF Has
      <4>3. QED
        BY <4>1, <4>2 DEF SyncAll, SyncInv, Alone, Filled, Serves
    <3>3. mpc' = "START" /\ open' = TRUE /\ audioOn' = Audio
      BY <2>1, <2>10
    <3>4. SyncTypes' /\ Switches'
      BY <2>2, <2>6, <3>1, <3>3, SyncAssumption DEF SyncAll, SyncInv, SyncTypes, Switches
    <3>5. Alone'
      BY <2>2, <2>7, <2>8, <2>10, <3>1, <3>2, <3>3 DEF SyncAll, SyncInv, Alone, Requests
    <3>6. QED
      BY <2>6, <2>9, <3>4, <3>5 DEF SyncAll, SyncInv
  <2>11. CASE m = "STOP"
    <3>1. mpc' = "STOP" /\ ~audioOn /\ UNCHANGED <<open, audioOn>>
      BY <2>1, <2>11 DEF MayCall
    <3>2. SyncTypes' /\ Switches'
      BY <2>2, <2>6, <3>1 DEF SyncAll, SyncInv, SyncTypes, Switches
    <3>3. Alone'
      BY <2>2, <2>7, <2>8, <2>11, <3>1 DEF SyncAll, SyncInv, Alone, Requests
    <3>4. QED
      BY <2>6, <2>9, <3>2, <3>3 DEF SyncAll, SyncInv
  <2>12. QED
    BY <2>3, <2>10, <2>11 DEF Requests
<1>3. CASE MainAck \/ MainTimeout
  <2>1. /\ mpc' = "idle" /\ mpc # "idle" /\ ack' = FALSE
        /\ UNCHANGED <<q, timerOn, tv, ta, Tv, post_cnt, pend_cnt, micOn, spc, apc, audioOn>>
    BY <1>3 DEF MainAck, MainTimeout, clockVars, stateVars, audioVars, SyncAll, SyncInv, SyncTypes
  <2>2. \A r \in Requests : ~Has(r)
    BY <1>3 DEF MainAck, MainTimeout, SyncAll, SyncInv, Alone, Has
  <2>3. status' \subseteq {"START", "VID"}
    BY <1>3 DEF MainAck, MainTimeout, SyncAll, SyncInv, SyncTypes
  <2>4. open' \in BOOLEAN /\ (~open' => ~timerOn /\ ~micOn /\ apc = "idle")
    <3>1. CASE MainAck
      <4>1. open' = (open /\ mpc # "STOP") /\ ack
        BY <3>1 DEF MainAck
      <4>2. QED
        BY <4>1 DEF SyncAll, SyncInv, SyncTypes, Switches
    <3>2. CASE MainTimeout
      BY <3>2 DEF MainTimeout, SyncAll, SyncInv, SyncTypes, Switches
    <3>3. QED
      BY <1>3, <3>1, <3>2
  <2>5. SyncTypes' /\ Switches' /\ Order'
    BY <2>1, <2>3, <2>4 DEF SyncAll, SyncInv, SyncTypes, Switches, Order
  <2>6. Alone'
    BY <2>1, <2>2 DEF SyncAll, SyncInv, Alone, Has, Requests
  <2>7. Counted' /\ Clocks'
    BY <2>1 DEF SyncAll, SyncInv, Counted, Clocks, Flying, Has
  <2>8. QED
    BY <2>5, <2>6, <2>7 DEF SyncAll, SyncInv
<1>4. QED
  BY <1>1, <1>2, <1>3 DEF Main

LEMMA SyncInvariant ==
  ASSUME NoPause, RoomForTwo
  PROVE  Spec => []SyncAll
<1>1. Init => SyncAll
  <2>1. SUFFICES ASSUME Init PROVE SyncAll
    OBVIOUS
  <2>2. \A m : ~Has(m)
    BY <2>1 DEF Init, Has
  <2>3. ~Flying
    BY <2>1, <2>2 DEF Init, Flying, Serves
  <2>4. SyncTypes
    <3>1. 0 \in 0..(CntMod - 1) /\ <<>> \in Seq(Messages)
      BY SyncAssumption
    <3>2. QED
      BY <2>1, <3>1 DEF Init, SyncTypes
  <2>5. Order /\ Switches /\ Counted
    BY <2>1, <2>3 DEF Init, Order, Switches, Counted
  <2>6. Alone
    BY <2>1, <2>2 DEF Init, Alone, Filled
  <2>7. DeltaTa \in Nat \ {0} /\ Tick \in Nat /\ DeltaTv \in Nat
    BY SyncAssumption
  <2>8. 0 < 0 + DeltaTa + Tick /\ 0 < 0 + DeltaTa + Tick + DeltaTv
    BY <2>7
  <2>9. Clocks
    BY <2>1, <2>3, <2>8 DEF Init, Clocks
  <2>10. QED
    BY <2>4, <2>5, <2>6, <2>9 DEF SyncAll, SyncInv
<1>2. SyncAll /\ [Next]_vars => SyncAll'
  <2>1. SUFFICES ASSUME SyncAll, [Next]_vars PROVE SyncAll'
    OBVIOUS
  <2>2. CASE TimerIsr
    BY <2>1, <2>2, TimerKeepsSync
  <2>3. CASE AudioChunk \/ AudioPut
    BY <2>1, <2>3, AudioKeepsSync
  <2>4. CASE EncodeOneFrame
    BY <2>1, <2>4, FrameKeepsSync
  <2>5. CASE StartOrResume
    BY <2>1, <2>5, StartKeepsSync
  <2>6. CASE StopOrPause
    BY <2>1, <2>6, StopKeepsSync
  <2>7. CASE FullBegin \/ FullAudio \/ FullEnd
    BY <2>1, <2>7, FullKeepsSync
  <2>8. CASE Main
    BY <2>1, <2>8, MainKeepsSync
  <2>9. CASE VidPick \/ VidPublish \/ UNCHANGED vars
    <3>1. UNCHANGED <<clockVars, q, ack, status, micOn, stateVars, audioVars, mainVars>>
      BY <2>9 DEF VidPick, VidPublish, vars
    <3>2. UNCHANGED <<q, timerOn, tv, ta, Tv, post_cnt, pend_cnt, ack, status, micOn, spc, apc, mpc,
                      open, audioOn>>
      BY <3>1 DEF clockVars, stateVars, audioVars, mainVars
    <3>3. SyncTypes' /\ Order' /\ Switches'
      BY <2>1, <3>2 DEF SyncAll, SyncInv, SyncTypes, Order, Switches
    <3>4. Alone'
      BY <2>1, <3>2 DEF SyncAll, SyncInv, Alone, Has
    <3>5. Counted' /\ Clocks'
      BY <2>1, <3>2 DEF SyncAll, SyncInv, Counted, Clocks, Flying, Has
    <3>6. QED
      BY <3>3, <3>4, <3>5 DEF SyncAll, SyncInv
  <2>10. QED
    BY <2>1, <2>2, <2>3, <2>4, <2>5, <2>6, <2>7, <2>8, <2>9 DEF Next, StateTask
<1>3. QED
  BY <1>1, <1>2, PTL DEF Spec

(* At most one frame is asked for at a time, and the two counters differ   *)
(* exactly by it, over every sequence of starts, stops and full disks.     *)
THEOREM OneFrameAlwaysInFlight ==
  ASSUME NoPause, RoomForTwo
  PROVE  Spec => []OneFrameInFlight
<1>1. SyncAll => OneFrameInFlight
  <2>1. SUFFICES ASSUME SyncAll PROVE OneFrameInFlight
    OBVIOUS
  <2> DEFINE Ones == {i \in 1..Len(q) : q[i] = "ONE"}
  <2>2. /\ Order /\ Alone /\ Counted /\ post_cnt \in 0..(CntMod - 1) /\ pend_cnt \in 0..(CntMod - 1)
        /\ CntMod \in Nat /\ CntMod >= 2
    BY <2>1, SyncAssumption DEF SyncAll, SyncInv, SyncTypes
  <2>3. spc \in {"idle", "full", "fullvideo"} <=> spc \notin Serves
    BY <2>1 DEF SyncAll, SyncInv, SyncTypes, Serves, Filled
  <2>4. Has("ONE") => Cardinality(Ones) = 1
    <3>1. SUFFICES ASSUME NEW k \in 1..Len(q), q[k] = "ONE" PROVE Cardinality(Ones) = 1
      BY DEF Has
    <3>2. Ones = {k}
      BY <2>2, <3>1 DEF Order
    <3>3. QED
      BY <3>2, FS_Singleton
  <2>5. ~Has("ONE") => Cardinality(Ones) = 0
    <3>1. ~Has("ONE") => Ones = {}
      BY DEF Has
    <3>2. QED
      BY <3>1, FS_EmptySet
  <2>6. InFlight = IF Flying THEN 1 ELSE 0
    <3>1. InFlight = Cardinality(Ones) + (IF spc \in Serves THEN 1 ELSE 0)
      BY <2>3 DEF InFlight
    <3>2. Has("ONE") => spc \notin Serves
      BY <2>2 DEF Alone, Serves
    <3> HIDE DEF Ones
    <3>3. CASE Has("ONE")
      BY <2>4, <3>1, <3>2, <3>3 DEF Flying
    <3>4. CASE ~Has("ONE")
      BY <2>5, <3>1, <3>4 DEF Flying
    <3>5. QED
      BY <3>3, <3>4
  <2>7. (post_cnt - pend_cnt) % CntMod = IF Flying THEN 1 ELSE 0
    <3>1. CASE ~Flying
      BY <2>2, <3>1 DEF Counted
    <3>2. CASE Flying /\ pend_cnt = CntMod - 1
      <4>1. post_cnt = 0
        BY <2>2, <3>2 DEF Counted, Succ
      <4>2. post_cnt - pend_cnt = 1 - CntMod
        BY <2>2, <3>2, <4>1
      <4>3. (1 - CntMod) % CntMod = 1
        BY <2>2
      <4>4. QED
        BY <3>2, <4>2, <4>3
    <3>3. CASE Flying /\ pend_cnt # CntMod - 1
      <4>1. pend_cnt + 1 \in 0..(CntMod - 1)
        BY <2>2, <3>3
      <4>2. (pend_cnt + 1) % CntMod = pend_cnt + 1
        BY <2>2, <4>1
      <4>3. post_cnt - pend_cnt = 1
        BY <2>2, <3>3, <4>2 DEF Counted, Succ
      <4>4. QED
        BY <2>2, <3>3, <4>3
    <3>4. QED
      BY <3>1, <3>2, <3>3
  <2>8. QED
    BY <2>6, <2>7 DEF OneFrameInFlight
<1>2. QED
  BY <1>1, SyncInvariant, PTL

(* Video does not run ahead of the audio in the file.                      *)
THEOREM VideoNeverAhead ==
  ASSUME NoPause, RoomForTwo
  PROVE  Spec => []VideoNotAhead
<1>1. SyncAll => VideoNotAhead
  BY DEF SyncAll, Clocks, VideoNotAhead
<1>2. QED
  BY <1>1, SyncInvariant, PTL
=============================================================================
