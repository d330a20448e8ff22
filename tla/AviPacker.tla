----------------------------- MODULE AviPacker -----------------------------
(***************************************************************************)
(* The AVI packer of application/avi_packer_src/src/AviPackerV3.c: callers *)
(* append chunks to a stream ring buffer and index entries to an index     *)
(* ring buffer (AviPackerV3_PutData), the packer task writes whole         *)
(* clusters and whole index blocks to two files (AviPackerV3_Task), and    *)
(* AviPackerV3_Close makes it flush, pad and patch the file and waits for  *)
(* its acknowledgement.                                                    *)
(*                                                                         *)
(* The unit of every index and length is the 4-byte word: the buffers are  *)
(* 4-aligned (AviPackerV3_Open refuses others) and every write goes        *)
(* through RING_BUF_ADD_4B_ALIGN or MemCpyAlign4.  Only the size of a      *)
(* chunk, cb, is in bytes.  A word is represented by the offset in its     *)
(* file that it is meant for, so a file is right iff the word at offset o  *)
(* is o; the padding of a JUNK chunk is read by nobody and counts as right *)
(* whatever it holds.  appended and idxAppended are history variables: the *)
(* words put into the two rings so far.                                    *)
(***************************************************************************)
EXTENDS Integers, Sequences

CONSTANTS
  Cluster,       \* CLUSTER_SIZE
  RingClusters,  \* RingBufSize / CLUSTER_SIZE
  IdxBlock,      \* IdxBlockSize, half of the index ring
  EntryWords,    \* sizeof(IDXDATA)
  HdrWords,      \* OrgHdrLen
  InfoWords,     \* info_len when Close is called
  VideoSizes,    \* cbLen of the '00dc' chunks; 0 is a null frame
  AudioSizes,    \* cbLen of the '01wb' chunks
  AudExist,      \* Flag & AVIPACKER_FLAG_AUD_EXIST
  ErrAction,     \* what the registered ErrHandler returns
  StopFirst,     \* TRUE: PutData is not called once Close has been
  MsgqSize,      \* MSGQ_SIZE
  ShortMod,      \* values of a short: MsgTx and MsgRx wrap at it
  MaxPuts        \* bound: calls of PutData in a behaviour

Producers == {"video", "audio"}
Closer == "closer"
Nobody == "nobody"

Sizes(p) == IF p = "video" THEN VideoSizes ELSE AudioSizes

ASSUME PackerAssumption ==
  /\ Cluster \in Nat /\ RingClusters \in Nat /\ RingClusters >= 2
  /\ IdxBlock \in Nat /\ EntryWords \in Nat \ {0} /\ IdxBlock >= EntryWords
  /\ HdrWords \in Nat /\ HdrWords > 0 /\ HdrWords < Cluster /\ Cluster >= 4
  /\ InfoWords \in Nat /\ InfoWords + 4 <= IdxBlock
  /\ VideoSizes \subseteq Nat /\ AudioSizes \subseteq Nat
  /\ AudExist \in BOOLEAN /\ ErrAction \in {0, 1} /\ StopFirst \in BOOLEAN
  /\ MsgqSize \in Nat /\ MsgqSize >= 2
  /\ ShortMod \in Nat /\ ShortMod >= 2
  /\ MaxPuts \in Nat

RingSize == RingClusters * Cluster
IdxRingSize == 2 * IdxBlock

VARIABLES
  ring, WI, RI,          \* stream ring: slots, write and read index
  idx, IdxWI, IdxRI,     \* index ring
  MoviCnt, IdxChkSize,   \* counters the header is patched from
  StreamJunk, IndexJunk, \* StreamJunkCnt, IndexJunkCnt
  lastIdx,               \* lastIdx_flag
  msgq, MsgTx, MsgRx,    \* message queue and wake-up counters
  sem, waiters, open,    \* Sem: its owner, who pends on it, handle not NULL
  ack,                   \* the Ack mailbox holds AVIPACKER_ACK_OK
  ppc, chunk, puts,      \* callers of PutData: where they are, their cbLen
  cpc,                   \* the caller of Close
  tpc, phase, cur, lim, wrote, \* the packer task and its locals
  failed,                \* some file operation of the task has failed
  file, fidx, hdr,       \* the stream file, the index file, the patched lengths
  appended, idxAppended  \* history: words put into the rings

streamVars == <<ring, WI, MoviCnt, appended>>
indexVars  == <<idx, IdxWI, IdxChkSize, idxAppended, lastIdx>>
junkVars   == <<StreamJunk, IndexJunk>>
msgVars    == <<msgq, MsgTx>>
semVars    == <<sem, waiters, open>>
putVars    == <<ppc, chunk, puts>>
taskVars   == <<tpc, phase, cur, lim, wrote, failed, MsgRx, RI, IdxRI, file, fidx, hdr>>
vars == <<streamVars, indexVars, junkVars, msgVars, semVars, ack, putVars, cpc, taskVars>>
-----------------------------------------------------------------------------
(* Ring arithmetic.                                                        *)

Wrap(i, size) == IF i >= size THEN i - size ELSE i

(* Slot s lies this many words after slot i.                               *)
Dist(i, s, size) == IF s >= i THEN s - i ELSE s - i + size

(* The ring r after n words, the first meant for offset o, went in at slot i. *)
Filled(r, size, i, n, o) ==
  [s \in 0..(size - 1) |->
     IF Dist(i, s, size) < n THEN o + Dist(i, s, size) ELSE r[s]]

(* cnt of the space checks: a ring with equal indices counts as empty.     *)
Space(rd, wr, size) == IF rd - wr <= 0 THEN rd - wr + size ELSE rd - wr

RealSize(cb) == cb + (cb % 2)    \* cbRealChunkSize: forced to even

(* Header, data, and the half word that makes an odd number of half words  *)
(* share a word with the first half of a JUNK chunk of two more words.     *)
ChunkWords(cb) ==
  2 + (RealSize(cb) \div 4) + (IF RealSize(cb) % 4 = 2 THEN 3 ELSE 0)

IsNull(p, cb) == p = "video" /\ cb = 0 /\ lastIdx
-----------------------------------------------------------------------------
(* AviPackerV3_Open has created the task and put the file header into the  *)
(* stream ring; the 'movi' tag is the first word of the movi list.         *)
Init ==
  /\ ring = [s \in 0..(RingSize - 1) |-> s]
  /\ WI = HdrWords /\ RI = 0 /\ appended = HdrWords
  /\ idx = [s \in 0..(IdxRingSize - 1) |-> s]
  /\ IdxWI = 0 /\ IdxRI = 0 /\ idxAppended = 0
  /\ MoviCnt = 1 /\ IdxChkSize = 0 /\ lastIdx = FALSE
  /\ StreamJunk = 0 /\ IndexJunk = 0
  /\ msgq = <<>> /\ MsgTx = 0 /\ MsgRx = 0
  /\ sem = Nobody /\ waiters = {} /\ open = TRUE /\ ack = FALSE
  /\ ppc = [p \in Producers |-> "idle"] /\ chunk = [p \in Producers |-> 0] /\ puts = 0
  /\ cpc = "idle"
  /\ tpc = "pend" /\ phase = "run" /\ cur = 0 /\ lim = 0 /\ wrote = FALSE
  /\ failed = FALSE
  /\ file = <<>> /\ fidx = <<>> /\ hdr = [riff |-> 0, movi |-> 0]
-----------------------------------------------------------------------------
(* The semaphore Sem.  OSSemPend on a NULL handle returns an error.        *)

SemPend(c) ==
  /\ open
  /\ IF sem = Nobody
       THEN sem' = c /\ UNCHANGED waiters
       ELSE waiters' = waiters \cup {c} /\ UNCHANGED sem
  /\ UNCHANGED open

(* OSSemPost hands the semaphore to a waiter; on a NULL handle it fails.    *)
SemPost ==
  /\ IF ~open THEN UNCHANGED <<sem, waiters>>
     ELSE IF waiters = {} THEN sem' = Nobody /\ UNCHANGED waiters
     ELSE \E w \in waiters : sem' = w /\ waiters' = waiters \ {w}
  /\ UNCHANGED open
-----------------------------------------------------------------------------
(* AviPackerV3_PutData, called by the encoder's state task for video and   *)
(* by the audio task.                                                      *)

PutCall(p) ==
  /\ ppc[p] = "idle" /\ puts < MaxPuts
  /\ StopFirst => cpc = "idle"
  /\ SemPend(p)
  /\ \E cb \in Sizes(p) : chunk' = [chunk EXCEPT ![p] = cb]
  /\ ppc' = [ppc EXCEPT ![p] = "check"]
  /\ puts' = puts + 1
  /\ UNCHANGED <<streamVars, indexVars, junkVars, msgVars, ack, cpc, taskVars>>

(* Variants: the chunk header is forgotten; the last index slot is taken.   *)
HasSpaceNoHeader(p) ==
  /\ Space(IdxRI, IdxWI, IdxRingSize) > EntryWords
  /\ 4 * Space(RI, WI, RingSize) > RealSize(chunk[p])

HasSpaceLastEntry(p) ==
  /\ Space(IdxRI, IdxWI, IdxRingSize) >= EntryWords
  /\ 4 * Space(RI, WI, RingSize) > RealSize(chunk[p]) + 8

(* The two space checks of AviPackerV3_PutData.                            *)
HasSpace(p) ==
  /\ Space(IdxRI, IdxWI, IdxRingSize) > EntryWords
  /\ 4 * Space(RI, WI, RingSize) > RealSize(chunk[p]) + 8

(* A return that leaves the rings alone: a full ring, or an audio chunk of *)
(* a file without audio (AVIPACKER_RESULT_IGNORE_CHUNK).                   *)
PutRefused(p) ==
  /\ ppc[p] = "check" /\ sem = p
  /\ \/ ~HasSpace(p)
     \/ p = "audio" /\ ~AudExist
  /\ SemPost
  /\ ppc' = [ppc EXCEPT ![p] = "idle"]
  /\ UNCHANGED <<streamVars, indexVars, junkVars, msgVars, ack, chunk, puts, cpc, taskVars>>

AddEntry ==
  /\ idx' = Filled(idx, IdxRingSize, IdxWI, EntryWords, idxAppended)
  /\ IdxWI' = Wrap(IdxWI + EntryWords, IdxRingSize)
  /\ IdxChkSize' = IdxChkSize + EntryWords
  /\ idxAppended' = idxAppended + EntryWords

(* Variant: the repeated entry is not counted.                             *)
PutNullUncounted(p) ==
  /\ ppc[p] = "check" /\ sem = p /\ HasSpace(p) /\ IsNull(p, chunk[p])
  /\ idx' = Filled(idx, IdxRingSize, IdxWI, EntryWords, idxAppended)
  /\ IdxWI' = Wrap(IdxWI + EntryWords, IdxRingSize)
  /\ idxAppended' = idxAppended + EntryWords
  /\ SemPost
  /\ ppc' = [ppc EXCEPT ![p] = "idle"]
  /\ UNCHANGED <<streamVars, IdxChkSize, lastIdx, junkVars, msgVars, ack, chunk, puts, cpc, taskVars>>

(* A null frame after a coded one repeats the last index entry and returns *)
(* without waking the task.                                                *)
PutNull(p) ==
  /\ ppc[p] = "check" /\ sem = p /\ HasSpace(p) /\ IsNull(p, chunk[p])
  /\ AddEntry
  /\ SemPost
  /\ ppc' = [ppc EXCEPT ![p] = "idle"]
  /\ UNCHANGED <<streamVars, lastIdx, junkVars, msgVars, ack, chunk, puts, cpc, taskVars>>

PutIndex(p) ==
  /\ ppc[p] = "check" /\ sem = p /\ HasSpace(p) /\ ~IsNull(p, chunk[p])
  /\ p = "audio" => AudExist
  /\ AddEntry
  /\ lastIdx' = (lastIdx \/ (p = "video" /\ chunk[p] # 0))
  /\ ppc' = [ppc EXCEPT ![p] = "data"]
  /\ UNCHANGED <<streamVars, junkVars, msgVars, semVars, ack, chunk, puts, cpc, taskVars>>

PutStream(p) ==
  /\ ppc[p] = "data"
  /\ LET n == ChunkWords(chunk[p])
     IN  /\ ring' = Filled(ring, RingSize, WI, n, appended)
         /\ WI' = Wrap(WI + n, RingSize)
         /\ MoviCnt' = MoviCnt + n
         /\ appended' = appended + n
  /\ ppc' = [ppc EXCEPT ![p] = "notify"]
  /\ UNCHANGED <<indexVars, junkVars, msgVars, semVars, ack, chunk, puts, cpc, taskVars>>

(* Variant: every chunk posts a wake-up.                                   *)
PutNotifyAlways(p) ==
  /\ ppc[p] = "notify"
  /\ msgq' = Append(msgq, "WRITE")
  /\ ppc' = [ppc EXCEPT ![p] = "count"]
  /\ UNCHANGED <<streamVars, indexVars, junkVars, MsgTx, semVars, ack, chunk, puts, cpc, taskVars>>

(* The task is woken only if it has taken the last wake-up.  OSQPost fails *)
(* on a full queue and on the NULL handle Close leaves behind.             *)
PutNotify(p) ==
  /\ ppc[p] = "notify"
  /\ IF MsgTx = MsgRx /\ open /\ Len(msgq) < MsgqSize
       THEN /\ msgq' = Append(msgq, "WRITE")
            /\ ppc' = [ppc EXCEPT ![p] = "count"]
       ELSE /\ UNCHANGED msgq
            /\ ppc' = [ppc EXCEPT ![p] = "leave"]
  /\ UNCHANGED <<streamVars, indexVars, junkVars, MsgTx, semVars, ack, chunk, puts, cpc, taskVars>>

PutCount(p) ==
  /\ ppc[p] = "count"
  /\ MsgTx' = (MsgTx + 1) % ShortMod
  /\ ppc' = [ppc EXCEPT ![p] = "leave"]
  /\ UNCHANGED <<streamVars, indexVars, junkVars, msgq, semVars, ack, chunk, puts, cpc, taskVars>>

PutLeave(p) ==
  /\ ppc[p] = "leave"
  /\ SemPost
  /\ ppc' = [ppc EXCEPT ![p] = "idle"]
  /\ UNCHANGED <<streamVars, indexVars, junkVars, msgVars, ack, chunk, puts, cpc, taskVars>>

Put(p) ==
  \/ PutCall(p) \/ PutRefused(p) \/ PutNull(p) \/ PutIndex(p)
  \/ PutStream(p) \/ PutNotify(p) \/ PutCount(p) \/ PutLeave(p)
-----------------------------------------------------------------------------
(* AviPackerV3_Close.                                                      *)

CloseCall ==
  /\ cpc = "idle"
  /\ StopFirst => \A p \in Producers : ppc[p] = "idle"
  /\ SemPend(Closer)
  /\ cpc' = "post"
  /\ UNCHANGED <<streamVars, indexVars, junkVars, msgVars, ack, putVars, taskVars>>

(* A failed post would return with the semaphore still held.               *)
ClosePost ==
  /\ cpc = "post" /\ sem = Closer
  /\ IF Len(msgq) < MsgqSize
       THEN msgq' = Append(msgq, "STOP") /\ cpc' = "ack"
       ELSE cpc' = "failed" /\ UNCHANGED msgq
  /\ UNCHANGED <<streamVars, indexVars, junkVars, MsgTx, semVars, ack, putVars, taskVars>>

CloseAck ==
  /\ cpc = "ack" /\ ack
  /\ ack' = FALSE
  /\ SemPost
  /\ cpc' = "delete"
  /\ UNCHANGED <<streamVars, indexVars, junkVars, msgVars, putVars, taskVars>>

(* OSSemDel refuses to delete a semaphore a task pends on, but the handle  *)
(* is cleared all the same.                                                *)
CloseDelete ==
  /\ cpc = "delete"
  /\ open' = FALSE
  /\ cpc' = "closed"
  /\ UNCHANGED <<streamVars, indexVars, junkVars, msgVars, sem, waiters, ack, putVars, taskVars>>

Close == CloseCall \/ ClosePost \/ CloseAck \/ CloseDelete
-----------------------------------------------------------------------------
(* AviPackerV3_Task with FileStreamWrite_x32KB and IndexWriteBlocks.       *)

callerVars == <<msgVars, semVars, putVars, cpc>>

(* Variant: the wake-up taken is not counted.                              *)
PendUncounted ==
  /\ tpc = "pend" /\ msgq # <<>>
  /\ msgq' = Tail(msgq)
  /\ tpc' = "snap"
  /\ wrote' = FALSE
  /\ phase' = IF Head(msgq) = "WRITE" THEN phase ELSE "stop"
  /\ UNCHANGED <<streamVars, indexVars, junkVars, MsgTx, semVars, ack, putVars, cpc,
                 cur, lim, failed, MsgRx, RI, IdxRI, file, fidx, hdr>>

Pend ==
  /\ tpc = "pend" /\ msgq # <<>>
  /\ msgq' = Tail(msgq)
  /\ tpc' = "snap"
  /\ wrote' = FALSE
  /\ IF Head(msgq) = "WRITE"
       THEN MsgRx' = (MsgRx + 1) % ShortMod /\ UNCHANGED phase
       ELSE phase' = "stop" /\ UNCHANGED MsgRx
  /\ UNCHANGED <<streamVars, indexVars, junkVars, MsgTx, semVars, ack, putVars, cpc,
                 cur, lim, failed, RI, IdxRI, file, fidx, hdr>>

(* FileStreamWrite_x32KB takes a snapshot of WI, rounded down, and of RI.  *)
SnapStream ==
  /\ tpc = "snap"
  /\ lim' = (WI \div Cluster) * Cluster
  /\ cur' = RI
  /\ IF lim' = cur'
       THEN /\ tpc' = IF phase = "tail" THEN "header" ELSE "isnap"
            /\ UNCHANGED wrote
       ELSE tpc' = "write" /\ wrote' = TRUE
  /\ UNCHANGED <<streamVars, indexVars, junkVars, callerVars, ack,
                 phase, failed, MsgRx, RI, IdxRI, file, fidx, hdr>>

(* What a failed file operation makes of the task: the handler decides.    *)
OnError(next) ==
  /\ failed' = TRUE
  /\ tpc' = IF ErrAction = 1 THEN "errmode" ELSE next

(* write() delivers the cluster, or fails after some of its words.         *)
WriteCluster ==
  /\ tpc = "write"
  /\ \/ /\ file' = file \o [i \in 1..Cluster |-> ring[cur + i - 1]]
        /\ tpc' = "publish"
        /\ UNCHANGED failed
     \/ /\ \E n \in 0..(Cluster - 1) :
             file' = file \o [i \in 1..n |-> ring[cur + i - 1]]
        /\ OnError("publish")
  /\ cur' = IF tpc' = "publish" THEN Wrap(cur + Cluster, RingSize) ELSE cur
  /\ UNCHANGED <<streamVars, indexVars, junkVars, callerVars, ack,
                 phase, lim, wrote, MsgRx, RI, IdxRI, fidx, hdr>>

PublishRI ==
  /\ tpc = "publish"
  /\ RI' = cur
  /\ tpc' = IF cur # lim THEN "write" ELSE IF phase = "tail" THEN "header" ELSE "isnap"
  /\ UNCHANGED <<streamVars, indexVars, junkVars, callerVars, ack,
                 phase, cur, lim, wrote, failed, MsgRx, IdxRI, file, fidx, hdr>>

(* Where the task goes once IndexWriteBlocks has returned w as write_flag. *)
AfterIndex(w) ==
  tpc' = CASE phase = "run"  -> IF w THEN "snap" ELSE "pend"
           [] phase = "stop" -> "info"
           [] phase = "info" -> "tail"

SnapIndex ==
  /\ tpc = "isnap"
  /\ lim' = (IdxWI \div IdxBlock) * IdxBlock
  /\ cur' = IdxRI
  /\ IF lim' = cur'
       THEN AfterIndex(wrote) /\ wrote' = FALSE
       ELSE tpc' = "iwrite" /\ wrote' = TRUE
  /\ UNCHANGED <<streamVars, indexVars, junkVars, callerVars, ack,
                 phase, failed, MsgRx, RI, IdxRI, file, fidx, hdr>>

WriteBlock ==
  /\ tpc = "iwrite"
  /\ \/ /\ fidx' = fidx \o [i \in 1..IdxBlock |-> idx[cur + i - 1]]
        /\ tpc' = "ipublish"
        /\ UNCHANGED failed
     \/ /\ \E n \in 0..(IdxBlock - 1) :
             fidx' = fidx \o [i \in 1..n |-> idx[cur + i - 1]]
        /\ OnError("ipublish")
  /\ cur' = IF tpc' = "ipublish" THEN Wrap(cur + IdxBlock, IdxRingSize) ELSE cur
  /\ UNCHANGED <<streamVars, indexVars, junkVars, callerVars, ack,
                 phase, lim, wrote, MsgRx, RI, IdxRI, file, hdr>>

PublishIdxRI ==
  /\ tpc = "ipublish"
  /\ IdxRI' = cur
  /\ IF cur # lim
       THEN tpc' = "iwrite" /\ UNCHANGED wrote
       ELSE AfterIndex(wrote) /\ wrote' = FALSE
  /\ UNCHANGED <<streamVars, indexVars, junkVars, callerVars, ack,
                 phase, cur, lim, failed, MsgRx, RI, file, fidx, hdr>>

(* The INFO list and a JUNK chunk go after the index entries, without a    *)
(* look at the space that is left.                                         *)
AddInfo ==
  /\ tpc = "info"
  /\ LET after == Wrap(IdxWI + 2 + InfoWords, IdxRingSize)
         junk  == (IdxBlock - after - 2) % IdxBlock
         n     == 2 + InfoWords + 2 + junk
     IN  /\ IndexJunk' = junk
         /\ idx' = Filled(idx, IdxRingSize, IdxWI, n, idxAppended)
         /\ IdxWI' = Wrap(Wrap(after + 2, IdxRingSize) + junk, IdxRingSize)
         /\ idxAppended' = idxAppended + n
  /\ phase' = "info" /\ tpc' = "isnap" /\ wrote' = FALSE
  /\ UNCHANGED <<streamVars, lastIdx, IdxChkSize, StreamJunk, callerVars, ack,
                 cur, lim, failed, MsgRx, RI, IdxRI, file, fidx, hdr>>

(* Variant: the idx1 header is not reckoned with in the padding.            *)
AddTailShort ==
  /\ tpc = "tail"
  /\ LET junk == (Cluster - WI - 2) % Cluster
         n    == junk + 4
     IN  /\ StreamJunk' = junk
         /\ ring' = Filled(ring, RingSize, WI, n, appended)
         /\ WI' = Wrap(WI + n, RingSize)
         /\ appended' = appended + n
  /\ phase' = "tail" /\ tpc' = "snap" /\ wrote' = FALSE
  /\ UNCHANGED <<indexVars, MoviCnt, IndexJunk, callerVars, ack,
                 cur, lim, failed, MsgRx, RI, IdxRI, file, fidx, hdr>>

(* A JUNK chunk and the header of the idx1 chunk pad the stream file.      *)
AddTail ==
  /\ tpc = "tail"
  /\ LET junk == (Cluster - WI - 4) % Cluster
         n    == junk + 4
     IN  /\ StreamJunk' = junk
         /\ ring' = Filled(ring, RingSize, WI, n, appended)
         /\ WI' = Wrap(WI + n, RingSize)
         /\ appended' = appended + n
  /\ phase' = "tail" /\ tpc' = "snap" /\ wrote' = FALSE
  /\ UNCHANGED <<indexVars, MoviCnt, IndexJunk, callerVars, ack,
                 cur, lim, failed, MsgRx, RI, IdxRI, file, fidx, hdr>>

(* The header is read back, patched with the lengths (in bytes) and        *)
(* written over the first words of the file.                               *)
PatchHeader ==
  /\ tpc = "header"
  /\ \/ /\ hdr' = [riff |-> (4 * HdrWords - 8 - 12) + 8 + 4 * MoviCnt + 8 + 4 * StreamJunk
                            + 8 + 4 * IdxChkSize + 8 + 4 * InfoWords + 8 + 4 * IndexJunk,
                   movi |-> 4 * MoviCnt]
        /\ tpc' = "ack"
        /\ UNCHANGED failed
     \/ OnError("ack") /\ UNCHANGED hdr
  /\ UNCHANGED <<streamVars, indexVars, junkVars, callerVars, ack,
                 phase, cur, lim, wrote, MsgRx, RI, IdxRI, file, fidx>>

(* ErrMode: the queue is drained until a stop message, even if the task    *)
(* has taken one before the error.                                         *)
Drain ==
  /\ tpc = "errmode" /\ msgq # <<>>
  /\ msgq' = Tail(msgq)
  /\ tpc' = IF Head(msgq) = "STOP" THEN "ack" ELSE tpc
  /\ UNCHANGED <<streamVars, indexVars, junkVars, MsgTx, semVars, ack, putVars, cpc,
                 phase, cur, lim, wrote, failed, MsgRx, RI, IdxRI, file, fidx, hdr>>

(* Variant: no acknowledgement.                                            *)
PostAckForgotten ==
  /\ tpc = "ack"
  /\ tpc' = "dead"
  /\ UNCHANGED <<streamVars, indexVars, junkVars, callerVars, ack,
                 phase, cur, lim, wrote, failed, MsgRx, RI, IdxRI, file, fidx, hdr>>

PostAck ==
  /\ tpc = "ack"
  /\ ack' = TRUE
  /\ tpc' = "dead"
  /\ UNCHANGED <<streamVars, indexVars, junkVars, callerVars,
                 phase, cur, lim, wrote, failed, MsgRx, RI, IdxRI, file, fidx, hdr>>

Task ==
  \/ Pend \/ SnapStream \/ WriteCluster \/ PublishRI \/ SnapIndex \/ WriteBlock
  \/ PublishIdxRI \/ AddInfo \/ AddTail \/ PatchHeader \/ Drain \/ PostAck

Next == (\E p \in Producers : Put(p)) \/ Close \/ Task

Spec == Init /\ [][Next]_vars
-----------------------------------------------------------------------------
(* Fairness: the scheduler is preemptive with fixed priorities and every   *)
(* task blocks between two pieces of work, so a task that stays ready runs; *)
(* a write() returns.  Nobody has to call PutData or Close.                *)
Fairness ==
  /\ WF_vars(Task)
  /\ WF_vars(ClosePost \/ CloseAck \/ CloseDelete)
  /\ \A p \in Producers : WF_vars(Put(p) /\ ~PutCall(p))

FairSpec == Spec /\ Fairness
-----------------------------------------------------------------------------
StreamEnd == HdrWords + MoviCnt - 1

TypeOK ==
  /\ WI \in 0..(RingSize - 1) /\ RI \in 0..(RingSize - 1)
  /\ IdxWI \in 0..(IdxRingSize - 1) /\ IdxRI \in 0..(IdxRingSize - 1)
  /\ ring \in [0..(RingSize - 1) -> Nat] /\ idx \in [0..(IdxRingSize - 1) -> Nat]
  /\ MoviCnt \in Nat /\ IdxChkSize \in Nat /\ appended \in Nat /\ idxAppended \in Nat
  /\ StreamJunk \in 0..(Cluster - 1) /\ IndexJunk \in 0..(IdxBlock - 1)
  /\ lastIdx \in BOOLEAN /\ open \in BOOLEAN /\ ack \in BOOLEAN
  /\ wrote \in BOOLEAN /\ failed \in BOOLEAN
  /\ msgq \in Seq({"WRITE", "STOP"})
  /\ MsgTx \in 0..(ShortMod - 1) /\ MsgRx \in 0..(ShortMod - 1)
  /\ sem \in Producers \cup {Closer, Nobody} /\ waiters \subseteq Producers \cup {Closer}
  /\ ppc \in [Producers -> {"idle", "check", "data", "notify", "count", "leave"}]
  /\ chunk \in [Producers -> Nat] /\ puts \in 0..MaxPuts
  /\ cpc \in {"idle", "post", "ack", "delete", "closed", "failed"}
  /\ tpc \in {"pend", "snap", "write", "publish", "isnap", "iwrite", "ipublish",
              "info", "tail", "header", "errmode", "ack", "dead"}
  /\ phase \in {"run", "stop", "info", "tail"}
  /\ cur \in Nat /\ lim \in Nat
  /\ file \in Seq(Nat) /\ fidx \in Seq(Nat)
  /\ hdr \in [riff : Int, movi : Nat]

(* Each file holds, in order and without a gap, the words the callers have *)
(* put into its ring: no word is overwritten before the task has written   *)
(* it, and none is written before its time (PutData's space checks, the    *)
(* snapshots of the write indices and the late update of the read ones).   *)
StreamIsRight == \A i \in 1..Len(file) : file[i] = i - 1

IndexIsRight == \A i \in 1..Len(fidx) : fidx[i] = i - 1

(* When Close gets a good acknowledgement, every word of the stream has    *)
(* reached the stream file, which is a whole number of clusters.           *)
StreamComplete ==
  ack /\ ~failed => Len(file) = appended /\ Len(file) % Cluster = 0

(* Room for the INFO list and its JUNK header in the last index block.     *)
InfoFits == (IdxChkSize % IdxBlock) + InfoWords + 4 <= IdxBlock

(* The patched header agrees with the files: once the index file is merged *)
(* behind the stream file, the RIFF length and the movi length are those   *)
(* of the merged file (the code at 643-653 adds them up from counters).    *)
HeaderMatchesFile ==
  ack /\ ~failed /\ InfoFits =>
    /\ hdr.riff + 8 = 4 * (Len(file) + Len(fidx))
    /\ hdr.movi + 4 * (HdrWords - 1) + 4 * (4 + StreamJunk) = 4 * Len(file)

(* No wake-up is lost: while the task waits for a message and a whole      *)
(* cluster waits to be written, a message is queued, or a caller is about  *)
(* to look at MsgTx and MsgRx.                                             *)
NoLostWakeup ==
  (/\ tpc = "pend" /\ open
   /\ (WI \div Cluster) * Cluster # RI
   /\ \A p \in Producers : ppc[p] # "notify")
  => msgq # <<>>

(* The message queue never holds more than a wake-up and the stop message, *)
(* so neither post fails and Close never returns with the semaphore held.  *)
QueueNeverFull == Len(msgq) <= 2 /\ cpc # "failed"

(* One caller at a time is between the space check and the end of PutData. *)
OneWriter ==
  \A p, q \in Producers :
    ppc[p] \in {"data", "notify", "count"} /\ ppc[q] \in {"data", "notify", "count"} => p = q

(* With a handler that stops the task (it returns 1), nothing is written   *)
(* to either file after the first failed operation.                        *)
NoWriteAfterError == [][failed /\ ErrAction = 1 => UNCHANGED <<file, fidx>>]_vars

(* A file operation fails after the task has taken the stop message.       *)
LateError == tpc = "errmode" /\ phase # "run"

(* Close returns (AviPackerV3.h:154-158), unless a file operation fails    *)
(* during the final flush.                                                 *)
CloseReturnsOrLateError == (cpc = "post") ~> (cpc = "closed" \/ LateError)

-----------------------------------------------------------------------------
(* What the packer promises its callers: an append-only file.              *)
Log == INSTANCE AppendFile WITH
  accepted <- appended,
  state <- IF failed THEN "broken" ELSE IF ack \/ tpc = "dead" THEN "closed" ELSE "open"

(* The ring buffers, the wake-ups and the closing protocol implement it.    *)
ImplementsAppendFile == Log!Spec
=============================================================================
