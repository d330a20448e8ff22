-------------------------- MODULE AviPackerProofs --------------------------
(***************************************************************************)
(* Proofs about the AVI packer.  Layer 1 is the protocol between PutData,  *)
(* Close and the task: who holds the semaphore, where the stop message is  *)
(* and where the wake-ups are.  Layer 2 is the arithmetic of the stream    *)
(* ring, layer 3 the append-only file, layer 4 the index ring and the      *)
(* lengths in the file header.                                             *)
(***************************************************************************)
EXTENDS AviPacker, TLAPS, SequenceTheorems

-----------------------------------------------------------------------------
(* Layer 1: the control variables.                                         *)

NoStop == \A i \in 1..Len(msgq) : msgq[i] = "WRITE"

LastIsStop ==
  /\ msgq # <<>>
  /\ msgq[Len(msgq)] = "STOP"
  /\ \A i \in 1..(Len(msgq) - 1) : msgq[i] = "WRITE"

ControlTypes ==
  /\ msgq \in Seq({"WRITE", "STOP"})
  /\ sem \in Producers \cup {Closer, Nobody} /\ waiters \subseteq Producers \cup {Closer}
  /\ open \in BOOLEAN /\ ack \in BOOLEAN /\ failed \in BOOLEAN
  /\ ppc \in [Producers -> {"idle", "check", "data", "notify", "count", "leave"}]
  /\ cpc \in {"idle", "post", "ack", "delete", "closed", "failed"}

(* A caller past the space check holds the semaphore, and so does Close    *)
(* while it waits for the acknowledgement.                                 *)
Holders ==
  /\ \A p \in Producers : ppc[p] \in {"data", "notify", "count", "leave"} => sem = p
  /\ cpc = "ack" => sem = Closer

(* The step the task is at fits the phase it is in.                        *)
TaskShape ==
  \/ tpc = "pend" /\ phase = "run"
  \/ tpc \in {"snap", "write", "publish"} /\ phase \in {"run", "stop", "tail"}
  \/ tpc \in {"isnap", "iwrite", "ipublish"} /\ phase \in {"run", "stop", "info"}
  \/ tpc = "info" /\ phase = "stop"
  \/ tpc = "tail" /\ phase = "info"
  \/ tpc = "header" /\ phase = "tail"
  \/ tpc = "errmode" /\ phase \in {"run", "stop", "info", "tail"}
  \/ tpc \in {"ack", "dead"} /\ phase \in {"run", "stop", "info", "tail"}

(* The task has taken the stop message.                                    *)
Stopped == phase # "run" \/ tpc \in {"ack", "dead"}

(* There is one stop message, it is the last message, and the task passes  *)
(* into its closing phases only while Close waits for the acknowledgement. *)
StopOnce ==
  /\ cpc \in {"idle", "post", "failed"} => NoStop /\ ~Stopped
  /\ cpc = "ack" => IF Stopped THEN NoStop ELSE LastIsStop
  /\ cpc \in {"delete", "closed"} => tpc = "dead" /\ NoStop
  /\ ack => tpc = "dead" /\ cpc = "ack"

Protocol == ControlTypes /\ Holders /\ TaskShape /\ StopOnce

(* What taking a message does to the queue.                                *)
LEMMA TailFacts ==
  ASSUME NEW s \in Seq({"WRITE", "STOP"}), s # <<>>
  PROVE  /\ Len(s) \in Nat \ {0} /\ Len(Tail(s)) = Len(s) - 1
         /\ Tail(s) \in Seq({"WRITE", "STOP"})
         /\ Head(s) = s[1]
         /\ \A i \in 1..(Len(s) - 1) : Tail(s)[i] = s[i + 1]
         /\ Len(s) # 1 => Tail(s) # <<>>
<1>1. Len(s) \in Nat \ {0} /\ Head(s) = s[1]
  OBVIOUS
<1>2. Len(Tail(s)) = Len(s) - 1 /\ Tail(s) \in Seq({"WRITE", "STOP"})
  OBVIOUS
<1>3. \A i \in 1..(Len(s) - 1) : Tail(s)[i] = s[i + 1]
  OBVIOUS
<1>4. Len(s) # 1 => Tail(s) # <<>>
  BY <1>1, <1>2, SMTT(30)
<1>5. QED
  BY <1>1, <1>2, <1>3, <1>4

LEMMA InitProtocol == Init => Protocol
<1>1. Init => NoStop
  BY DEF Init, NoStop
<1>2. Init => ControlTypes
  <2>1. <<>> \in Seq({"WRITE", "STOP"})
    BY EmptySeq
  <2>2. Init => ppc \in [Producers -> {"idle", "check", "data", "notify", "count", "leave"}]
    BY DEF Init
  <2>3. QED
    BY <2>1, <2>2 DEF Init, ControlTypes, Nobody
<1>3. Init => Holders
  BY DEF Init, Holders
<1>4. Init => TaskShape
  BY DEF Init, TaskShape
<1>5. Init => StopOnce
  BY <1>1 DEF Init, StopOnce, Stopped
<1>6. QED
  BY <1>2, <1>3, <1>4, <1>5 DEF Protocol

LEMMA ProtocolStep == Protocol /\ [Next]_vars => Protocol'
<1> SUFFICES ASSUME Protocol, [Next]_vars PROVE Protocol'
  OBVIOUS
<1> USE DEF Protocol, ControlTypes, Holders, TaskShape, StopOnce, Stopped,
            Producers, Closer, Nobody, streamVars, indexVars, junkVars, msgVars, semVars,
            putVars, taskVars, callerVars
<1>1. ASSUME NEW p \in Producers, PutCall(p) PROVE Protocol'
  BY <1>1, ZenonT(60) DEF PutCall, SemPend, NoStop, LastIsStop
<1>2. ASSUME NEW p \in Producers, PutRefused(p) PROVE Protocol'
  BY <1>2 DEF PutRefused, SemPost, NoStop, LastIsStop
<1>3. ASSUME NEW p \in Producers, PutNull(p) PROVE Protocol'
  BY <1>3 DEF PutNull, SemPost, NoStop, LastIsStop
<1>4. ASSUME NEW p \in Producers, PutIndex(p) PROVE Protocol'
  BY <1>4 DEF PutIndex, NoStop, LastIsStop
<1>5. ASSUME NEW p \in Producers, PutStream(p) PROVE Protocol'
  BY <1>5 DEF PutStream, NoStop, LastIsStop
<1>6. ASSUME NEW p \in Producers, PutNotify(p) PROVE Protocol'
  <2>1. cpc # "ack"
    BY <1>6 DEF PutNotify
  <2>2. NoStop => NoStop'
    BY <1>6 DEF PutNotify, NoStop
  <2>3. QED
    BY <1>6, <2>1, <2>2, SMTT(30) DEF PutNotify
<1>7. ASSUME NEW p \in Producers, PutCount(p) PROVE Protocol'
  BY <1>7 DEF PutCount, NoStop, LastIsStop
<1>8. ASSUME NEW p \in Producers, PutLeave(p) PROVE Protocol'
  BY <1>8 DEF PutLeave, SemPost, NoStop, LastIsStop
<1>9. ASSUME CloseCall PROVE Protocol'
  BY <1>9 DEF CloseCall, SemPend, NoStop, LastIsStop
<1>10. ASSUME ClosePost PROVE Protocol'
  <2>1. NoStop /\ ~Stopped
    BY <1>10 DEF ClosePost
  <2>2. CASE Len(msgq) < MsgqSize
    <3>1. msgq' = Append(msgq, "STOP") /\ cpc' = "ack"
      BY <1>10, <2>2 DEF ClosePost
    <3>2. LastIsStop'
      BY <2>1, <3>1 DEF NoStop, LastIsStop
    <3>3. QED
      BY <1>10, <2>1, <3>1, <3>2 DEF ClosePost
  <2>3. CASE ~(Len(msgq) < MsgqSize)
    BY <1>10, <2>1, <2>3 DEF ClosePost, NoStop
  <2>4. QED
    BY <2>2, <2>3
<1>11. ASSUME CloseAck PROVE Protocol'
  BY <1>11 DEF CloseAck, SemPost, NoStop, LastIsStop
<1>12. ASSUME CloseDelete PROVE Protocol'
  BY <1>12 DEF CloseDelete, NoStop, LastIsStop
<1>13. ASSUME Pend PROVE Protocol'
  <2>1. CASE Head(msgq) = "WRITE"
    <3>1. NoStop => NoStop'
      BY <1>13 DEF Pend, NoStop
    <3>2. LastIsStop => LastIsStop'
      BY <1>13, <2>1, TailFacts DEF Pend, LastIsStop
    <3>3. QED
      BY <1>13, <2>1, <3>1, <3>2 DEF Pend
  <2>2. CASE Head(msgq) # "WRITE"
    <3>1. cpc = "ack" /\ LastIsStop
      BY <1>13, <2>2 DEF Pend, NoStop
    <3>2. NoStop'
      BY <1>13, <2>2, <3>1 DEF Pend, NoStop, LastIsStop
    <3>3. QED
      BY <1>13, <2>2, <3>1, <3>2 DEF Pend
  <2>3. QED
    BY <2>1, <2>2
<1>14. ASSUME SnapStream PROVE Protocol'
  BY <1>14 DEF SnapStream, NoStop, LastIsStop
<1>15. ASSUME WriteCluster PROVE Protocol'
  BY <1>15 DEF WriteCluster, OnError, NoStop, LastIsStop
<1>16. ASSUME PublishRI PROVE Protocol'
  BY <1>16 DEF PublishRI, NoStop, LastIsStop
<1>17. ASSUME SnapIndex PROVE Protocol'
  BY <1>17 DEF SnapIndex, AfterIndex, NoStop, LastIsStop
<1>18. ASSUME WriteBlock PROVE Protocol'
  BY <1>18 DEF WriteBlock, OnError, NoStop, LastIsStop
<1>19. ASSUME PublishIdxRI PROVE Protocol'
  BY <1>19 DEF PublishIdxRI, AfterIndex, NoStop, LastIsStop
<1>20. ASSUME AddInfo PROVE Protocol'
  BY <1>20 DEF AddInfo, NoStop, LastIsStop
<1>21. ASSUME AddTail PROVE Protocol'
  BY <1>21 DEF AddTail, NoStop, LastIsStop
<1>22. ASSUME PatchHeader PROVE Protocol'
  BY <1>22 DEF PatchHeader, OnError, NoStop, LastIsStop
<1>23. ASSUME Drain PROVE Protocol'
  <2>1. NoStop => NoStop' /\ Head(msgq) # "STOP"
    BY <1>23 DEF Drain, NoStop
  <2>2. LastIsStop /\ Head(msgq) = "STOP" => NoStop'
    BY <1>23 DEF Drain, NoStop, LastIsStop
  <2>3. LastIsStop /\ Head(msgq) # "STOP" => LastIsStop'
    BY <1>23, TailFacts DEF Drain, LastIsStop
  <2>4. QED
    BY <1>23, <2>1, <2>2, <2>3 DEF Drain
<1>24. ASSUME PostAck PROVE Protocol'
  BY <1>24 DEF PostAck, NoStop, LastIsStop
<1>25. CASE UNCHANGED vars
  BY <1>25 DEF vars, NoStop, LastIsStop
<1>26. QED
  BY <1>1, <1>2, <1>3, <1>4, <1>5, <1>6, <1>7, <1>8, <1>9, <1>10, <1>11, <1>12, <1>13,
     <1>14, <1>15, <1>16, <1>17, <1>18, <1>19, <1>20, <1>21, <1>22, <1>23, <1>24, <1>25
     DEF Next, Put, Close, Task

THEOREM ProtocolInvariant == Spec => []Protocol
BY InitProtocol, ProtocolStep, PTL DEF Spec

(* Two callers are never between the space check and the end of PutData.   *)
THEOREM OneWriterAlways == Spec => []OneWriter
<1>1. Protocol => OneWriter
  BY DEF Protocol, Holders, OneWriter
<1>2. QED
  BY <1>1, ProtocolInvariant, PTL
-----------------------------------------------------------------------------
(* Still the control variables: the wake-ups.  MsgTx counts those posted   *)
(* and MsgRx those taken, but MsgTx is counted after the post (PutCount),  *)
(* so that the task may be ahead of it, and both are shorts that wrap.     *)

Counting == \E p \in Producers : ppc[p] = "count"

(* A wake-up may be in the queue.                                          *)
Due == IF Counting THEN MsgTx = MsgRx ELSE MsgTx # MsgRx

Succ(i) == (i + 1) % ShortMod

Counters ==
  /\ MsgTx \in 0..(ShortMod - 1) /\ MsgRx \in 0..(ShortMod - 1)
  /\ MsgTx # MsgRx => IF Counting THEN MsgRx = Succ(MsgTx) ELSE MsgTx = Succ(MsgRx)

Length == Len(msgq) <= (IF Due THEN 1 ELSE 0) + (IF LastIsStop THEN 1 ELSE 0)

Wakeups == Counters /\ Length /\ cpc # "failed"

LEMMA SuccFacts ==
  ASSUME NEW i \in 0..(ShortMod - 1)
  PROVE  Succ(i) \in 0..(ShortMod - 1) /\ Succ(i) # i
<1>1. ShortMod \in Nat /\ ShortMod >= 2
  BY PackerAssumption
<1>2. CASE i = ShortMod - 1
  BY <1>1, <1>2 DEF Succ
<1>3. CASE i # ShortMod - 1
  <2>1. i + 1 \in 0..(ShortMod - 1)
    BY <1>1, <1>3
  <2>2. (i + 1) % ShortMod = i + 1
    BY <1>1, <2>1
  <2>3. QED
    BY <2>1, <2>2 DEF Succ
<1>4. QED
  BY <1>2, <1>3

(* A step that leaves counters and queue alone, and nobody about to count.  *)
LEMMA WakeupsFrame ==
  ASSUME Wakeups, UNCHANGED <<msgq, MsgTx, MsgRx>>, Counting' = Counting, cpc' # "failed"
  PROVE  Wakeups'
BY DEF Wakeups, Counters, Length, Due, LastIsStop

(* Taking a message: the stop message stays the last one, or has gone.     *)
LEMMA TakeFacts ==
  ASSUME Protocol, msgq # <<>>, msgq' = Tail(msgq), Length
  PROVE  /\ Len(msgq) \in Nat /\ Len(msgq') = Len(msgq) - 1
         /\ Head(msgq) = "WRITE" => /\ Due
                                    /\ LastIsStop => LastIsStop'
         /\ Head(msgq) # "WRITE" => LastIsStop /\ Len(msgq) = 1
<1>1. msgq \in Seq({"WRITE", "STOP"}) /\ Len(msgq) \in Nat /\ Len(msgq) # 0
  BY DEF Protocol, ControlTypes
<1>2. NoStop \/ LastIsStop
  BY DEF Protocol, StopOnce, ControlTypes
<1>3. Len(msgq') = Len(msgq) - 1 /\ Head(msgq) = msgq[1]
      /\ \A i \in 1..(Len(msgq) - 1) : msgq'[i] = msgq[i + 1]
      /\ (Len(msgq) # 1 => msgq' # <<>>)
  BY <1>1, TailFacts
<1>4. ASSUME Head(msgq) = "WRITE" PROVE Due /\ (LastIsStop => LastIsStop')
  <2>1. LastIsStop => Len(msgq) > 1
    BY <1>1, <1>3, <1>4 DEF LastIsStop
  <2>2. Due
    BY <1>1, <2>1 DEF Length
  <2>3. ASSUME LastIsStop PROVE LastIsStop'
    <3>1. Len(msgq) > 1 /\ Len(msgq') = Len(msgq) - 1
      BY <1>3, <2>1, <2>3
    <3>2. Len(msgq') \in 1..(Len(msgq) - 1) /\ Len(msgq') + 1 = Len(msgq)
      BY <1>1, <3>1
    <3>3. msgq'[Len(msgq')] = "STOP"
      BY <1>3, <2>3, <3>2 DEF LastIsStop
    <3>4. ASSUME NEW i \in 1..(Len(msgq') - 1) PROVE msgq'[i] = "WRITE"
      <4>1. i \in 1..(Len(msgq) - 1) /\ i + 1 \in 1..(Len(msgq) - 1)
        BY <1>1, <3>1, <3>4
      <4>2. QED
        BY <1>3, <2>3, <4>1 DEF LastIsStop
    <3>5. msgq' # <<>>
      BY <1>1, <1>3, <3>1
    <3>6. QED
      BY ONLY <3>3, <3>4, <3>5, Zenon DEF LastIsStop
  <2>4. QED
    BY <2>2, <2>3
<1>5. ASSUME Head(msgq) # "WRITE" PROVE LastIsStop /\ Len(msgq) = 1
  <2>1. LastIsStop
    BY <1>1, <1>2, <1>3, <1>5 DEF NoStop
  <2>2. QED
    BY <1>1, <1>3, <1>5, <2>1 DEF LastIsStop
<1>6. QED
  BY <1>1, <1>3, <1>4, <1>5

LEMMA NotifyStep ==
  ASSUME Protocol, Wakeups, NEW p \in Producers, PutNotify(p) \/ PutCount(p)
  PROVE  Wakeups'
<1> USE DEF Protocol, ControlTypes
<1>1. /\ sem = p /\ cpc \notin {"ack", "failed"} /\ cpc' = cpc /\ MsgRx' = MsgRx
      /\ \A q \in Producers : q # p => ppc[q] \notin {"notify", "count"}
  BY DEF PutNotify, PutCount, Holders, Wakeups, Producers, Closer, taskVars
<1>2. NoStop /\ ~LastIsStop
  <2>1. NoStop
    BY <1>1 DEF StopOnce
  <2>2. QED
    BY <2>1 DEF NoStop, LastIsStop
<1>3. CASE PutNotify(p) /\ ppc'[p] = "count"
  <2>1. MsgTx = MsgRx /\ msgq' = Append(msgq, "WRITE") /\ MsgTx' = MsgTx
        /\ ppc' = [ppc EXCEPT ![p] = "count"] /\ ppc[p] = "notify"
    BY <1>3 DEF PutNotify
  <2>2. ~Counting /\ Counting'
    BY <1>1, <2>1 DEF Counting
  <2>3. Len(msgq) = 0
    BY <1>2, <2>1, <2>2 DEF Wakeups, Length, Due
  <2>4. Len(msgq') = 1 /\ Due'
    BY <1>1, <2>1, <2>2, <2>3 DEF Due
  <2>5. QED
    BY <1>1, <2>1, <2>2, <2>4 DEF Wakeups, Counters, Length
<1>4. CASE PutNotify(p) /\ ppc'[p] # "count"
  <2>1. UNCHANGED <<msgq, MsgTx>> /\ ppc' = [ppc EXCEPT ![p] = "leave"] /\ ppc[p] = "notify"
    BY <1>4 DEF PutNotify
  <2>2. Counting' = Counting
    BY <2>1 DEF Counting
  <2>3. QED
    BY <1>1, <2>1, <2>2, WakeupsFrame
<1>5. CASE PutCount(p)
  <2>1. MsgTx' = Succ(MsgTx) /\ msgq' = msgq /\ ppc[p] = "count"
        /\ ppc' = [ppc EXCEPT ![p] = "leave"]
    BY <1>5 DEF PutCount, Succ
  <2>2. Counting /\ ~Counting'
    BY <1>1, <2>1 DEF Counting
  <2>3. MsgTx' \in 0..(ShortMod - 1) /\ MsgTx' # MsgTx
    BY <2>1, SuccFacts DEF Wakeups, Counters
  <2>4. Counters' /\ (Due' <=> Due)
    BY <1>1, <2>1, <2>2, <2>3 DEF Wakeups, Counters, Due, Succ
  <2>5. QED
    BY <1>1, <2>1, <2>4 DEF Wakeups, Length, LastIsStop
<1>6. QED
  BY <1>3, <1>4, <1>5

LEMMA TakeStep ==
  ASSUME Protocol, Wakeups, Pend \/ Drain
  PROVE  Wakeups'
<1>1. /\ msgq # <<>> /\ msgq' = Tail(msgq) /\ UNCHANGED <<MsgTx, ppc, cpc>>
      /\ cpc' # "failed" /\ Counting' = Counting
  BY DEF Pend, Drain, putVars, Wakeups, Counting
<1>2. /\ Len(msgq) \in Nat /\ Len(msgq') = Len(msgq) - 1
      /\ Head(msgq) = "WRITE" => Due /\ (LastIsStop => LastIsStop')
      /\ Head(msgq) # "WRITE" => LastIsStop /\ Len(msgq) = 1
  BY <1>1, TakeFacts DEF Wakeups
<1>3. CASE MsgRx' = MsgRx
  BY <1>1, <1>2, <1>3 DEF Wakeups, Counters, Length, Due
<1>4. CASE Head(msgq) = "WRITE" /\ MsgRx' = Succ(MsgRx)
  <2>1. MsgRx' \in 0..(ShortMod - 1) /\ MsgRx' # MsgRx
    BY <1>4, SuccFacts DEF Wakeups, Counters
  <2>2. Counters' /\ ~Due'
    BY <1>1, <1>2, <1>4, <2>1 DEF Wakeups, Counters, Due, Succ
  <2>3. Len(msgq') <= IF LastIsStop THEN 1 ELSE 0
    BY <1>2, <1>4 DEF Wakeups, Length
  <2>4. QED
    BY <1>1, <1>2, <1>4, <2>2, <2>3 DEF Wakeups, Length
<1>5. QED
  BY <1>3, <1>4 DEF Pend, Drain, Succ

LEMMA ClosePostStep ==
  ASSUME Protocol, Wakeups, ClosePost
  PROVE  Wakeups'
<1>1. NoStop /\ msgq \in Seq({"WRITE", "STOP"}) /\ Len(msgq) \in Nat
  BY DEF ClosePost, Protocol, StopOnce, ControlTypes
<1>2. Len(msgq) <= (IF Due THEN 1 ELSE 0)
  BY <1>1 DEF Wakeups, Length, LastIsStop, NoStop
<1>3. Len(msgq) < MsgqSize
  BY <1>1, <1>2, PackerAssumption
<1>4. msgq' = Append(msgq, "STOP") /\ cpc' = "ack" /\ UNCHANGED <<MsgTx, MsgRx, ppc>>
  BY <1>3 DEF ClosePost, putVars, taskVars
<1>5. LastIsStop' /\ Len(msgq') = Len(msgq) + 1
  BY <1>1, <1>4 DEF NoStop, LastIsStop
<1>6. Due' <=> Due
  BY <1>4 DEF Due, Counting
<1>7. QED
  BY <1>1, <1>2, <1>4, <1>5, <1>6 DEF Wakeups, Counters, Counting, Length

LEMMA WakeupsStep ==
  ASSUME Protocol, Wakeups, [Next]_vars
  PROVE  Wakeups'
<1>1. ASSUME NEW p \in Producers, Put(p) PROVE Wakeups'
  <2>1. CASE PutNotify(p) \/ PutCount(p)
    BY <2>1, NotifyStep
  <2>2. CASE ~(PutNotify(p) \/ PutCount(p))
    <3>1. /\ UNCHANGED <<msgq, MsgTx, MsgRx, cpc>> /\ ppc[p] # "count"
          /\ \E w \in {"idle", "check", "data", "notify"} : ppc' = [ppc EXCEPT ![p] = w]
      BY <1>1, <2>2 DEF Put, PutCall, PutRefused, PutNull, PutIndex, PutStream, PutLeave,
                        msgVars, taskVars
    <3>2. Counting' = Counting
      BY <3>1 DEF Counting, Protocol, ControlTypes
    <3>3. QED
      BY <3>1, <3>2, WakeupsFrame DEF Wakeups
  <2>3. QED
    BY <2>1, <2>2
<1>2. CASE Close
  <2>1. CASE ClosePost
    BY <2>1, ClosePostStep
  <2>2. CASE ~ClosePost
    <3>1. UNCHANGED <<msgq, MsgTx, MsgRx, ppc>> /\ cpc' # "failed"
      BY <1>2, <2>2 DEF Close, CloseCall, CloseAck, CloseDelete, msgVars, putVars, taskVars
    <3>2. QED
      BY <3>1, WakeupsFrame DEF Counting
  <2>3. QED
    BY <2>1, <2>2
<1>3. CASE Task
  <2>1. CASE Pend \/ Drain
    BY <2>1, TakeStep
  <2>2. CASE ~(Pend \/ Drain)
    <3>1. UNCHANGED <<msgq, MsgTx, MsgRx, ppc, cpc>>
      BY <1>3, <2>2 DEF Task, SnapStream, WriteCluster, PublishRI, SnapIndex, WriteBlock,
         PublishIdxRI, AddInfo, AddTail, PatchHeader, PostAck, callerVars, msgVars, putVars
    <3>2. QED
      BY <3>1, WakeupsFrame DEF Counting, Wakeups
  <2>3. QED
    BY <2>1, <2>2
<1>4. CASE UNCHANGED vars
  BY <1>4, WakeupsFrame DEF vars, msgVars, putVars, taskVars, Counting, Wakeups
<1>5. QED
  BY <1>1, <1>2, <1>3, <1>4 DEF Next

(* Counters and queue fit together at every moment.                        *)
LEMMA WakeupsInvariant == Spec => [](Protocol /\ Wakeups)
<1>1. Init => Protocol /\ Wakeups
  <2>1. Init => Wakeups
    <3>1. ShortMod \in Nat /\ ShortMod >= 2
      BY PackerAssumption
    <3>2. QED
      BY <3>1, EmptySeq DEF Init, Wakeups, Counters, Length
  <2>2. QED
    BY <2>1, InitProtocol
<1>2. Protocol /\ Wakeups /\ [Next]_vars => Protocol' /\ Wakeups'
  BY ProtocolStep, WakeupsStep
<1>3. QED
  BY <1>1, <1>2, PTL DEF Spec

(* The queue never holds more than a wake-up and the stop message, for     *)
(* whatever number of wake-ups and wherever the counters wrap: no post     *)
(* fails, and Close does not return with the semaphore held.               *)
THEOREM QueueHasRoom == Spec => []QueueNeverFull
<1>1. Protocol /\ Wakeups => QueueNeverFull
  BY DEF Protocol, ControlTypes, Wakeups, Length, QueueNeverFull
<1>2. QED
  BY <1>1, WakeupsInvariant, PTL
-----------------------------------------------------------------------------
(* A wake-up that is due is in the queue, unless the task drains it.       *)
Draining == tpc \in {"errmode", "ack", "dead"}

Delivered ==
  ~Draining /\ Due => msgq # <<>> /\ (LastIsStop => Len(msgq) > 1)

(* While nothing has been written since the look at WI, a whole cluster    *)
(* that has come since is about to be announced, or its wake-up is due.    *)
Announced ==
  /\ \/ tpc = "pend"
     \/ tpc = "isnap" /\ ~wrote /\ phase = "run"
  /\ (WI \div Cluster) * Cluster # RI
  => Due \/ \E p \in Producers : ppc[p] = "notify"

Watch ==
  /\ Delivered /\ Announced
  /\ ~open => cpc = "closed"
  /\ tpc \in {"write", "publish", "iwrite", "ipublish"} => wrote

LEMMA NotifyWatch ==
  ASSUME Protocol, Wakeups, Watch, NEW p \in Producers, PutNotify(p) \/ PutCount(p)
  PROVE  Watch'
<1>1. /\ sem = p /\ cpc \notin {"ack", "failed"} /\ cpc' = cpc /\ open' = open
      /\ UNCHANGED <<MsgRx, tpc, wrote, phase, WI, RI>>
      /\ \A q \in Producers : q # p => ppc[q] \notin {"notify", "count"}
  BY DEF PutNotify, PutCount, Protocol, Holders, Wakeups, Producers, Closer, taskVars, semVars,
         streamVars
<1>2. NoStop /\ ~LastIsStop /\ msgq \in Seq({"WRITE", "STOP"}) /\ Len(msgq) \in Nat
      /\ (open \/ tpc = "dead") /\ ppc \in [Producers -> {"idle", "check", "data", "notify", "count", "leave"}]
  <2>1. NoStop /\ (open \/ tpc = "dead")
    BY <1>1 DEF Protocol, StopOnce, ControlTypes, Watch
  <2>2. QED
    BY <2>1 DEF NoStop, LastIsStop, Protocol, ControlTypes
<1>3. CASE PutNotify(p) /\ ppc'[p] = "count"
  <2>1. MsgTx = MsgRx /\ msgq' = Append(msgq, "WRITE") /\ MsgTx' = MsgTx
        /\ ppc' = [ppc EXCEPT ![p] = "count"]
    BY <1>2, <1>3 DEF PutNotify
  <2>2. Counting' /\ Due'
    BY <1>1, <1>2, <2>1 DEF Counting, Due
  <2>3. msgq' # <<>> /\ ~LastIsStop'
    BY <1>2, <2>1 DEF LastIsStop
  <2>4. QED
    BY <1>1, <2>2, <2>3 DEF Watch, Delivered, Announced
<1>4. CASE PutNotify(p) /\ ppc'[p] # "count"
  <2>1. UNCHANGED <<msgq, MsgTx>> /\ ppc' = [ppc EXCEPT ![p] = "leave"] /\ ppc[p] = "notify"
        /\ ~(MsgTx = MsgRx /\ open /\ Len(msgq) < MsgqSize)
    BY <1>2, <1>4 DEF PutNotify
  <2>2. ~Counting /\ ~Counting'
    BY <1>1, <1>2, <2>1 DEF Counting
  <2>3. Len(msgq) <= 1
    BY <1>2 DEF Wakeups, Length
  <2>4. MsgTx = MsgRx => tpc = "dead"
    BY <1>2, <2>1, <2>3, PackerAssumption
  <2>5. tpc # "dead" => Due'
    BY <1>1, <2>1, <2>2, <2>4 DEF Due
  <2>6. Due' <=> Due
    BY <1>1, <2>1, <2>2 DEF Due
  <2>7. QED
    BY <1>1, <2>1, <2>5, <2>6 DEF Watch, Delivered, Announced, Draining, LastIsStop
<1>5. CASE PutCount(p)
  <2>1. MsgTx' = Succ(MsgTx) /\ msgq' = msgq /\ ppc[p] = "count"
        /\ ppc' = [ppc EXCEPT ![p] = "leave"]
    BY <1>5 DEF PutCount, Succ
  <2>2. Counting /\ ~Counting'
    BY <1>1, <1>2, <2>1 DEF Counting
  <2>3. MsgTx' # MsgTx
    BY <2>1, SuccFacts DEF Wakeups, Counters
  <2>4. Due' <=> Due
    BY <1>1, <2>1, <2>2, <2>3 DEF Wakeups, Counters, Due, Succ
  <2>5. \A q \in Producers : ppc[q] # "notify"
    BY <1>1, <2>1
  <2>6. Announced'
    BY <1>1, <2>4, <2>5 DEF Watch, Announced
  <2>7. QED
    BY <1>1, <2>1, <2>4, <2>6 DEF Watch, Delivered, Draining, LastIsStop
<1>6. QED
  BY <1>3, <1>4, <1>5

LEMMA PutWatch ==
  ASSUME Protocol, Watch, NEW p \in Producers, Put(p), ~(PutNotify(p) \/ PutCount(p))
  PROVE  Watch'
<1>1. /\ UNCHANGED <<msgq, MsgTx, MsgRx, cpc, open, tpc, wrote, phase, RI>>
      /\ ppc[p] \notin {"count", "notify"}
      /\ \/ PutStream(p) /\ ppc' = [ppc EXCEPT ![p] = "notify"]
         \/ WI' = WI /\ \E w \in {"idle", "check", "data"} : ppc' = [ppc EXCEPT ![p] = w]
  BY DEF Put, PutCall, PutRefused, PutNull, PutIndex, PutStream, PutLeave, SemPend, SemPost,
         msgVars, taskVars, semVars, streamVars
<1>2. ppc \in [Producers -> {"idle", "check", "data", "notify", "count", "leave"}]
  BY DEF Protocol, ControlTypes
<1>3. Counting' = Counting
  BY <1>1, <1>2 DEF Counting
<1>4. Due' <=> Due
  BY <1>1, <1>3 DEF Due
<1>5. Announced'
  <2>1. CASE ppc' = [ppc EXCEPT ![p] = "notify"]
    BY <1>2, <2>1 DEF Announced
  <2>2. CASE WI' = WI /\ \E w \in {"idle", "check", "data"} : ppc' = [ppc EXCEPT ![p] = w]
    <3>1. \A q \in Producers : ppc[q] = "notify" => ppc'[q] = "notify"
      BY <1>1, <1>2, <2>2
    <3>2. QED
      BY <1>1, <1>4, <2>2, <3>1 DEF Watch, Announced
  <2>3. QED
    BY <1>1, <2>1, <2>2
<1>6. QED
  BY <1>1, <1>4, <1>5 DEF Watch, Delivered, Draining, LastIsStop

LEMMA CloseWatch == ASSUME Protocol, Wakeups, Watch, Close PROVE Watch'
<1>1. UNCHANGED <<MsgTx, MsgRx, ppc, tpc, wrote, phase, RI, WI>>
  BY DEF Close, CloseCall, ClosePost, CloseAck, CloseDelete, msgVars, putVars, taskVars, streamVars
<1>2. Due' <=> Due
  BY <1>1 DEF Due, Counting
<1>3. Announced' /\ (tpc' \in {"write", "publish", "iwrite", "ipublish"} => wrote')
  BY <1>1, <1>2 DEF Watch, Announced
<1>4. ~open' => cpc' = "closed"
  BY DEF Close, CloseCall, ClosePost, CloseAck, CloseDelete, SemPend, SemPost, semVars, Watch
<1>5. Delivered'
  <2>1. CASE msgq' = msgq
    BY <1>1, <1>2, <2>1 DEF Watch, Delivered, Draining, LastIsStop
  <2>2. CASE msgq' = Append(msgq, "STOP") /\ ClosePost
    <3>1. NoStop /\ msgq \in Seq({"WRITE", "STOP"}) /\ Len(msgq) \in Nat
      BY <2>2 DEF ClosePost, Protocol, StopOnce, ControlTypes
    <3>2. Len(msgq') = Len(msgq) + 1
      BY <2>2, <3>1
    <3>3. ~Draining /\ Due => Len(msgq) > 0
      BY <3>1 DEF Watch, Delivered
    <3>4. msgq' # <<>>
      BY <3>1, <3>2
    <3>5. QED
      BY <1>1, <1>2, <3>1, <3>2, <3>3, <3>4 DEF Delivered, Draining
  <2>3. QED
    BY <2>1, <2>2 DEF Close, CloseCall, ClosePost, CloseAck, CloseDelete, msgVars
<1>6. QED
  BY <1>3, <1>4, <1>5 DEF Watch

LEMMA TaskWatch == ASSUME Protocol, Wakeups, Watch, Task PROVE Watch'
<1>1. UNCHANGED <<MsgTx, ppc, open, cpc>> /\ Counting' = Counting /\ (WI' = WI \/ AddTail)
  <2>1. UNCHANGED <<MsgTx, ppc, open, cpc>> /\ (WI' = WI \/ AddTail)
    BY DEF Task, Pend, SnapStream, WriteCluster, PublishRI, SnapIndex, WriteBlock, PublishIdxRI,
           AddInfo, PatchHeader, Drain, PostAck, AddTail, callerVars, msgVars, putVars, semVars,
           streamVars
  <2>2. QED
    BY <2>1 DEF Counting
<1>2. CASE Pend
  <2>1. tpc = "pend" /\ tpc' = "snap" /\ msgq # <<>> /\ msgq' = Tail(msgq)
    BY <1>2 DEF Pend
  <2>2. /\ Len(msgq') = Len(msgq) - 1
        /\ Head(msgq) = "WRITE" => Due
        /\ Head(msgq) # "WRITE" => LastIsStop /\ Len(msgq) = 1
    BY <2>1, TakeFacts DEF Wakeups
  <2>3. ~Due'
    <3>1. CASE Head(msgq) = "WRITE"
      <4>1. MsgRx' = Succ(MsgRx) /\ MsgRx' # MsgRx
        BY <1>2, <3>1, SuccFacts DEF Pend, Succ, Wakeups, Counters
      <4>2. QED
        BY <1>1, <2>2, <3>1, <4>1 DEF Wakeups, Counters, Due, Succ
    <3>2. CASE Head(msgq) # "WRITE"
      <4>1. MsgRx' = MsgRx
        BY <1>2, <3>2 DEF Pend
      <4>2. ~Due
        BY <2>1, <2>2, <3>2 DEF Watch, Delivered, Draining
      <4>3. QED
        BY <1>1, <4>1, <4>2 DEF Due
    <3>3. QED
      BY <3>1, <3>2
  <2>4. QED
    BY <1>1, <2>1, <2>3 DEF Watch, Delivered, Announced
<1>3. CASE Drain
  BY <1>1, <1>3 DEF Drain, Watch, Delivered, Draining, Announced
<1>4. CASE ~(Pend \/ Drain)
  <2>1. UNCHANGED <<msgq, MsgRx>> /\ (Draining => Draining')
    BY <1>4 DEF Task, SnapStream, WriteCluster, PublishRI, SnapIndex, WriteBlock, PublishIdxRI,
         AddInfo, AddTail, PatchHeader, PostAck, callerVars, msgVars, Draining
  <2>2. Due' <=> Due
    BY <1>1, <2>1 DEF Due
  <2>3. Delivered'
    BY <2>1, <2>2 DEF Watch, Delivered, LastIsStop
  <2>4. Announced' /\ (tpc' \in {"write", "publish", "iwrite", "ipublish"} => wrote')
    <3>1. CASE SnapStream
      <4>1. /\ tpc' = "isnap" => (WI \div Cluster) * Cluster = RI
            /\ RI' = RI /\ WI' = WI /\ tpc' \in {"header", "isnap", "write"}
            /\ (tpc' = "write" => wrote')
        BY <1>1, <3>1 DEF SnapStream, AddTail
      <4>2. QED
        BY <1>1, <4>1 DEF Announced
    <3>2. CASE PublishRI
      BY <3>2 DEF PublishRI, Announced, Watch
    <3>3. CASE SnapIndex
      <4>1. RI' = RI /\ WI' = WI /\ phase' = phase /\ tpc = "isnap" /\ (tpc' = "iwrite" => wrote')
            /\ tpc' \notin {"isnap", "ipublish", "write", "publish"}
            /\ (tpc' = "pend" => phase = "run" /\ ~wrote)
        BY <1>1, <3>3 DEF SnapIndex, AfterIndex, Protocol, TaskShape, AddTail
      <4>2. QED
        BY <1>1, <2>2, <4>1 DEF Announced, Watch
    <3>4. CASE WriteBlock
      BY <3>4 DEF WriteBlock, OnError, Announced, Watch
    <3>5. CASE PublishIdxRI
      BY <3>5 DEF PublishIdxRI, AfterIndex, Announced, Watch, Protocol, TaskShape
    <3>6. CASE AddInfo \/ AddTail \/ PatchHeader \/ PostAck \/ WriteCluster
      BY <3>6 DEF AddInfo, AddTail, PatchHeader, PostAck, WriteCluster, OnError, Announced, Watch
    <3>7. QED
      BY <1>4, <3>1, <3>2, <3>3, <3>4, <3>5, <3>6 DEF Task
  <2>5. QED
    BY <1>1, <2>3, <2>4 DEF Watch
<1>5. QED
  BY <1>2, <1>3, <1>4

(* When the task waits for a message and a whole cluster waits to be       *)
(* written, a message is queued or a caller is about to post one, for      *)
(* every number of wake-ups and wherever the two counters wrap             *)
(* (AviPackerV3_PutData, AviPackerV3_Task).                                *)
THEOREM WakeupNeverLost == Spec => []NoLostWakeup
<1> DEFINE All == Protocol /\ Wakeups /\ Watch
<1>1. Init => All
  <2>1. Init => Wakeups
    <3>1. ShortMod \in Nat /\ ShortMod >= 2
      BY PackerAssumption
    <3>2. QED
      BY <3>1, EmptySeq DEF Init, Wakeups, Counters, Length
  <2>2. Init => Watch
    <3>1. SUFFICES ASSUME Init PROVE Watch
      OBVIOUS
    <3>2. ~Due
      <4>1. MsgTx = MsgRx /\ ~Counting
        BY <3>1 DEF Init, Counting
      <4>2. QED
        BY <4>1 DEF Due
    <3>3. HdrWords \div Cluster = 0 /\ 0 * Cluster = 0
      BY PackerAssumption
    <3>4. QED
      <4>1. tpc = "pend" /\ open /\ WI = HdrWords /\ RI = 0
        BY <3>1 DEF Init
      <4>2. Announced
        BY <3>3, <4>1 DEF Announced
      <4>3. QED
        BY <3>2, <4>1, <4>2 DEF Watch, Delivered
  <2>3. QED
    BY <2>1, <2>2, InitProtocol
<1>2. All /\ [Next]_vars => All'
  <2>1. SUFFICES ASSUME All, [Next]_vars PROVE Watch'
    BY ProtocolStep, WakeupsStep
  <2>2. CASE UNCHANGED vars
    <3>1. UNCHANGED <<msgq, MsgTx, MsgRx, ppc, cpc, open, tpc, wrote, phase, RI, WI>>
      BY <2>2 DEF vars, msgVars, putVars, taskVars, semVars, streamVars
    <3>2. QED
      BY <2>1, <3>1 DEF Watch, Delivered, Announced, Draining, Due, Counting, LastIsStop
  <2>3. QED
    BY <2>1, <2>2, NotifyWatch, PutWatch, CloseWatch, TaskWatch DEF Next
<1>3. All => NoLostWakeup
  <2>1. SUFFICES ASSUME All, tpc = "pend", (WI \div Cluster) * Cluster # RI,
                        \A p \in Producers : ppc[p] # "notify"
                 PROVE  msgq # <<>>
    BY DEF NoLostWakeup
  <2>2. Due /\ ~Draining
    BY <2>1 DEF Watch, Announced, Draining
  <2>3. QED
    BY <2>1, <2>2 DEF Watch, Delivered
<1>4. QED
  BY <1>1, <1>2, <1>3, PTL DEF Spec
-----------------------------------------------------------------------------
(* Layer 2: the stream ring.  The theorems of this layer need what the     *)
(* space check takes for granted, chunks whose even size is a multiple of  *)
(* four bytes, a ring of three clusters or more (the padding of Close may  *)
(* fill two), and a handler that stops the task (avi_packer_err_handle     *)
(* returns 1).                                                             *)
AlignedSizes == \A cb \in VideoSizes \cup AudioSizes : RealSize(cb) % 4 = 0

SafeSetting == AlignedSizes /\ RingClusters >= 3 /\ ErrAction = 1

Mult(x) == \E k \in Nat : x = k * Cluster

LEMMA ChunkFills ==
  ASSUME AlignedSizes, NEW p \in Producers, NEW cb \in Sizes(p)
  PROVE  ChunkWords(cb) \in Nat /\ 4 * ChunkWords(cb) = RealSize(cb) + 8
<1>1. cb \in Nat /\ RealSize(cb) % 4 = 0
  BY PackerAssumption DEF AlignedSizes, Sizes, Producers
<1>2. RealSize(cb) \in Nat
  BY <1>1 DEF RealSize
<1>3. QED
  BY <1>1, <1>2 DEF ChunkWords

LEMMA RingIsWhole ==
  /\ RingSize \in Nat /\ RingSize >= 2 * Cluster /\ Mult(RingSize)
  /\ RingClusters >= 3 => RingSize >= 3 * Cluster
<1>1. RingClusters \in Nat /\ Cluster \in Nat /\ RingClusters >= 2
  BY PackerAssumption
<1>2. PICK k \in Nat : RingClusters = 2 + k
  BY <1>1
<1>3. RingSize = 2 * Cluster + k * Cluster /\ k * Cluster \in Nat
  BY <1>1, <1>2 DEF RingSize
<1>4. RingClusters >= 3 => k * Cluster >= Cluster
  <2>1. SUFFICES ASSUME RingClusters >= 3 PROVE k * Cluster >= Cluster
    OBVIOUS
  <2>2. PICK j \in Nat : k = 1 + j
    BY <1>2, <2>1
  <2>3. k * Cluster = Cluster + j * Cluster /\ j * Cluster \in Nat
    BY <1>1, <2>2
  <2>4. QED
    BY <1>1, <2>3
<1>5. QED
  BY <1>1, <1>3, <1>4 DEF Mult, RingSize

(* Between two multiples of the cluster size lies at least one cluster.    *)
LEMMA MultGap ==
  ASSUME NEW x \in Nat, NEW y \in Nat, Mult(x), Mult(y), x < y
  PROVE  x + Cluster <= y
<1>1. Cluster \in Nat /\ Cluster > 0
  BY PackerAssumption
<1>2. PICK j \in Nat : x = j * Cluster
  BY DEF Mult
<1>3. PICK k \in Nat : y = k * Cluster
  BY DEF Mult
<1>4. j < k
  <2>1. SUFFICES ASSUME k <= j PROVE FALSE
    BY <1>2, <1>3
  <2>2. PICK d \in Nat : j = k + d
    BY <2>1
  <2>3. x = y + d * Cluster /\ d * Cluster \in Nat
    BY <1>1, <1>2, <1>3, <2>2
  <2>4. QED
    BY <2>3
<1>5. PICK d \in Nat : k = j + 1 + d
  BY <1>4
<1>6. y = x + Cluster + d * Cluster /\ d * Cluster \in Nat
  BY <1>1, <1>2, <1>3, <1>5
<1>7. QED
  BY <1>1, <1>6

LEMMA MultArith ==
  ASSUME NEW x \in Nat, NEW y \in Nat, Mult(x), Mult(y)
  PROVE  Mult(x + y) /\ (y <= x => Mult(x - y)) /\ Mult(Cluster) /\ Mult(0)
<1>1. Cluster \in Nat /\ Cluster > 0
  BY PackerAssumption
<1>2. PICK j \in Nat : x = j * Cluster
  BY DEF Mult
<1>3. PICK k \in Nat : y = k * Cluster
  BY DEF Mult
<1>4. Mult(x + y)
  <2>1. x + y = (j + k) * Cluster /\ j + k \in Nat
    BY <1>1, <1>2, <1>3
  <2>2. QED
    BY <2>1 DEF Mult
<1>5. ASSUME y <= x PROVE Mult(x - y)
  <2>1. CASE x = y
    <3>1. x - y = 0 * Cluster
      BY <1>1, <2>1
    <3>2. QED
      BY <3>1 DEF Mult
  <2>2. CASE x # y
    <3>1. k <= j
      <4>1. SUFFICES ASSUME j < k PROVE FALSE
        BY <1>2, <1>3
      <4>2. PICK d \in Nat : k = j + d
        BY <4>1
      <4>3. y = x + d * Cluster /\ d * Cluster \in Nat
        BY <1>1, <1>2, <1>3, <4>2
      <4>4. QED
        BY <1>5, <2>2, <4>3
    <3>2. x - y = (j - k) * Cluster /\ j - k \in Nat
      BY <1>1, <1>2, <1>3, <3>1
    <3>3. QED
      BY <3>2 DEF Mult
  <2>3. QED
    BY <2>1, <2>2
<1>6. Mult(Cluster) /\ Mult(0)
  <2>1. Cluster = 1 * Cluster /\ 0 = 0 * Cluster
    BY <1>1
  <2>2. QED
    BY <2>1 DEF Mult
<1>7. QED
  BY <1>4, <1>5, <1>6

LEMMA WrapMult ==
  ASSUME NEW x \in Nat, Mult(x)
  PROVE  Mult(Wrap(x, RingSize))
<1>1. RingSize \in Nat /\ Mult(RingSize)
  BY RingIsWhole
<1>2. CASE x >= RingSize
  <2>1. Mult(x - RingSize)
    BY <1>1, <1>2, MultArith
  <2>2. Wrap(x, RingSize) = x - RingSize
    BY <1>2 DEF Wrap
  <2>3. QED
    BY <2>1, <2>2
<1>3. CASE ~(x >= RingSize)
  <2>1. Wrap(x, RingSize) = x
    BY <1>3 DEF Wrap
  <2>2. QED
    BY <2>1
<1>4. QED
  BY <1>2, <1>3

(* Rounding down, as in the snapshot of WI.                                *)
Floor(x) == (x \div Cluster) * Cluster

LEMMA FloorFacts ==
  ASSUME NEW x \in Nat
  PROVE  Floor(x) \in Nat /\ Floor(x) <= x /\ x < Floor(x) + Cluster /\ Mult(Floor(x))
<1>1. Cluster \in Nat /\ Cluster > 0
  BY PackerAssumption
<1>2. x \div Cluster \in Nat
  BY <1>1
<1>3. x = Cluster * (x \div Cluster) + (x % Cluster) /\ x % Cluster \in 0..(Cluster - 1)
  BY <1>1
<1>4. Floor(x) \in Nat /\ Floor(x) = Cluster * (x \div Cluster)
  BY <1>1, <1>2 DEF Floor
<1>5. QED
  BY <1>1, <1>2, <1>3, <1>4 DEF Mult, Floor

(* The padding of the stream file ends on a cluster boundary.              *)
LEMMA TailFills ==
  ASSUME NEW x \in Nat
  PROVE  /\ (Cluster - x - 4) % Cluster \in 0..(Cluster - 1)
         /\ Mult(x + ((Cluster - x - 4) % Cluster) + 4)
<1>1. Cluster \in Nat /\ Cluster > 0
  BY PackerAssumption
<1> DEFINE r == (Cluster - x - 4) % Cluster
           q == (Cluster - x - 4) \div Cluster
<1>2. r \in 0..(Cluster - 1) /\ q \in Int /\ Cluster - x - 4 = Cluster * q + r
  BY <1>1
<1>3. x + r + 4 = (1 - q) * Cluster
  BY <1>1, <1>2
<1>4. q <= 0
  <2>1. SUFFICES ASSUME q >= 1 PROVE FALSE
    BY <1>2
  <2>2. PICK d \in Nat : q = 1 + d
    BY <1>2, <2>1
  <2>3. Cluster * q = Cluster + Cluster * d /\ Cluster * d \in Nat
    BY <1>1, <2>2
  <2>4. QED
    BY <1>1, <1>2, <2>3
<1>5. 1 - q \in Nat
  BY <1>2, <1>4
<1>6. QED
  BY <1>2, <1>3, <1>5 DEF Mult
-----------------------------------------------------------------------------
(* The invariant of the stream ring.                                       *)

Slots == 0..(RingSize - 1)

(* Words in the ring that the task has not given back.                     *)
Used == Dist(RI, WI, RingSize)

(* The file offset of the word in slot RI: the cluster being given back    *)
(* is in the file already.                                                 *)
Base == IF tpc = "publish" THEN Len(file) - Cluster ELSE Len(file)

StreamTypes ==
  /\ WI \in Slots /\ RI \in Slots /\ ring \in [Slots -> Nat]
  /\ appended \in Nat /\ file \in Seq(Nat) /\ chunk \in [Producers -> Nat]
  /\ \A p \in Producers : ppc[p] # "idle" => chunk[p] \in Sizes(p)

(* The space a caller has found is still there when it writes.             *)
RoomKept == \A p \in Producers : ppc[p] = "data" => Used + ChunkWords(chunk[p]) < RingSize

Cursor ==
  /\ Mult(RI)
  /\ tpc \in {"write", "publish"} =>
       lim \in Slots /\ Mult(lim) /\ lim # RI /\ Dist(RI, lim, RingSize) <= Used
  /\ tpc = "write" => cur = RI
  /\ tpc = "publish" => cur = Wrap(RI + Cluster, RingSize)

(* Every used slot holds the word that comes next in the file.             *)
Content ==
  ~failed =>
    /\ Base \in Nat /\ Mult(Base) /\ appended = Base + Used
    /\ \A s \in Slots : Dist(RI, s, RingSize) < Used => ring[s] = Base + Dist(RI, s, RingSize)

(* The closing phases leave less and less in the ring.                     *)
Flushed ==
  ~failed =>
    /\ phase \in {"stop", "tail"} /\ tpc \in {"write", "publish"} => lim = Floor(WI)
    /\ phase \in {"stop", "info"} /\ tpc \in {"isnap", "iwrite", "ipublish", "info", "tail"}
         => RI = Floor(WI)
    /\ phase = "tail" /\ tpc \in {"snap", "write", "publish"} => Mult(WI)
    /\ tpc \in {"header", "ack"} \/ ack => RI = WI

ErrorShape ==
  /\ failed => tpc \in {"errmode", "ack", "dead"}
  /\ tpc = "errmode" => failed

StreamInv ==
  StreamTypes /\ RoomKept /\ Cursor /\ Content /\ Flushed /\ ErrorShape /\ StreamIsRight

LEMMA InitStream == Init => StreamInv
<1> SUFFICES ASSUME Init PROVE StreamInv
  OBVIOUS
<1>1. Cluster \in Nat /\ HdrWords \in Nat /\ HdrWords < Cluster /\ HdrWords > 0
  BY PackerAssumption
<1>2. WI = HdrWords /\ RI = 0 /\ appended = HdrWords /\ file = <<>> /\ tpc = "pend"
      /\ ring = [s \in 0..(RingSize - 1) |-> s] /\ failed = FALSE
      /\ chunk = [p \in Producers |-> 0] /\ ppc = [p \in Producers |-> "idle"] /\ phase = "run" /\ ack = FALSE
  BY DEF Init
<1>3. StreamTypes
  <2>1. file \in Seq(Nat)
    BY <1>2, EmptySeq
  <2>2. QED
    BY <1>1, <1>2, <2>1, RingIsWhole DEF StreamTypes, Slots
<1>4. Mult(0)
  <2>1. 0 = 0 * Cluster
    BY <1>1
  <2>2. QED
    BY <2>1 DEF Mult
<1>5. Base = 0 /\ Used = HdrWords
  BY <1>1, <1>2, EmptySeq DEF Base, Used, Dist
<1>6. Content
  BY <1>1, <1>2, <1>4, <1>5 DEF Content, Slots, Dist
<1>7. RoomKept /\ Cursor /\ Flushed /\ ErrorShape /\ StreamIsRight
  BY <1>2, <1>4, EmptySeq DEF RoomKept, Cursor, Flushed, ErrorShape, StreamIsRight
<1>8. QED
  BY <1>3, <1>6, <1>7 DEF StreamInv

(* A step that leaves the stream ring and the task alone.                  *)
LEMMA StreamFrame ==
  ASSUME StreamInv,
         UNCHANGED <<ring, WI, RI, appended, file, cur, lim, tpc, phase, failed>>,
         ack' => ack, chunk' \in [Producers -> Nat],
         \A p \in Producers : ppc'[p] # "idle" => chunk'[p] \in Sizes(p),
         \A p \in Producers : ppc'[p] = "data" => Used + ChunkWords(chunk'[p]) < RingSize
  PROVE  StreamInv'
BY DEF StreamInv, StreamTypes, RoomKept, Cursor, Content, Flushed, ErrorShape, StreamIsRight,
       Used, Base

(* Appending n words behind the used ones.                                 *)
LEMMA FillKeepsContent ==
  ASSUME StreamInv, NEW n \in Nat, n > 0, Used + n < RingSize,
         ring' = Filled(ring, RingSize, WI, n, appended),
         WI' = Wrap(WI + n, RingSize), appended' = appended + n,
         UNCHANGED <<RI, file, tpc, failed>>
         \/ (UNCHANGED <<RI, file, failed>> /\ tpc # "publish" /\ tpc' # "publish")
  PROVE  /\ WI' \in Slots /\ ring' \in [Slots -> Nat] /\ appended' \in Nat
         /\ Used' = Used + n /\ Content'
<1>1. RingSize \in Nat /\ RingSize > 0
  BY RingIsWhole, PackerAssumption
<1>2. WI \in Slots /\ RI \in Slots /\ ring \in [Slots -> Nat] /\ appended \in Nat
  BY DEF StreamInv, StreamTypes
<1>3. WI' \in Slots
  BY <1>1, <1>2 DEF Slots, Wrap, Used, Dist
<1>4. Used' = Used + n
  BY <1>1, <1>2 DEF Slots, Wrap, Used, Dist
<1>5. ring' \in [Slots -> Nat]
  BY <1>1, <1>2 DEF Slots, Filled, Dist
<1>6. Base' = Base
  BY DEF Base
<1>7. ASSUME ~failed, NEW s \in Slots, Dist(RI, s, RingSize) < Used + n
      PROVE  ring'[s] = Base + Dist(RI, s, RingSize)
  <2>1. ring'[s] = IF Dist(WI, s, RingSize) < n THEN appended + Dist(WI, s, RingSize) ELSE ring[s]
    BY <1>2 DEF Filled, Slots
  <2>2. Base \in Nat /\ appended = Base + Used
    BY <1>7 DEF StreamInv, Content
  <2>3. CASE Dist(RI, s, RingSize) < Used
    <3>1. ~(Dist(WI, s, RingSize) < n)
      BY <1>1, <1>2, <1>7, <2>3 DEF Slots, Used, Dist
    <3>2. ring[s] = Base + Dist(RI, s, RingSize)
      BY <1>7, <2>3 DEF StreamInv, Content
    <3>3. QED
      BY <2>1, <3>1, <3>2
  <2>4. CASE ~(Dist(RI, s, RingSize) < Used)
    <3>1. Dist(WI, s, RingSize) = Dist(RI, s, RingSize) - Used
      BY <1>1, <1>2, <1>7, <2>4 DEF Slots, Used, Dist
    <3>2. Dist(RI, s, RingSize) \in Nat /\ Used \in Nat
      BY <1>1, <1>2 DEF Slots, Used, Dist
    <3>3. QED
      BY <1>7, <2>1, <2>2, <3>1, <3>2
  <2>5. QED
    BY <2>3, <2>4
<1>8. Content'
  <2>1. SUFFICES ASSUME ~failed PROVE Content'
    BY DEF Content
  <2>2. Base \in Nat /\ Mult(Base) /\ appended = Base + Used
    BY <2>1 DEF StreamInv, Content
  <2>3. Mult(Base')
    BY <1>6, <2>2 DEF Mult
  <2>4. Used \in Nat
    BY <1>1, <1>2 DEF Slots, Used, Dist
  <2>5. appended' = Base' + Used'
    BY <1>4, <1>6, <2>2, <2>4
  <2>6. RI' = RI
    OBVIOUS
  <2>7. QED
    BY <1>4, <1>6, <1>7, <2>1, <2>2, <2>3, <2>5, <2>6 DEF Content
<1>9. QED
  BY <1>2, <1>3, <1>4, <1>5, <1>8
-----------------------------------------------------------------------------
LEMMA FloorOfMult ==
  ASSUME NEW x \in Nat, Mult(x)
  PROVE  Floor(x) = x
<1>1. Floor(x) \in Nat /\ Floor(x) <= x /\ x < Floor(x) + Cluster /\ Mult(Floor(x))
  BY FloorFacts
<1>2. ~(Floor(x) < x)
  <2>1. SUFFICES ASSUME Floor(x) < x PROVE FALSE
    OBVIOUS
  <2>2. Floor(x) + Cluster <= x
    BY <1>1, <2>1, MultGap
  <2>3. QED
    BY <1>1, <2>2, PackerAssumption
<1>3. QED
  BY <1>1, <1>2

(* PutStream: the room found under the semaphore is used under it, and     *)
(* never while the task pads and flushes.                                  *)
LEMMA PutStreamStep ==
  ASSUME AlignedSizes, Protocol, StreamInv, NEW p \in Producers, PutStream(p)
  PROVE  StreamInv'
<1> DEFINE n == ChunkWords(chunk[p])
<1>1. ppc[p] = "data" /\ sem = p /\ cpc # "ack"
  BY DEF PutStream, Protocol, Holders, Closer, Producers
<1>2. n \in Nat /\ n > 0 /\ Used + n < RingSize
  <2>1. chunk[p] \in Sizes(p) /\ chunk[p] \in Nat
    BY <1>1 DEF StreamInv, StreamTypes
  <2>2. n \in Nat /\ 4 * n = RealSize(chunk[p]) + 8 /\ RealSize(chunk[p]) \in Nat
    BY <2>1, ChunkFills DEF RealSize
  <2>3. QED
    BY <1>1, <2>2 DEF StreamInv, RoomKept
<1>3. /\ ring' = Filled(ring, RingSize, WI, n, appended)
      /\ WI' = Wrap(WI + n, RingSize) /\ appended' = appended + n
      /\ UNCHANGED <<RI, file, tpc, failed, cur, lim, phase, ack, chunk>>
      /\ ppc' = [ppc EXCEPT ![p] = "notify"]
  BY DEF PutStream, taskVars
<1>4. /\ WI' \in Slots /\ ring' \in [Slots -> Nat] /\ appended' \in Nat
      /\ Used' = Used + n /\ Content'
  BY <1>2, <1>3, FillKeepsContent
<1>5. StreamTypes'
  BY <1>1, <1>3, <1>4 DEF StreamInv, StreamTypes, Protocol, ControlTypes
<1>6. RoomKept'
  BY <1>1, <1>3 DEF RoomKept, Protocol, Holders, ControlTypes
<1>7. Used \in Nat
  BY RingIsWhole DEF StreamInv, StreamTypes, Slots, Used, Dist
<1>8. Cursor'
  <2>1. ASSUME lim \in Slots, Dist(RI, lim, RingSize) <= Used
        PROVE  Dist(RI, lim, RingSize) <= Used'
    <3>1. Dist(RI, lim, RingSize) \in Int
      BY <2>1, RingIsWhole DEF StreamInv, StreamTypes, Slots, Dist
    <3>2. QED
      BY <1>2, <1>4, <1>7, <2>1, <3>1
  <2>2. Cursor /\ RI' = RI /\ lim' = lim /\ cur' = cur /\ tpc' = tpc
    BY <1>3 DEF StreamInv
  <2>3. QED
    BY <2>1, <2>2 DEF Cursor, Mult
<1>9. phase = "run" \/ tpc = "dead"
  BY <1>1 DEF Protocol, ControlTypes, StopOnce, Stopped
<1>10. ~ack /\ tpc \notin {"header", "ack"}
  BY <1>1, <1>9 DEF Protocol, ControlTypes, StopOnce, TaskShape, Stopped
<1>11. Flushed'
  BY <1>3, <1>9, <1>10 DEF Flushed
<1>12. ErrorShape' /\ StreamIsRight'
  BY <1>3 DEF StreamInv, ErrorShape, StreamIsRight
<1>13. QED
  BY <1>4, <1>5, <1>6, <1>8, <1>11, <1>12 DEF StreamInv

(* The other steps of the callers leave ring and task alone.               *)
LEMMA CallerStep ==
  ASSUME AlignedSizes, Protocol, StreamInv,
         (\E p \in Producers : Put(p) /\ ~PutStream(p)) \/ Close
  PROVE  StreamInv'
<1> USE DEF streamVars, taskVars, semVars, putVars, Protocol, ControlTypes
<1>1. ASSUME NEW p \in Producers, PutCall(p) PROVE StreamInv'
  <2>1. PICK cb \in Sizes(p) : chunk' = [chunk EXCEPT ![p] = cb]
    BY <1>1 DEF PutCall
  <2>2. cb \in Nat
    BY PackerAssumption DEF Sizes, Producers
  <2>3. ppc' = [ppc EXCEPT ![p] = "check"] /\ ack' = ack
        /\ UNCHANGED <<ring, WI, RI, appended, file, cur, lim, tpc, phase, failed>>
    BY <1>1 DEF PutCall
  <2>4. /\ chunk' \in [Producers -> Nat]
        /\ \A q \in Producers : ppc'[q] # "idle" => chunk'[q] \in Sizes(q)
    BY <2>1, <2>2, <2>3 DEF StreamInv, StreamTypes
  <2>5. \A q \in Producers : ppc'[q] = "data" => Used + ChunkWords(chunk'[q]) < RingSize
    BY <2>1, <2>3 DEF StreamInv, StreamTypes, RoomKept
  <2>6. QED
    BY <2>3, <2>4, <2>5, StreamFrame
<1>2. ASSUME NEW p \in Producers, PutIndex(p) PROVE StreamInv'
  <2>1. ppc' = [ppc EXCEPT ![p] = "data"] /\ ack' = ack /\ chunk' = chunk
        /\ UNCHANGED <<ring, WI, RI, appended, file, cur, lim, tpc, phase, failed>>
    BY <1>2 DEF PutIndex
  <2>2. chunk[p] \in Sizes(p)
    BY <1>2 DEF PutIndex, StreamInv, StreamTypes
  <2>3. ChunkWords(chunk[p]) \in Nat /\ 4 * ChunkWords(chunk[p]) = RealSize(chunk[p]) + 8
    BY <2>2, ChunkFills
  <2>4. 4 * Space(RI, WI, RingSize) > RealSize(chunk[p]) + 8
    BY <1>2 DEF PutIndex, HasSpace
  <2>5. Space(RI, WI, RingSize) = RingSize - Used /\ Used \in Nat
    BY RingIsWhole DEF StreamInv, StreamTypes, Slots, Space, Used, Dist
  <2>6. Used + ChunkWords(chunk[p]) < RingSize
    BY <2>3, <2>4, <2>5, RingIsWhole
  <2>7. QED
    BY <2>1, <2>2, <2>6, StreamFrame DEF StreamInv, StreamTypes, RoomKept
<1>3. ASSUME NEW p \in Producers,
             PutRefused(p) \/ PutNull(p) \/ PutNotify(p) \/ PutCount(p) \/ PutLeave(p)
      PROVE  StreamInv'
  <2>1. /\ ack' = ack /\ chunk' = chunk
        /\ UNCHANGED <<ring, WI, RI, appended, file, cur, lim, tpc, phase, failed>>
        /\ ppc[p] # "idle"
        /\ \E w \in {"idle", "count", "leave"} : ppc' = [ppc EXCEPT ![p] = w]
    BY <1>3 DEF PutRefused, PutNull, PutNotify, PutCount, PutLeave
  <2>2. QED
    BY <2>1, StreamFrame DEF StreamInv, StreamTypes, RoomKept
<1>4. ASSUME Close PROVE StreamInv'
  <2>1. /\ ack' => ack
        /\ UNCHANGED <<ppc, chunk, ring, WI, RI, appended, file, cur, lim, tpc, phase, failed>>
    BY <1>4 DEF Close, CloseCall, ClosePost, CloseAck, CloseDelete
  <2>2. QED
    BY <2>1, StreamFrame DEF StreamInv, StreamTypes, RoomKept
<1>5. QED
  BY <1>1, <1>2, <1>3, <1>4 DEF Put
-----------------------------------------------------------------------------
(* The steps of the task.                                                  *)

(* Writing the first n words of the cluster at RI.                         *)
LEMMA WriteWords ==
  ASSUME StreamInv, tpc = "write", NEW n \in 0..Cluster,
         file' = file \o [i \in 1..n |-> ring[cur + i - 1]]
  PROVE  /\ file' \in Seq(Nat) /\ Len(file') = Len(file) + n
         /\ StreamIsRight' /\ RI + Cluster <= RingSize
         /\ Len(file') <= appended
<1>1. /\ WI \in Slots /\ RI \in Slots /\ ring \in [Slots -> Nat] /\ file \in Seq(Nat)
      /\ Mult(RI) /\ lim \in Slots /\ Mult(lim) /\ lim # RI
      /\ Dist(RI, lim, RingSize) <= Used /\ cur = RI
  BY DEF StreamInv, StreamTypes, Cursor
<1>2. ~failed
  BY DEF StreamInv, ErrorShape
<1>3. Cluster \in Nat /\ Cluster > 0 /\ RingSize \in Nat /\ Mult(RingSize)
  BY PackerAssumption, RingIsWhole
<1>4. RI + Cluster <= RingSize
  BY <1>1, <1>3, MultGap DEF Slots
<1>5. Cluster <= Used
  <2>1. CASE RI < lim
    <3>1. RI + Cluster <= lim
      BY <1>1, <2>1, MultGap DEF Slots
    <3>2. QED
      BY <1>1, <1>3, <3>1 DEF Slots, Dist, Used
  <2>2. CASE lim < RI
    BY <1>1, <1>3, <1>4, <2>2 DEF Slots, Dist, Used
  <2>3. QED
    BY <1>1, <2>1, <2>2 DEF Slots
<1> DEFINE new == [i \in 1..n |-> ring[cur + i - 1]]
<1>6. new \in Seq(Nat) /\ Len(new) = n
  <2>1. new \in [1..n -> Nat]
    BY <1>1, <1>3, <1>4 DEF Slots
  <2>2. n \in Nat
    BY <1>3
  <2>3. QED
    BY <2>1, <2>2
<1>7. file' = file \o new
  OBVIOUS
<1>8. /\ file' \in Seq(Nat) /\ Len(file') = Len(file) + n
      /\ \A i \in 1..Len(file) : file'[i] = file[i]
      /\ \A i \in 1..n : file'[Len(file) + i] = new[i]
  <2> HIDE DEF new
  <2>1. file' = file \o new /\ file \in Seq(Nat) /\ new \in Seq(Nat) /\ Len(new) = n
    BY <1>1, <1>6, <1>7
  <2>2. /\ file \o new \in Seq(Nat)
        /\ Len(file \o new) = Len(file) + Len(new)
        /\ \A i \in 1..(Len(file) + Len(new)) :
             (file \o new)[i] = IF i <= Len(file) THEN file[i] ELSE new[i - Len(file)]
    BY ONLY <2>1, ConcatProperties
  <2>3. Len(file) \in Nat /\ n \in Nat
    BY <2>1, <1>3
  <2>4. ASSUME NEW i \in 1..n PROVE file'[Len(file) + i] = new[i]
    <3>1. Len(file) + i \in 1..(Len(file) + n) /\ ~(Len(file) + i <= Len(file))
          /\ Len(file) + i - Len(file) = i
      BY <2>3
    <3>2. QED
      BY ONLY <2>1, <2>2, <3>1
  <2>5. ASSUME NEW i \in 1..Len(file) PROVE file'[i] = file[i]
    <3>1. i \in 1..(Len(file) + n) /\ i <= Len(file)
      BY <2>3
    <3>2. QED
      BY ONLY <2>1, <2>2, <3>1
  <2>6. QED
    BY ONLY <2>1, <2>2, <2>4, <2>5
<1>9. ASSUME NEW i \in 1..n PROVE new[i] = Len(file) + i - 1
  <2>1. RI + i - 1 \in Slots /\ Dist(RI, RI + i - 1, RingSize) = i - 1
    BY <1>1, <1>3, <1>4 DEF Slots, Dist
  <2>2. i - 1 < Used
    BY <1>1, <1>3, <1>5 DEF Slots, Used, Dist
  <2>3. Base = Len(file)
    BY DEF Base
  <2>4. ring[RI + i - 1] = Base + (i - 1)
    BY <1>2, <2>1, <2>2 DEF StreamInv, Content
  <2>5. Len(file) \in Nat
    BY <1>1
  <2>6. QED
    BY <1>1, <2>3, <2>4, <2>5
<1>10. StreamIsRight'
  <2>1. ASSUME NEW i \in 1..Len(file') PROVE file'[i] = i - 1
    <3>1. CASE i \in 1..Len(file)
      BY <1>8, <3>1 DEF StreamInv, StreamIsRight
    <3>2. CASE i \notin 1..Len(file)
      <4>1. Len(file) \in Nat /\ i - Len(file) \in 1..n
        BY <1>1, <1>8, <3>2
      <4>2. file'[Len(file) + (i - Len(file))] = new[i - Len(file)]
        BY <1>8, <4>1
      <4>3. new[i - Len(file)] = Len(file) + (i - Len(file)) - 1
        BY <1>9, <4>1
      <4>4. Len(file) + (i - Len(file)) = i
        BY <4>1
      <4>5. QED
        BY <4>1, <4>2, <4>3, <4>4
    <3>3. QED
      BY <3>1, <3>2
  <2>2. QED
    BY <2>1 DEF StreamIsRight
<1>11. Len(file') <= appended
  <2>1. appended = Len(file) + Used
    BY <1>2 DEF StreamInv, Content, Base
  <2>2. Len(file) \in Nat /\ Used \in Nat
    BY <1>1, <1>3 DEF Slots, Used, Dist
  <2>3. QED
    BY <1>3, <1>5, <1>8, <2>1, <2>2
<1>12. QED
  BY <1>4, <1>8, <1>10, <1>11

(* A step of the task that does not touch the ring.                        *)
LEMMA TaskFrame ==
  ASSUME StreamInv,
         UNCHANGED <<ring, WI, RI, appended, file, ppc, chunk>>,
         tpc # "publish", tpc' \notin {"write", "publish"}, failed' \/ failed' = failed,
         ErrorShape', Flushed'
  PROVE  StreamInv'
<1>1. Used' = Used
  BY DEF Used
<1>2. ~failed' => Base' = Base
  BY DEF Base
<1>3. Content'
  BY <1>1, <1>2 DEF StreamInv, Content, Mult
<1>4. StreamTypes' /\ RoomKept' /\ StreamIsRight'
  BY <1>1 DEF StreamInv, StreamTypes, RoomKept, StreamIsRight
<1>5. Cursor'
  BY DEF StreamInv, Cursor, Mult
<1>6. QED
  BY <1>3, <1>4, <1>5 DEF StreamInv

LEMMA QuietTaskStep ==
  ASSUME SafeSetting, Protocol, StreamInv,
         \/ Pend \/ SnapIndex \/ WriteBlock \/ PublishIdxRI \/ AddInfo \/ PatchHeader
         \/ Drain \/ PostAck
  PROVE  StreamInv'
<1> USE DEF streamVars, putVars, callerVars, Flushed, ErrorShape
<1>1. Flushed /\ ErrorShape /\ ErrAction = 1
  BY DEF StreamInv, SafeSetting
<1>2. TaskShape /\ (ack => tpc = "dead")
  BY DEF Protocol, StopOnce
<1>3. CASE Pend
  BY <1>1, <1>2, <1>3, TaskFrame DEF Pend, TaskShape
<1>4. CASE SnapIndex
  BY <1>1, <1>2, <1>4, TaskFrame DEF SnapIndex, AfterIndex, TaskShape
<1>5. CASE WriteBlock
  BY <1>1, <1>2, <1>5, TaskFrame DEF WriteBlock, OnError, TaskShape
<1>6. CASE PublishIdxRI
  BY <1>1, <1>2, <1>6, TaskFrame DEF PublishIdxRI, AfterIndex, TaskShape
<1>7. CASE AddInfo
  BY <1>1, <1>2, <1>7, TaskFrame DEF AddInfo, TaskShape
<1>8. CASE PatchHeader
  BY <1>1, <1>2, <1>8, TaskFrame DEF PatchHeader, OnError, TaskShape
<1>9. CASE Drain
  BY <1>1, <1>2, <1>9, TaskFrame DEF Drain, TaskShape
<1>10. CASE PostAck
  BY <1>1, <1>2, <1>10, TaskFrame DEF PostAck, TaskShape
<1>11. QED
  BY <1>3, <1>4, <1>5, <1>6, <1>7, <1>8, <1>9, <1>10

LEMMA SnapStreamStep ==
  ASSUME Protocol, StreamInv, SnapStream
  PROVE  StreamInv'
<1>1. /\ tpc = "snap" /\ lim' = Floor(WI) /\ cur' = RI
      /\ UNCHANGED <<ring, WI, RI, appended, file, ppc, chunk, phase, failed, ack>>
      /\ lim' = RI => tpc' = IF phase = "tail" THEN "header" ELSE "isnap"
      /\ lim' # RI => tpc' = "write"
  BY DEF SnapStream, Floor, streamVars, callerVars, putVars, semVars, msgVars
<1>2. /\ WI \in Slots /\ RI \in Slots /\ Mult(RI) /\ ~failed /\ (ack => tpc = "dead")
      /\ phase \in {"run", "stop", "tail"}
  BY <1>1 DEF StreamInv, StreamTypes, Cursor, ErrorShape, Protocol, StopOnce, TaskShape
<1>3. RingSize \in Nat /\ Cluster \in Nat /\ Cluster > 0
  BY RingIsWhole, PackerAssumption
<1>4. Floor(WI) \in Nat /\ Floor(WI) <= WI /\ WI < Floor(WI) + Cluster /\ Mult(Floor(WI))
  BY <1>2, FloorFacts DEF Slots
<1>5. Dist(RI, Floor(WI), RingSize) <= Used
  <2>1. CASE RI <= Floor(WI)
    BY <1>2, <1>3, <1>4, <2>1 DEF Slots, Dist, Used
  <2>2. CASE Floor(WI) < RI
    <3>1. Floor(WI) + Cluster <= RI
      BY <1>2, <1>4, <2>2, MultGap DEF Slots
    <3>2. QED
      BY <1>2, <1>3, <1>4, <3>1 DEF Slots, Dist, Used
  <2>3. QED
    BY <1>2, <1>4, <2>1, <2>2 DEF Slots
<1>6. Floor(WI) \in Slots
  BY <1>2, <1>3, <1>4 DEF Slots
<1>7. Cursor'
  <2>1. Mult(RI') /\ Mult(lim')
    BY <1>1, <1>2, <1>4 DEF Mult
  <2>2. QED
    BY <1>1, <1>2, <1>5, <1>6, <2>1 DEF Cursor, Mult, Used
<1>8. Flushed'
  <2>1. CASE phase # "tail"
    BY <1>1, <1>2, <2>1 DEF Flushed, Floor
  <2>2. CASE phase = "tail"
    <3>1. Mult(WI)
      BY <1>1, <1>2, <2>2 DEF StreamInv, Flushed
    <3>2. Floor(WI) = WI
      BY <1>2, <3>1, FloorOfMult DEF Slots
    <3>3. QED
      BY <1>1, <1>2, <2>2, <3>1, <3>2 DEF Flushed, Floor, Mult
  <2>3. QED
    BY <2>1, <2>2
<1>9. Content'
  BY <1>1 DEF StreamInv, Content, Base, Used, Mult
<1>10. StreamTypes' /\ RoomKept' /\ ErrorShape' /\ StreamIsRight'
  BY <1>1, <1>2 DEF StreamInv, StreamTypes, RoomKept, ErrorShape, StreamIsRight, Used
<1>11. QED
  BY <1>7, <1>8, <1>9, <1>10 DEF StreamInv

LEMMA WriteClusterStep ==
  ASSUME SafeSetting, Protocol, StreamInv, WriteCluster
  PROVE  StreamInv'
<1>1. /\ tpc = "write" /\ ErrAction = 1
      /\ UNCHANGED <<ring, WI, RI, appended, ppc, chunk, phase, ack, lim>>
  BY DEF WriteCluster, SafeSetting, streamVars, callerVars, putVars, semVars, msgVars
<1>2. Cluster \in Nat /\ Cluster > 0 /\ ~failed
  BY <1>1, PackerAssumption DEF StreamInv, ErrorShape
<1>3. CASE /\ file' = file \o [i \in 1..Cluster |-> ring[cur + i - 1]]
           /\ tpc' = "publish" /\ failed' = failed
  <2>1. /\ file' \in Seq(Nat) /\ Len(file') = Len(file) + Cluster
        /\ StreamIsRight' /\ RI + Cluster <= RingSize
    BY <1>1, <1>2, <1>3, WriteWords
  <2>2. cur' = Wrap(RI + Cluster, RingSize)
    BY <1>1, <1>3 DEF WriteCluster, StreamInv, Cursor
  <2>3. file \in Seq(Nat) /\ Len(file) \in Nat
    BY DEF StreamInv, StreamTypes
  <2>4. Base' = Base
    BY <1>1, <1>2, <1>3, <2>1, <2>3 DEF Base
  <2>5. Content'
    BY <1>1, <1>3, <2>4 DEF StreamInv, Content, Used, Mult
  <2>6. Cursor'
    BY <1>1, <1>3, <2>2 DEF StreamInv, Cursor, Used, Mult
  <2>7. Flushed' /\ ErrorShape' /\ StreamTypes' /\ RoomKept'
    BY <1>1, <1>2, <1>3, <2>1 DEF StreamInv, Flushed, ErrorShape, StreamTypes, RoomKept, Used,
                             Floor, Mult, Protocol, StopOnce
  <2>8. QED
    BY <2>1, <2>5, <2>6, <2>7 DEF StreamInv
<1>4. CASE /\ \E n \in 0..(Cluster - 1) : file' = file \o [i \in 1..n |-> ring[cur + i - 1]]
           /\ tpc' = "errmode" /\ failed' = TRUE
  <2>1. PICK n \in 0..(Cluster - 1) : file' = file \o [i \in 1..n |-> ring[cur + i - 1]]
    BY <1>4
  <2>2. file' \in Seq(Nat) /\ StreamIsRight'
    BY <1>1, <1>2, <2>1, WriteWords, SMTT(30)
  <2>3. Content' /\ Flushed' /\ ErrorShape'
    BY <1>4 DEF Content, Flushed, ErrorShape
  <2>4. Cursor' /\ StreamTypes' /\ RoomKept'
    BY <1>1, <1>4, <2>2 DEF StreamInv, Cursor, StreamTypes, RoomKept, Used, Mult
  <2>5. QED
    BY <2>2, <2>3, <2>4 DEF StreamInv
<1>5. QED
  BY <1>1, <1>3, <1>4 DEF WriteCluster, OnError

LEMMA PublishStep ==
  ASSUME Protocol, StreamInv, PublishRI
  PROVE  StreamInv'
<1>1. /\ tpc = "publish" /\ RI' = cur
      /\ UNCHANGED <<ring, WI, appended, file, ppc, chunk, phase, failed, ack, cur, lim>>
      /\ cur # lim => tpc' = "write"
      /\ cur = lim => tpc' = IF phase = "tail" THEN "header" ELSE "isnap"
  BY DEF PublishRI, streamVars, callerVars, putVars, semVars, msgVars
<1>2. /\ WI \in Slots /\ RI \in Slots /\ Mult(RI) /\ ~failed /\ ~ack
      /\ lim \in Slots /\ Mult(lim) /\ lim # RI /\ Dist(RI, lim, RingSize) <= Used
      /\ RI' = Wrap(RI + Cluster, RingSize) /\ phase \in {"run", "stop", "tail"}
  BY <1>1 DEF StreamInv, StreamTypes, Cursor, ErrorShape, Protocol, StopOnce, TaskShape
<1>3. Cluster \in Nat /\ Cluster > 0 /\ RingSize \in Nat /\ Mult(RingSize) /\ RingSize >= 2 * Cluster
  BY PackerAssumption, RingIsWhole
<1>4. RI + Cluster <= RingSize
  BY <1>2, <1>3, MultGap DEF Slots
<1>5. RI < lim => RI + Cluster <= lim
  BY <1>2, MultGap DEF Slots
<1>6. RI' \in Slots /\ Mult(RI')
  <2>1. Mult(RI + Cluster) /\ RI + Cluster \in Nat
    <3>1. RI \in Nat /\ Mult(RI) /\ Cluster \in Nat
      BY <1>2, <1>3 DEF Slots
    <3>2. Mult(Cluster)
      BY <3>1, MultArith
    <3>3. QED
      BY <3>1, <3>2, MultArith
  <2>2. Mult(Wrap(RI + Cluster, RingSize))
    BY <2>1, WrapMult
  <2>3. RI' \in Slots
    BY <1>2, <1>3, <1>4 DEF Slots, Wrap
  <2>4. QED
    BY <1>2, <2>2, <2>3 DEF Mult
<1>7. ASSUME NEW s \in Slots
      PROVE  /\ Dist(RI', s, RingSize) \in Nat /\ Dist(RI, s, RingSize) \in Nat
             /\ Dist(RI, s, RingSize) >= Cluster
                  => Dist(RI', s, RingSize) = Dist(RI, s, RingSize) - Cluster
             /\ Dist(RI, s, RingSize) < Cluster
                  => Dist(RI', s, RingSize) = Dist(RI, s, RingSize) + RingSize - Cluster
  BY <1>2, <1>3, <1>4 DEF Slots, Dist, Wrap
<1>8. Dist(RI, lim, RingSize) >= Cluster
  BY <1>2, <1>3, <1>4, <1>5 DEF Slots, Dist
<1>9. Used >= Cluster /\ Used' = Used - Cluster /\ Used \in Nat
  <2>1. Used \in Nat /\ Dist(RI, lim, RingSize) \in Nat
    BY <1>2, <1>7 DEF Used
  <2>2. Used >= Cluster
    BY <1>2, <1>3, <1>8, <2>1
  <2>3. QED
    BY <1>1, <1>2, <1>7, <2>1, <2>2 DEF Used
<1>10. Base' = Base + Cluster /\ Base \in Nat /\ Mult(Base) /\ appended = Base + Used
  <2>1. Base \in Nat /\ Mult(Base) /\ appended = Base + Used
    BY <1>2 DEF StreamInv, Content
  <2>2. tpc' # "publish" /\ Len(file) \in Nat
    BY <1>1 DEF StreamInv, StreamTypes
  <2>3. QED
    BY <1>1, <1>3, <2>1, <2>2 DEF Base
<1>11. Content'
  <2>1. Mult(Base')
    <3>1. Mult(Cluster)
      BY <1>10, MultArith
    <3>2. Mult(Base + Cluster)
      BY <1>3, <1>10, <3>1, MultArith
    <3>3. QED
      BY <1>10, <3>2 DEF Mult
  <2>2. ASSUME NEW s \in Slots, Dist(RI', s, RingSize) < Used'
        PROVE  ring'[s] = Base' + Dist(RI', s, RingSize)
    <3>1. Used < RingSize
      BY <1>2, <1>3 DEF Used, Dist, Slots
    <3>2. Dist(RI, s, RingSize) >= Cluster
      BY <1>3, <1>7, <1>9, <2>2, <3>1
    <3>3. Dist(RI', s, RingSize) = Dist(RI, s, RingSize) - Cluster
          /\ Dist(RI, s, RingSize) < Used
      BY <1>3, <1>7, <1>9, <2>2, <3>2
    <3>4. ring[s] = Base + Dist(RI, s, RingSize)
      BY <1>2, <3>3 DEF StreamInv, Content
    <3>5. QED
      BY <1>1, <1>3, <1>7, <1>10, <3>3, <3>4
  <2>3. Base' \in Nat /\ appended' = Base' + Used'
    BY <1>1, <1>3, <1>9, <1>10
  <2>4. QED
    BY <2>1, <2>2, <2>3 DEF Content, Slots
<1>12. Cursor'
  <2>1. tpc' = "write" => /\ lim' # RI'
                          /\ Dist(RI', lim, RingSize) = Dist(RI, lim, RingSize) - Cluster
    BY <1>1, <1>2, <1>7, <1>8
  <2>2. tpc' = "write" => Dist(RI', lim, RingSize) <= Used'
    BY <1>2, <1>3, <1>7, <1>9, <2>1
  <2>3. QED
    BY <1>1, <1>2, <1>6, <2>1, <2>2 DEF Cursor, Slots, Mult
<1>13. Flushed'
  <2>1. CASE phase = "run"
    BY <1>1, <1>2, <2>1 DEF Flushed
  <2>2. CASE phase # "run"
    <3>1. lim = Floor(WI) /\ (phase = "tail" => Mult(WI))
      BY <1>1, <1>2, <2>2 DEF StreamInv, Flushed
    <3>2. phase = "tail" => lim = WI
      BY <1>2, <3>1, FloorOfMult DEF Slots
    <3>3. QED
      BY <1>1, <1>2, <3>1, <3>2 DEF Flushed, Floor, Mult
  <2>3. QED
    BY <2>1, <2>2
<1>14. RoomKept'
  <2>1. SUFFICES ASSUME NEW p \in Producers, ppc[p] = "data"
                 PROVE  Used' + ChunkWords(chunk[p]) < RingSize
    BY <1>1 DEF RoomKept
  <2>2. Used + ChunkWords(chunk[p]) < RingSize
    BY <2>1 DEF StreamInv, RoomKept
  <2>3. chunk[p] \in Nat
    BY DEF StreamInv, StreamTypes
  <2>4. ChunkWords(chunk[p]) \in Int
    BY <2>3 DEF ChunkWords, RealSize
  <2>5. QED
    BY <1>3, <1>9, <2>2, <2>4
<1>15. StreamTypes' /\ ErrorShape' /\ StreamIsRight'
  BY <1>1, <1>2, <1>6 DEF StreamInv, StreamTypes, ErrorShape, StreamIsRight
<1>16. QED
  BY <1>11, <1>12, <1>13, <1>14, <1>15 DEF StreamInv

LEMMA AddTailStep ==
  ASSUME SafeSetting, Protocol, StreamInv, AddTail
  PROVE  StreamInv'
<1> DEFINE junk == (Cluster - WI - 4) % Cluster
<1>1. /\ tpc = "tail" /\ tpc' = "snap" /\ phase' = "tail"
      /\ ring' = Filled(ring, RingSize, WI, junk + 4, appended)
      /\ WI' = Wrap(WI + (junk + 4), RingSize)
      /\ appended' = appended + (junk + 4)
      /\ UNCHANGED <<RI, file, ppc, chunk, failed, ack>>
  BY DEF AddTail, streamVars, callerVars, putVars, semVars, msgVars
<1>2. /\ phase = "info" /\ ~failed /\ ~ack /\ sem = Closer
  BY <1>1 DEF StreamInv, ErrorShape, Protocol, ControlTypes, Holders, StopOnce, Stopped, TaskShape
<1>3. WI \in Slots /\ RI \in Slots /\ RI = Floor(WI)
  BY <1>1, <1>2 DEF StreamInv, StreamTypes, Flushed
<1>4. /\ Cluster \in Nat /\ Cluster >= 4 /\ RingSize \in Nat /\ RingSize >= 3 * Cluster
      /\ Mult(RingSize)
  BY RingIsWhole, PackerAssumption DEF SafeSetting
<1>5. WI \in Nat /\ Floor(WI) <= WI /\ WI < Floor(WI) + Cluster /\ Floor(WI) \in Nat
  BY <1>3, FloorFacts DEF Slots
<1>6. junk \in 0..(Cluster - 1) /\ Mult(WI + junk + 4)
  BY <1>5, TailFills
<1> HIDE DEF junk
<1>7. Used = WI - RI /\ Used < Cluster /\ Used \in Nat
  BY <1>3, <1>4, <1>5 DEF Used, Dist
<1>8. junk + 4 \in Nat /\ junk + 4 > 0 /\ Used + (junk + 4) < RingSize
  BY <1>4, <1>6, <1>7
<1>9. WI' \in Slots /\ ring' \in [Slots -> Nat] /\ appended' \in Nat /\ Content'
  BY <1>1, <1>8, FillKeepsContent
<1>10. Mult(WI')
  <2>1. WI + (junk + 4) = WI + junk + 4 /\ WI + (junk + 4) \in Nat
    BY <1>5, <1>6, <1>4
  <2>2. Mult(WI + (junk + 4))
    BY <1>6, <2>1
  <2>3. Mult(Wrap(WI + (junk + 4), RingSize))
    BY <2>1, <2>2, WrapMult
  <2>4. QED
    BY <1>1, <2>3 DEF Mult
<1>11. RoomKept'
  BY <1>1, <1>2 DEF RoomKept, Protocol, Holders, Producers, Closer
<1>12. Cursor' /\ Flushed' /\ ErrorShape'
  BY <1>1, <1>2, <1>10 DEF StreamInv, Cursor, Flushed, ErrorShape, Mult
<1>13. StreamTypes' /\ StreamIsRight'
  BY <1>1, <1>9 DEF StreamInv, StreamTypes, StreamIsRight
<1>14. QED
  BY <1>9, <1>11, <1>12, <1>13 DEF StreamInv

LEMMA StreamStep ==
  ASSUME SafeSetting, Protocol, StreamInv, [Next]_vars
  PROVE  StreamInv'
<1>1. CASE UNCHANGED vars
  BY <1>1, StreamFrame DEF vars, streamVars, semVars, putVars, taskVars,
                           StreamInv, StreamTypes, RoomKept
<1>2. CASE (\E p \in Producers : Put(p)) \/ Close
  BY <1>2, PutStreamStep, CallerStep DEF SafeSetting
<1>3. CASE Task
  BY <1>3, QuietTaskStep, SnapStreamStep, WriteClusterStep, PublishStep, AddTailStep DEF Task
<1>4. QED
  BY <1>1, <1>2, <1>3 DEF Next

(* What is in the stream file is what the callers put into the ring, in    *)
(* order, whatever the sizes of ring and clusters and however PutData,     *)
(* Close and the task interleave and write() fails.                        *)
THEOREM StreamAlwaysRight == ASSUME SafeSetting PROVE Spec => []StreamIsRight
<1>1. Init => Protocol /\ StreamInv
  BY InitProtocol, InitStream
<1>2. Protocol /\ StreamInv /\ [Next]_vars => Protocol' /\ StreamInv'
  BY ProtocolStep, StreamStep
<1>3. StreamInv => StreamIsRight
  BY DEF StreamInv
<1>4. QED
  BY <1>1, <1>2, <1>3, PTL DEF Spec

LEMMA MultMod ==
  ASSUME NEW x \in Nat, Mult(x)
  PROVE  x % Cluster = 0
<1>1. Cluster \in Nat /\ Cluster > 0
  BY PackerAssumption
<1>2. x = Cluster * (x \div Cluster) + (x % Cluster) /\ x % Cluster \in 0..(Cluster - 1)
      /\ x \div Cluster \in Nat
  BY <1>1
<1>3. Floor(x) = x
  BY FloorOfMult
<1>4. Cluster * (x \div Cluster) = x
  BY <1>1, <1>2, <1>3 DEF Floor
<1>5. QED
  BY <1>2, <1>4

(* A good acknowledgement means that everything has reached the file.      *)
THEOREM StreamAlwaysComplete == ASSUME SafeSetting PROVE Spec => []StreamComplete
<1>1. Init => Protocol /\ StreamInv
  BY InitProtocol, InitStream
<1>2. Protocol /\ StreamInv /\ [Next]_vars => Protocol' /\ StreamInv'
  BY ProtocolStep, StreamStep
<1>3. Protocol /\ StreamInv => StreamComplete
  <2>1. SUFFICES ASSUME Protocol, StreamInv, ack, ~failed
                 PROVE  Len(file) = appended /\ Len(file) % Cluster = 0
    BY DEF StreamComplete
  <2>2. RI = WI /\ tpc = "dead" /\ RI \in Slots
    BY <2>1 DEF StreamInv, StreamTypes, Flushed, Protocol, StopOnce
  <2>3. Used = 0
    BY <2>2, RingIsWhole DEF Used, Dist, Slots
  <2>4. Base = Len(file) /\ Base \in Nat /\ Mult(Base) /\ appended = Base + Used
    BY <2>1, <2>2 DEF StreamInv, Content, Base
  <2>5. QED
    BY <2>3, <2>4, MultMod
<1>4. QED
  BY <1>1, <1>2, <1>3, PTL DEF Spec
-----------------------------------------------------------------------------
(* Layer 3: the packer implements the append-only file, when nobody calls  *)
(* PutData once Close has been called.                                     *)

(* While Close is under way, and after it, nobody is inside PutData.       *)
Quiet == cpc # "idle" => \A p \in Producers : ppc[p] = "idle"

LEMMA QuietStep ==
  ASSUME StopFirst, Protocol, Quiet, [Next]_vars
  PROVE  Quiet'
<1> USE DEF Quiet, Protocol, ControlTypes
<1>1. CASE \E p \in Producers : Put(p)
  BY <1>1 DEF Put, PutCall, PutRefused, PutNull, PutIndex, PutStream, PutNotify, PutCount, PutLeave
<1>2. CASE Close
  BY <1>2 DEF Close, CloseCall, ClosePost, CloseAck, CloseDelete, putVars
<1>3. CASE Task
  <2>1. UNCHANGED <<ppc, cpc>>
    BY <1>3 DEF Task, Pend, SnapStream, WriteCluster, PublishRI, SnapIndex, WriteBlock,
                PublishIdxRI, AddInfo, AddTail, PatchHeader, Drain, PostAck, callerVars, putVars
  <2>2. QED
    BY <2>1
<1>4. CASE UNCHANGED vars
  BY <1>4 DEF vars, putVars
<1>5. QED
  BY <1>1, <1>2, <1>3, <1>4 DEF Next

(* The file is a prefix of what has been accepted.                         *)
LEMMA FileBehind ==
  ASSUME StreamInv, ~failed, tpc # "publish"
  PROVE  Len(file) \in Nat /\ appended \in Nat /\ Len(file) <= appended
<1>1. appended = Len(file) + Used /\ Len(file) \in Nat /\ appended \in Nat
  BY DEF StreamInv, StreamTypes, Content, Base
<1>2. Used \in Nat
  BY RingIsWhole DEF StreamInv, StreamTypes, Slots, Used, Dist
<1>3. QED
  BY <1>1, <1>2

LEMMA Prefix ==
  ASSUME file \in Seq(Nat), file' \in Seq(Nat), StreamIsRight', appended \in Nat,
         Len(file) <= Len(file'), Len(file') <= appended
  PROVE  Log!Extended
<1>1. Len(file) \in Nat /\ Len(file') \in Nat
  OBVIOUS
<1>2. Len(file') \in Len(file)..appended
  BY <1>1
<1>3. file' = [i \in 1..Len(file') |-> i - 1]
  <2>1. DOMAIN file' = 1..Len(file') /\ file' = [i \in DOMAIN file' |-> file'[i]]
    OBVIOUS
  <2>2. QED
    BY <2>1 DEF StreamIsRight
<1>4. QED
  BY <1>2, <1>3 DEF Log!Extended

(* PutData accepts words; the file is not closed yet.                      *)
LEMMA PutIsAccept ==
  ASSUME AlignedSizes, Protocol, StreamInv, Quiet, NEW p \in Producers, Put(p)
  PROVE  Log!Accept \/ UNCHANGED Log!logVars
<1>1. UNCHANGED <<file, failed, ack, tpc>>
  BY DEF Put, PutCall, PutRefused, PutNull, PutIndex, PutStream, PutNotify, PutCount, PutLeave,
         taskVars
<1>2. CASE PutStream(p)
  <2>1. ppc[p] = "data" /\ appended' = appended + ChunkWords(chunk[p])
    BY <1>2 DEF PutStream
  <2>2. chunk[p] \in Sizes(p) /\ appended \in Nat
    BY <2>1 DEF StreamInv, StreamTypes
  <2>3. ChunkWords(chunk[p]) \in Nat
    BY <2>2, ChunkFills
  <2>4. cpc = "idle"
    BY <2>1 DEF Quiet
  <2>5. ~ack /\ tpc # "dead"
    BY <2>4 DEF Protocol, StopOnce, Stopped
  <2>6. QED
    BY <1>1, <2>1, <2>2, <2>3, <2>5 DEF Log!Accept
<1>3. CASE ~PutStream(p)
  <2>1. appended' = appended
    BY <1>3 DEF Put, PutCall, PutRefused, PutNull, PutIndex, PutNotify, PutCount, PutLeave,
                streamVars
  <2>2. QED
    BY <1>1, <2>1 DEF Log!logVars
<1>4. QED
  BY <1>2, <1>3

(* Close changes neither the file nor what has been accepted; the task is  *)
(* dead when it takes the acknowledgement away.                            *)
LEMMA CloseIsStutter ==
  ASSUME Protocol, Close
  PROVE  UNCHANGED Log!logVars
<1>1. UNCHANGED <<appended, file, failed, tpc>> /\ (ack' = ack \/ (ack /\ ~ack'))
  BY DEF Close, CloseCall, ClosePost, CloseAck, CloseDelete, streamVars, taskVars
<1>2. ack => tpc = "dead"
  BY DEF Protocol, StopOnce
<1>3. QED
  BY <1>1, <1>2 DEF Log!logVars

(* Words in the file: a write that succeeds, or one that fails half-way.   *)
LEMMA WriteClusterIsWrite ==
  ASSUME SafeSetting, Protocol, StreamInv, WriteCluster
  PROVE  Log!Write \/ Log!Break
<1>1. tpc = "write" /\ ~failed /\ ~ack /\ ErrAction = 1 /\ UNCHANGED <<appended, ack>>
  BY DEF WriteCluster, SafeSetting, StreamInv, ErrorShape, Protocol, StopOnce, streamVars
<1>2. Cluster \in Nat /\ Cluster \in 0..Cluster /\ file \in Seq(Nat) /\ Len(file) \in Nat
      /\ appended \in Nat
  BY PackerAssumption DEF StreamInv, StreamTypes
<1>3. CASE /\ file' = file \o [i \in 1..Cluster |-> ring[cur + i - 1]]
           /\ tpc' = "publish" /\ failed' = failed
  <2>1. file' \in Seq(Nat) /\ Len(file') = Len(file) + Cluster /\ StreamIsRight'
        /\ Len(file') <= appended
    BY <1>1, <1>2, <1>3, WriteWords
  <2>2. Log!Extended
    BY <1>2, <2>1, Prefix
  <2>3. QED
    BY <1>1, <1>3, <2>2 DEF Log!Write
<1>4. CASE /\ \E n \in 0..(Cluster - 1) : file' = file \o [i \in 1..n |-> ring[cur + i - 1]]
           /\ tpc' = "errmode" /\ failed' = TRUE
  <2>1. PICK n \in 0..(Cluster - 1) : file' = file \o [i \in 1..n |-> ring[cur + i - 1]]
    BY <1>4
  <2>2. n \in 0..Cluster /\ n \in Nat
    BY <1>2, <2>1
  <2>3. file' \in Seq(Nat) /\ Len(file') = Len(file) + n /\ StreamIsRight'
        /\ Len(file') <= appended
    BY <1>1, <2>1, <2>2, WriteWords
  <2>4. Log!Extended
    BY <1>2, <2>2, <2>3, Prefix
  <2>5. QED
    BY <1>1, <1>4, <2>4 DEF Log!Break
<1>5. QED
  BY <1>1, <1>3, <1>4 DEF WriteCluster, OnError

(* A write to the index file or the patching of the header fails, and the  *)
(* stream file stays as it is.                                             *)
LEMMA FailureIsBreak ==
  ASSUME SafeSetting, Protocol, StreamInv, WriteBlock \/ PatchHeader
  PROVE  Log!Break \/ UNCHANGED Log!logVars
<1>1. tpc \in {"iwrite", "header"} /\ ~failed /\ ~ack /\ UNCHANGED <<appended, ack, file>>
      /\ tpc' # "dead"
  BY DEF WriteBlock, PatchHeader, OnError, StreamInv, ErrorShape, Protocol, StopOnce,
         streamVars, SafeSetting
<1>2. file \in Seq(Nat) /\ StreamIsRight' /\ Len(file) <= appended
      /\ appended \in Nat /\ Len(file) \in Nat
  BY <1>1, FileBehind DEF StreamInv, StreamTypes, StreamIsRight
<1>3. Log!Extended
  BY <1>1, <1>2, Prefix
<1>4. failed' \in {TRUE, failed}
  BY DEF WriteBlock, PatchHeader, OnError
<1>5. QED
  BY <1>1, <1>3, <1>4 DEF Log!Break, Log!logVars

(* The acknowledgement of a packer without an error closes the file.       *)
LEMMA PostAckIsClose ==
  ASSUME Protocol, StreamInv, PostAck
  PROVE  Log!CloseFile \/ UNCHANGED Log!logVars
<1>1. tpc = "ack" /\ tpc' = "dead" /\ ack' /\ ~ack /\ UNCHANGED <<appended, file, failed>>
  BY DEF PostAck, streamVars, Protocol, StopOnce
<1>2. CASE failed
  BY <1>1, <1>2 DEF Log!logVars
<1>3. CASE ~failed
  <2>1. RI = WI /\ RI \in Slots
    BY <1>1, <1>3 DEF StreamInv, Flushed, StreamTypes
  <2>2. Used = 0
    BY <2>1, RingIsWhole DEF Used, Dist, Slots
  <2>3. appended = Len(file) + Used /\ Len(file) \in Nat
    BY <1>1, <1>3 DEF StreamInv, StreamTypes, Content, Base
  <2>4. Len(file) = appended
    BY <2>2, <2>3
  <2>5. QED
    BY <1>1, <1>3, <2>4 DEF Log!CloseFile
<1>4. QED
  BY <1>2, <1>3

(* The padding of the stream is accepted like any other word.              *)
LEMMA AddTailIsAccept ==
  ASSUME Protocol, StreamInv, AddTail
  PROVE  Log!Accept
<1> DEFINE junk == (Cluster - WI - 4) % Cluster
<1>1. tpc = "tail" /\ tpc' = "snap" /\ ~failed /\ ~ack /\ UNCHANGED <<file, failed, ack>>
      /\ appended' = appended + (junk + 4)
  BY DEF AddTail, StreamInv, ErrorShape, Protocol, StopOnce
<1>2. appended \in Nat /\ WI \in Int /\ Cluster \in Nat /\ Cluster > 0
  BY PackerAssumption, RingIsWhole DEF StreamInv, StreamTypes, Slots
<1>3. junk \in Nat
  BY <1>2
<1>4. QED
  BY <1>1, <1>2, <1>3 DEF Log!Accept

(* The other steps of the task do not show.                                *)
LEMMA InnerIsStutter ==
  ASSUME Protocol, StreamInv,
         \/ Pend \/ SnapStream \/ PublishRI \/ SnapIndex \/ PublishIdxRI \/ AddInfo \/ Drain
  PROVE  UNCHANGED Log!logVars
<1>1. UNCHANGED <<appended, file, failed, ack>> /\ tpc # "dead" /\ tpc' # "dead"
  BY DEF Pend, SnapStream, PublishRI, SnapIndex, PublishIdxRI, AfterIndex, AddInfo, Drain,
         streamVars, Protocol, TaskShape
<1>2. QED
  BY <1>1 DEF Log!logVars

LEMMA StepIsLogStep ==
  ASSUME SafeSetting, Protocol, StreamInv, Quiet, [Next]_vars
  PROVE  [Log!Next]_(Log!logVars)
<1> USE DEF Log!Next
<1>1. CASE \E p \in Producers : Put(p)
  BY <1>1, PutIsAccept DEF SafeSetting
<1>2. CASE Close
  BY <1>2, CloseIsStutter
<1>3. CASE Task
  BY <1>3, WriteClusterIsWrite, FailureIsBreak, PostAckIsClose, AddTailIsAccept, InnerIsStutter
     DEF Task
<1>4. CASE UNCHANGED vars
  BY <1>4 DEF vars, streamVars, taskVars, Log!logVars
<1>5. QED
  BY <1>1, <1>2, <1>3, <1>4 DEF Next

(* Every behaviour of the packer, its rings, wake-ups and its closing      *)
(* protocol, is one of the append-only file.                               *)
THEOREM PackerIsAppendFile ==
  ASSUME SafeSetting, StopFirst
  PROVE  Spec => ImplementsAppendFile
<1>1. Init => Protocol /\ StreamInv /\ Quiet /\ Log!Init
  <2>1. Init => Quiet
    BY DEF Init, Quiet
  <2>2. Init => Log!Init
    BY PackerAssumption DEF Init, Log!Init
  <2>3. QED
    BY <2>1, <2>2, InitProtocol, InitStream
<1>2. Protocol /\ StreamInv /\ Quiet /\ [Next]_vars => Protocol' /\ StreamInv' /\ Quiet'
  BY ProtocolStep, StreamStep, QuietStep
<1>3. Protocol /\ StreamInv /\ Quiet /\ [Next]_vars => [Log!Next]_(Log!logVars)
  BY StepIsLogStep
<1>4. QED
  BY <1>1, <1>2, <1>3, PTL DEF Spec, ImplementsAppendFile, Log!Spec

(* After the first failed operation neither file is touched any more.      *)
THEOREM NothingAfterError == Spec => NoWriteAfterError
<1> DEFINE Halted == failed /\ ErrAction = 1 => tpc \in {"errmode", "ack", "dead"}
<1>1. Init => Halted
  BY DEF Init
<1>2. Halted /\ [Next]_vars => Halted'
  BY DEF Next, Put, PutCall, PutRefused, PutNull, PutIndex, PutStream, PutNotify, PutCount,
         PutLeave, Close, CloseCall, ClosePost, CloseAck, CloseDelete, Task, Pend, SnapStream,
         WriteCluster, PublishRI, SnapIndex, WriteBlock, PublishIdxRI, AfterIndex, AddInfo,
         AddTail, PatchHeader, Drain, PostAck, OnError, vars, taskVars
<1>3. Halted /\ [Next]_vars => [failed /\ ErrAction = 1 => UNCHANGED <<file, fidx>>]_vars
  BY DEF Next, Put, PutCall, PutRefused, PutNull, PutIndex, PutStream, PutNotify, PutCount,
         PutLeave, Close, CloseCall, ClosePost, CloseAck, CloseDelete, Task, Pend, SnapStream,
         WriteCluster, PublishRI, SnapIndex, WriteBlock, PublishIdxRI, AddInfo,
         AddTail, PatchHeader, Drain, PostAck, vars, taskVars
<1>4. QED
  BY <1>1, <1>2, <1>3, PTL DEF Spec, NoWriteAfterError
-----------------------------------------------------------------------------
(* Layer 4: the index ring, which is two blocks long, and the lengths in   *)
(* the file header.  Entries have one size, so a handler that stops the    *)
(* task is all that is asked for.                                          *)
StopsOnError == ErrAction = 1

LEMMA IndexSizes ==
  /\ IdxBlock \in Nat /\ IdxBlock >= 4 /\ IdxRingSize = 2 * IdxBlock /\ IdxRingSize \in Nat
  /\ EntryWords \in Nat /\ EntryWords > 0 /\ EntryWords <= IdxBlock
  /\ InfoWords \in Nat /\ InfoWords + 4 <= IdxBlock
BY PackerAssumption DEF IdxRingSize

LEMMA RemainderIs ==
  ASSUME NEW x \in Int, NEW k \in Int, NEW r \in Int, 0 <= r, r < IdxBlock, x = k * IdxBlock + r
  PROVE  x % IdxBlock = r /\ x \div IdxBlock = k
<1> DEFINE q == x \div IdxBlock
           m == x % IdxBlock
<1>1. IdxBlock \in Nat /\ IdxBlock > 0
  BY IndexSizes
<1>2. q \in Int /\ m \in Int /\ 0 <= m /\ m < IdxBlock /\ x = q * IdxBlock + m
  BY <1>1
<1> HIDE DEF q, m
<1>3. ASSUME q < k PROVE FALSE
  <2>1. PICK d \in Nat : k = q + 1 + d
    BY <1>2, <1>3
  <2>2. k * IdxBlock = q * IdxBlock + IdxBlock + d * IdxBlock /\ d * IdxBlock \in Nat
    BY <1>1, <1>2, <2>1
  <2>3. q * IdxBlock \in Int
    BY <1>1, <1>2
  <2>4. QED
    BY <1>1, <1>2, <2>2, <2>3
<1>4. ASSUME k < q PROVE FALSE
  <2>1. PICK d \in Nat : q = k + 1 + d
    BY <1>2, <1>4
  <2>2. q * IdxBlock = k * IdxBlock + IdxBlock + d * IdxBlock /\ d * IdxBlock \in Nat
    BY <1>1, <1>2, <2>1
  <2>3. k * IdxBlock \in Int
    BY <1>1
  <2>4. QED
    BY <1>1, <1>2, <2>2, <2>3
<1>5. q = k
  BY <1>2, <1>3, <1>4
<1>6. k * IdxBlock \in Int
  BY <1>1
<1>7. m = r
  BY <1>2, <1>5, <1>6
<1>8. QED
  BY <1>5, <1>7 DEF q, m

(* The block a slot of the index ring lies in, as in the snapshot of IdxWI. *)
Block(i) == (i \div IdxBlock) * IdxBlock

LEMMA BlockIs ==
  ASSUME NEW i \in 0..(IdxRingSize - 1)
  PROVE  Block(i) = IF i < IdxBlock THEN 0 ELSE IdxBlock
<1>1. IdxBlock \in Nat /\ IdxBlock > 0 /\ i \in Nat /\ i < 2 * IdxBlock
  BY IndexSizes
<1>2. CASE i < IdxBlock
  <2>1. i = 0 * IdxBlock + i
    BY <1>1
  <2>2. i \div IdxBlock = 0
    BY <1>1, <1>2, <2>1, RemainderIs
  <2>3. QED
    BY <1>1, <1>2, <2>2 DEF Block
<1>3. CASE ~(i < IdxBlock)
  <2>1. i = 1 * IdxBlock + (i - IdxBlock) /\ 0 <= i - IdxBlock /\ i - IdxBlock < IdxBlock
    BY <1>1, <1>3
  <2>2. i \div IdxBlock = 1
    BY <1>1, <2>1, RemainderIs
  <2>3. QED
    BY <1>1, <1>3, <2>2 DEF Block
<1>4. QED
  BY <1>2, <1>3

(* The INFO list and its padding end on a block: the one after the entries *)
(* if there is room, else the one after that.                              *)
InfoAfter(wi) == Wrap(wi + 2 + InfoWords, IdxRingSize)
InfoJunk(wi)  == (IdxBlock - InfoAfter(wi) - 2) % IdxBlock
InfoEnd(wi)   == Wrap(Wrap(InfoAfter(wi) + 2, IdxRingSize) + InfoJunk(wi), IdxRingSize)

LEMMA InfoFills ==
  ASSUME NEW wi \in 0..(IdxRingSize - 1), NEW ri \in {0, IdxBlock},
         ri = IF wi < IdxBlock THEN 0 ELSE IdxBlock
  PROVE  LET t == (wi - ri) + InfoWords + 4
         IN  /\ InfoJunk(wi) = IF t <= IdxBlock THEN IdxBlock - t ELSE 2 * IdxBlock - t
             /\ InfoEnd(wi) = IF t <= IdxBlock THEN IdxBlock - ri ELSE ri
             /\ t \in Nat /\ t >= 4 /\ t < 2 * IdxBlock
<1> DEFINE t == (wi - ri) + InfoWords + 4
           x == IdxBlock - InfoAfter(wi) - 2
           r == IF t <= IdxBlock THEN IdxBlock - t ELSE 2 * IdxBlock - t
<1>1. /\ IdxBlock \in Nat /\ IdxBlock >= 4 /\ IdxRingSize = 2 * IdxBlock
      /\ InfoWords \in Nat /\ InfoWords + 4 <= IdxBlock /\ wi \in Nat /\ wi < 2 * IdxBlock /\ ri \in Nat
  BY IndexSizes
<1>2. t \in Nat /\ t >= 4 /\ t < 2 * IdxBlock /\ wi = ri + t - InfoWords - 4
  BY <1>1
<1> HIDE DEF t
<1>3. InfoAfter(wi) = IF ri + t - 2 >= 2 * IdxBlock THEN ri + t - 2 - 2 * IdxBlock ELSE ri + t - 2
  BY <1>1, <1>2 DEF InfoAfter, Wrap
<1>4. r \in Int /\ 0 <= r /\ r < IdxBlock
  BY <1>1, <1>2
<1>5. \E k \in {-2, -1, 0} : x = k * IdxBlock + r
  <2>1. CASE ri = 0
    <3>1. x = IdxBlock - t
      BY <1>1, <1>2, <1>3, <2>1
    <3>2. QED
      BY <1>1, <1>2, <3>1
  <2>2. CASE ri = IdxBlock
    <3>1. x = IF t >= IdxBlock + 2 THEN 2 * IdxBlock - t ELSE - t
      BY <1>1, <1>2, <1>3, <2>2
    <3>2. QED
      BY <1>1, <1>2, <3>1
  <2>3. QED
    BY <2>1, <2>2
<1>6. x \in Int
  BY <1>1, <1>2, <1>3
<1>7. x % IdxBlock = r
  <2>1. PICK k \in {-2, -1, 0} : x = k * IdxBlock + r
    BY <1>5
  <2>2. k \in Int
    BY <2>1
  <2> HIDE DEF x, r
  <2>3. QED
    BY <1>4, <1>6, <2>1, <2>2, RemainderIs
<1>8. InfoJunk(wi) = r
  BY <1>7 DEF InfoJunk
<1>9. InfoEnd(wi) = IF t <= IdxBlock THEN IdxBlock - ri ELSE ri
  <2>1. CASE ri = 0
    BY <1>1, <1>2, <1>3, <1>8, <2>1 DEF InfoEnd, Wrap
  <2>2. CASE ri = IdxBlock
    BY <1>1, <1>2, <1>3, <1>8, <2>2 DEF InfoEnd, Wrap
  <2>3. QED
    BY <2>1, <2>2
<1>10. QED
  BY <1>2, <1>8, <1>9 DEF t

(* n words behind the used ones of a ring, if they do not fill it, keep    *)
(* the words it holds and follow them.                                     *)
LEMMA FilledTypes ==
  ASSUME NEW size \in Nat, size > 0, NEW r \in [0..(size - 1) -> Nat],
         NEW wr \in 0..(size - 1), NEW n \in Nat, NEW o \in Nat
  PROVE  /\ Filled(r, size, wr, n, o) \in [0..(size - 1) -> Nat]
         /\ \A s \in 0..(size - 1) :
              Filled(r, size, wr, n, o)[s] =
                IF Dist(wr, s, size) < n THEN o + Dist(wr, s, size) ELSE r[s]
<1>1. \A s \in 0..(size - 1) : o + Dist(wr, s, size) \in Nat /\ r[s] \in Nat
  BY DEF Dist
<1>2. QED
  BY <1>1 DEF Filled

-----------------------------------------------------------------------------
(* The invariant of the index ring.                                        *)

IdxSlots  == 0..(IdxRingSize - 1)
IdxStarts == {0, IdxBlock}

(* Words in the ring that the task has not given back, and the file offset *)
(* of the word in slot IdxRI.                                              *)
IdxUsed == Dist(IdxRI, IdxWI, IdxRingSize)
IdxBase == IF tpc = "ipublish" THEN Len(fidx) - IdxBlock ELSE Len(fidx)

(* Nobody has failed yet, and Close has not taken its acknowledgement.     *)
Live == ~failed /\ (tpc # "dead" \/ ack)

(* The INFO list is in the ring; it may have filled the ring to the last   *)
(* word, which then looks empty.                                           *)
Padded == phase \in {"info", "tail"}
Dropped == Padded /\ ~InfoFits

IdxTypes ==
  /\ IdxWI \in IdxSlots /\ IdxRI \in IdxStarts /\ idx \in [IdxSlots -> Nat]
  /\ idxAppended \in Nat /\ IdxChkSize \in Nat /\ IndexJunk \in Nat /\ fidx \in Seq(Nat)

IdxCursor ==
  /\ tpc \in {"iwrite", "ipublish"} =>
       lim \in IdxStarts /\ lim # IdxRI /\ IdxUsed >= IdxBlock
  /\ tpc = "iwrite" => cur = IdxRI
  /\ tpc = "ipublish" => cur = lim

(* Every used slot holds the word that comes next in the file.             *)
IdxContent ==
  Live =>
    /\ \E k \in Nat : IdxBase = k * IdxBlock
    /\ \A s \in IdxSlots : Dist(IdxRI, s, IdxRingSize) < IdxUsed =>
         idx[s] = IdxBase + Dist(IdxRI, s, IdxRingSize)
    /\ Dropped => IdxUsed = 0
    /\ ~Dropped => idxAppended = IdxBase + IdxUsed

(* The closing phases leave less and less in the ring.                     *)
IdxFlushed ==
  Live =>
    /\ phase = "stop" /\ tpc \in {"iwrite", "ipublish"} => lim = Block(IdxWI)
    /\ phase = "info" /\ tpc \in {"iwrite", "ipublish"} => lim = IdxWI
    /\ tpc = "info" => IdxRI = Block(IdxWI)
    /\ Padded => IdxWI \in IdxStarts
    /\ tpc = "tail" \/ phase = "tail" => IdxRI = IdxWI

(* The counter the header is patched from.                                 *)
IdxCounts ==
  Live => idxAppended = IdxChkSize + (IF Padded THEN InfoWords + 4 + IndexJunk ELSE 0)

IdxInv ==
  IdxTypes /\ IdxCursor /\ IdxContent /\ IdxFlushed /\ IdxCounts /\ ErrorShape /\ IndexIsRight

LEMMA StartsAreSlots == IdxStarts \subseteq IdxSlots
BY IndexSizes DEF IdxStarts, IdxSlots

LEMMA UsedIs ==
  ASSUME IdxTypes
  PROVE  /\ IdxUsed \in Nat /\ IdxUsed < IdxRingSize
         /\ Space(IdxRI, IdxWI, IdxRingSize) = IdxRingSize - IdxUsed
         /\ \A s \in IdxSlots : Dist(IdxRI, s, IdxRingSize) \in Nat
<1>1. IdxRI \in 0..(IdxRingSize - 1) /\ IdxWI \in 0..(IdxRingSize - 1)
  BY StartsAreSlots DEF IdxTypes, IdxSlots
<1>2. QED
  BY <1>1, IndexSizes DEF IdxUsed, Dist, Space, IdxSlots

LEMMA InitIndex == Init => IdxInv
<1> SUFFICES ASSUME Init PROVE IdxInv
  OBVIOUS
<1>1. /\ idx = [s \in IdxSlots |-> s] /\ IdxWI = 0 /\ IdxRI = 0 /\ idxAppended = 0
      /\ IdxChkSize = 0 /\ IndexJunk = 0 /\ fidx = <<>> /\ tpc = "pend" /\ phase = "run" /\ ~failed
  BY DEF Init, IdxSlots
<1>2. fidx \in Seq(Nat) /\ Len(fidx) = 0
  BY <1>1, EmptySeq
<1>3. IdxTypes
  <2>1. 0 \in IdxSlots /\ 0 \in IdxStarts /\ IdxSlots \subseteq Nat
    BY IndexSizes DEF IdxSlots, IdxStarts
  <2>2. QED
    BY <1>1, <1>2, <2>1 DEF IdxTypes
<1>4. IdxUsed = 0 /\ IdxBase = 0 /\ ~Padded /\ ~Dropped
  BY <1>1, <1>2 DEF IdxUsed, IdxBase, Dist, Padded, Dropped
<1>5. IdxContent
  <2>1. IdxBase = 0 * IdxBlock
    BY <1>4, IndexSizes
  <2>2. \A s \in IdxSlots : ~(Dist(IdxRI, s, IdxRingSize) < IdxUsed)
    BY <1>3, <1>4, UsedIs
  <2>3. QED
    BY <1>1, <1>4, <2>1, <2>2 DEF IdxContent
<1>6. QED
  BY <1>1, <1>2, <1>3, <1>4, <1>5 DEF IdxInv, IdxCursor, IdxFlushed, IdxCounts, ErrorShape, IndexIsRight

(* A step that leaves the index ring and its file alone.                   *)
LEMMA IdxFrame ==
  ASSUME IdxInv,
         UNCHANGED <<idx, IdxWI, IdxRI, IdxChkSize, idxAppended, IndexJunk, fidx>>,
         Live' => Live, ErrorShape',
         \/ UNCHANGED <<tpc, cur, lim, phase>>
         \/ /\ tpc # "ipublish" /\ tpc' \notin {"iwrite", "ipublish", "info", "tail"}
            /\ Padded' = Padded
            /\ phase' = "tail" => phase = "tail" \/ tpc = "tail"
  PROVE  IdxInv'
<1> USE DEF IdxInv
<1>1. IdxUsed' = IdxUsed /\ IdxBase' = IdxBase /\ Padded' = Padded /\ (Dropped' <=> Dropped)
  BY DEF IdxUsed, IdxBase, Padded, Dropped, InfoFits
<1>2. IdxTypes' /\ IdxCursor' /\ IndexIsRight'
  BY <1>1 DEF IdxTypes, IdxCursor, IndexIsRight
<1>3. IdxContent'
  BY <1>1 DEF IdxContent
<1>4. IdxFlushed'
  BY <1>1 DEF IdxFlushed, Block, Padded
<1>5. IdxCounts'
  BY <1>1 DEF IdxCounts
<1>6. QED
  BY <1>2, <1>3, <1>4, <1>5

(* Words that go into the ring, whatever it holds, keep the types.         *)
LEMMA IdxFillTypes ==
  ASSUME IdxTypes, NEW n \in Nat, n <= IdxRingSize, fidx' \in Seq(Nat), IdxRI' = IdxRI,
         IdxChkSize' \in Nat, IndexJunk' \in Nat, idxAppended' = idxAppended + n,
         idx' = Filled(idx, IdxRingSize, IdxWI, n, idxAppended),
         IdxWI' = Wrap(IdxWI + n, IdxRingSize)
  PROVE  IdxTypes'
<1>1. IdxRingSize \in Nat /\ IdxRingSize > 0
  BY IndexSizes
<1>2. IdxWI \in 0..(IdxRingSize - 1) /\ idx \in [0..(IdxRingSize - 1) -> Nat] /\ idxAppended \in Nat
  BY DEF IdxTypes, IdxSlots
<1>3. idx' \in [IdxSlots -> Nat]
  BY <1>1, <1>2, FilledTypes DEF IdxSlots
<1>4. IdxWI' \in IdxSlots
  BY <1>1, <1>2 DEF IdxSlots, Wrap
<1>5. idxAppended' \in Nat /\ IdxRI' \in IdxStarts
  BY <1>2 DEF IdxTypes, IdxStarts
<1>6. QED
  BY <1>3, <1>4, <1>5 DEF IdxTypes, IdxSlots

LEMMA IdxFill ==
  ASSUME IdxTypes, NEW base \in Nat, NEW n \in Nat, IdxUsed + n < IdxRingSize, IdxRI' = IdxRI,
         idxAppended = base + IdxUsed,
         \A s \in IdxSlots : Dist(IdxRI, s, IdxRingSize) < IdxUsed =>
           idx[s] = base + Dist(IdxRI, s, IdxRingSize),
         idx' = Filled(idx, IdxRingSize, IdxWI, n, idxAppended),
         IdxWI' = Wrap(IdxWI + n, IdxRingSize)
  PROVE  /\ IdxUsed' = IdxUsed + n
         /\ \A s \in IdxSlots : Dist(IdxRI', s, IdxRingSize) < IdxUsed' =>
              idx'[s] = base + Dist(IdxRI', s, IdxRingSize)
<1> DEFINE u == Dist(IdxRI, IdxWI, IdxRingSize)
<1>0. /\ IdxRingSize \in Nat /\ IdxRingSize > 0 /\ idx \in [0..(IdxRingSize - 1) -> Nat]
      /\ IdxRI \in 0..(IdxRingSize - 1) /\ IdxWI \in 0..(IdxRingSize - 1)
      /\ u + n < IdxRingSize /\ idxAppended = base + u
      /\ \A s \in 0..(IdxRingSize - 1) : Dist(IdxRI, s, IdxRingSize) < u =>
           idx[s] = base + Dist(IdxRI, s, IdxRingSize)
  BY IndexSizes, StartsAreSlots DEF IdxTypes, IdxSlots, IdxUsed
<1>1. u \in Nat /\ idxAppended \in Nat
  BY <1>0 DEF Dist
<1>2. Dist(IdxRI, Wrap(IdxWI + n, IdxRingSize), IdxRingSize) = u + n
  BY <1>0 DEF Dist, Wrap
<1>3. /\ idx' \in [0..(IdxRingSize - 1) -> Nat]
      /\ \A s \in 0..(IdxRingSize - 1) :
           idx'[s] = IF Dist(IdxWI, s, IdxRingSize) < n
                     THEN idxAppended + Dist(IdxWI, s, IdxRingSize) ELSE idx[s]
  <2>1. \A s \in 0..(IdxRingSize - 1) :
          idxAppended + Dist(IdxWI, s, IdxRingSize) \in Nat /\ idx[s] \in Nat
    BY <1>0, <1>1, SMTT(30) DEF Dist
  <2>2. QED
    BY <1>0, <2>1 DEF Filled
<1>4. ASSUME NEW s \in 0..(IdxRingSize - 1), Dist(IdxRI, s, IdxRingSize) < u + n
      PROVE  idx'[s] = base + Dist(IdxRI, s, IdxRingSize)
  <2>1. idx'[s] = IF Dist(IdxWI, s, IdxRingSize) < n
                  THEN idxAppended + Dist(IdxWI, s, IdxRingSize) ELSE idx[s]
    BY <1>3
  <2>2. CASE Dist(IdxRI, s, IdxRingSize) < u
    <3>1. ~(Dist(IdxWI, s, IdxRingSize) < n)
      BY <1>0, <2>2 DEF Dist
    <3>2. QED
      BY <1>0, <2>1, <2>2, <3>1
  <2>3. CASE ~(Dist(IdxRI, s, IdxRingSize) < u)
    <3>1. Dist(IdxWI, s, IdxRingSize) = Dist(IdxRI, s, IdxRingSize) - u /\ Dist(IdxRI, s, IdxRingSize) \in Nat
      BY <1>0, <1>4, <2>3 DEF Dist
    <3> DEFINE x == Dist(IdxWI, s, IdxRingSize)
               y == Dist(IdxRI, s, IdxRingSize)
    <3>2. x = y - u /\ y \in Nat /\ u \in Nat /\ y < u + n /\ n \in Nat /\ base \in Nat
          /\ idxAppended = base + u
      BY <1>0, <1>1, <1>4, <3>1
    <3>3. idx'[s] = IF x < n THEN idxAppended + x ELSE idx[s]
      BY <2>1
    <3> HIDE DEF x, y, u
    <3>4. x < n /\ idxAppended + x = base + y
      BY ONLY <3>2
    <3>5. QED
      BY <3>3, <3>4 DEF y
  <2>4. QED
    BY <2>2, <2>3
<1>5. QED
  BY <1>0, <1>2, <1>4 DEF IdxUsed, IdxSlots

(* Who holds the semaphore, and is not Close, finds the task in its usual  *)
(* round, if nothing has gone wrong and the file is not closed.            *)
LEMMA HolderMeansRun ==
  ASSUME Protocol, NEW p \in Producers, sem = p, Live
  PROVE  phase = "run" /\ tpc \notin {"info", "tail"} /\ ~Padded /\ ~Dropped
<1>1. cpc # "ack"
  BY DEF Protocol, Holders, Producers, Closer
<1>2. cpc \notin {"delete", "closed"}
  BY <1>1 DEF Protocol, StopOnce, Live
<1>3. phase = "run"
  BY <1>1, <1>2 DEF Protocol, ControlTypes, StopOnce, Stopped
<1>4. QED
  BY <1>3 DEF Protocol, TaskShape, Padded, Dropped

(* PutData adds an entry: there is room for it in front of IdxRI.          *)
LEMMA PutEntryStep ==
  ASSUME Protocol, IdxInv, NEW p \in Producers, sem = p, HasSpace(p), AddEntry,
         UNCHANGED <<IndexJunk, ack, taskVars>>
  PROVE  IdxInv'
<1> USE DEF IdxInv
<1>1. UNCHANGED <<IdxRI, fidx, tpc, phase, cur, lim, failed, ack, IndexJunk>>
  BY DEF taskVars
<1>2. EntryWords \in Nat /\ IdxUsed \in Nat /\ IdxUsed + EntryWords < IdxRingSize
      /\ EntryWords <= IdxRingSize
  <2>1. Space(IdxRI, IdxWI, IdxRingSize) > EntryWords
    BY DEF HasSpace
  <2>2. QED
    BY <2>1, UsedIs, IndexSizes
<1>3. /\ idx' = Filled(idx, IdxRingSize, IdxWI, EntryWords, idxAppended)
      /\ IdxWI' = Wrap(IdxWI + EntryWords, IdxRingSize)
      /\ IdxChkSize' = IdxChkSize + EntryWords /\ idxAppended' = idxAppended + EntryWords
  BY DEF AddEntry
<1>4. IdxTypes'
  <2>1. IdxChkSize' \in Nat /\ IndexJunk' \in Nat /\ fidx' \in Seq(Nat)
    BY <1>1, <1>2, <1>3 DEF IdxTypes
  <2>2. QED
    BY <1>1, <1>2, <1>3, <2>1, IdxFillTypes
<1>5. IdxUsed' = IdxUsed + EntryWords
  <2>1. IdxRI \in 0..(IdxRingSize - 1) /\ IdxWI \in 0..(IdxRingSize - 1)
    BY StartsAreSlots DEF IdxTypes, IdxSlots
  <2>2. QED
    BY <1>1, <1>2, <1>3, <2>1, IndexSizes DEF IdxUsed, Dist, Wrap
<1>6. IdxCursor'
  BY <1>1, <1>2, <1>5, IndexSizes DEF IdxCursor
<1>7. Live' = Live /\ IdxBase' = IdxBase /\ Padded' = Padded
  BY <1>1 DEF Live, IdxBase, Padded
<1>8. ASSUME Live PROVE IdxContent' /\ IdxFlushed' /\ IdxCounts'
  <2>1. phase = "run" /\ tpc \notin {"info", "tail"} /\ ~Padded /\ ~Dropped
    BY <1>8, HolderMeansRun
  <2>2. ~Dropped'
    BY <1>7, <2>1 DEF Dropped
  <2>3. PICK k \in Nat : IdxBase = k * IdxBlock
    BY <1>8 DEF IdxContent
  <2>4. IdxBase \in Nat /\ idxAppended = IdxBase + IdxUsed
    <3>1. k * IdxBlock \in Nat
      BY IndexSizes
    <3>2. QED
      BY <1>8, <2>1, <2>3, <3>1 DEF IdxContent
  <2>5. \A s \in IdxSlots : Dist(IdxRI, s, IdxRingSize) < IdxUsed =>
          idx[s] = IdxBase + Dist(IdxRI, s, IdxRingSize)
    BY <1>8 DEF IdxContent
  <2> DEFINE b == IdxBase
  <2>6. \A s \in IdxSlots : Dist(IdxRI', s, IdxRingSize) < IdxUsed' =>
          idx'[s] = b + Dist(IdxRI', s, IdxRingSize)
    <3>1. b \in Nat /\ idxAppended = b + IdxUsed
      BY <2>4
    <3>2. \A s \in IdxSlots : Dist(IdxRI, s, IdxRingSize) < IdxUsed =>
            idx[s] = b + Dist(IdxRI, s, IdxRingSize)
      BY <2>5
    <3> HIDE DEF b
    <3>3. QED
      BY <1>1, <1>2, <1>3, <3>1, <3>2, IdxFill
  <2>7. idxAppended' = IdxBase' + IdxUsed'
    BY <1>2, <1>3, <1>5, <1>7, <2>4
  <2>8. IdxContent'
    BY <1>7, <2>2, <2>3, <2>6, <2>7 DEF IdxContent
  <2>9. IdxFlushed'
    BY <1>1, <1>7, <2>1 DEF IdxFlushed
  <2>10. IdxCounts'
    BY <1>2, <1>3, <1>7, <1>8, <2>1 DEF IdxCounts, IdxTypes
  <2>11. QED
    BY <2>8, <2>9, <2>10
<1>9. IndexIsRight' /\ ErrorShape'
  BY <1>1 DEF IndexIsRight, ErrorShape
<1>10. QED
  BY <1>4, <1>6, <1>7, <1>8, <1>9 DEF IdxContent, IdxFlushed, IdxCounts

LEMMA ErrorShapeStep ==
  ASSUME StopsOnError, Protocol, ErrorShape, [Next]_vars
  PROVE  ErrorShape'
<1>1. CASE ((\E p \in Producers : Put(p)) \/ Close) \/ UNCHANGED vars
  <2>1. UNCHANGED <<tpc, failed>>
    BY <1>1 DEF Put, PutCall, PutRefused, PutNull, PutIndex, PutStream, PutNotify, PutCount,
                PutLeave, Close, CloseCall, ClosePost, CloseAck, CloseDelete, vars, taskVars
  <2>2. QED
    BY <2>1 DEF ErrorShape
<1>2. CASE SnapIndex \/ PublishIdxRI
  <2>1. failed' = failed /\ ~failed /\ phase \in {"run", "stop", "info"}
    BY <1>2 DEF SnapIndex, PublishIdxRI, ErrorShape, Protocol, TaskShape
  <2>2. tpc' # "errmode"
    BY <1>2, <2>1 DEF SnapIndex, PublishIdxRI, AfterIndex
  <2>3. QED
    BY <2>1, <2>2 DEF ErrorShape
<1>3. CASE WriteCluster \/ WriteBlock \/ PatchHeader
  BY <1>3 DEF WriteCluster, WriteBlock, PatchHeader, OnError, ErrorShape, StopsOnError
<1>4. CASE Pend \/ SnapStream \/ PublishRI \/ AddInfo \/ AddTail \/ Drain \/ PostAck
  BY <1>4 DEF Pend, SnapStream, PublishRI, AddInfo, AddTail, Drain, PostAck, ErrorShape
<1>5. QED
  BY <1>1, <1>2, <1>3, <1>4 DEF Next, Task

(* The other steps of PutData, and Close.                                  *)
LEMMA IdxCallers ==
  ASSUME Protocol, IdxInv, ErrorShape', (\E p \in Producers : Put(p)) \/ Close
  PROVE  IdxInv'
<1>1. ASSUME NEW p \in Producers, PutNull(p) \/ PutIndex(p) PROVE IdxInv'
  <2>1. sem = p /\ HasSpace(p) /\ AddEntry /\ UNCHANGED <<IndexJunk, ack, taskVars>>
    BY <1>1 DEF PutNull, PutIndex, junkVars
  <2>2. QED
    BY <2>1, PutEntryStep
<1>2. ASSUME \/ Close
             \/ \E p \in Producers : \/ PutCall(p) \/ PutRefused(p) \/ PutStream(p)
                                     \/ PutNotify(p) \/ PutCount(p) \/ PutLeave(p)
      PROVE  IdxInv'
  <2>1. UNCHANGED <<indexVars, junkVars, taskVars>> /\ (ack' => ack)
    BY <1>2 DEF Close, CloseCall, ClosePost, CloseAck, CloseDelete, PutCall, PutRefused,
                PutStream, PutNotify, PutCount, PutLeave
  <2>2. UNCHANGED <<idx, IdxWI, IdxRI, IdxChkSize, idxAppended, IndexJunk, fidx>>
    BY <2>1 DEF indexVars, junkVars, taskVars
  <2>3. UNCHANGED <<tpc, cur, lim, phase>>
    BY <2>1 DEF taskVars
  <2>4. Live' => Live
    BY <2>1 DEF taskVars, Live
  <2>5. QED
    BY <2>2, <2>3, <2>4, IdxFrame, ZenonT(30)
<1>3. QED
  BY <1>1, <1>2 DEF Put

(* The steps of the task that have to do with the stream or the queue.     *)
LEMMA IdxOthers ==
  ASSUME Protocol, IdxInv, ErrorShape',
         \/ Pend \/ SnapStream \/ WriteCluster \/ PublishRI \/ AddTail \/ PatchHeader
         \/ Drain \/ PostAck
  PROVE  IdxInv'
<1>1. UNCHANGED <<idx, IdxWI, IdxRI, IdxChkSize, idxAppended, IndexJunk, fidx>>
  BY DEF Pend, SnapStream, WriteCluster, PublishRI, AddTail, PatchHeader, Drain, PostAck,
         indexVars, junkVars
<1>2. tpc # "ipublish" /\ tpc' \notin {"iwrite", "ipublish", "info", "tail"}
  BY DEF Pend, SnapStream, WriteCluster, PublishRI, AddTail, PatchHeader, Drain, PostAck, OnError
<1>3. Padded' = Padded /\ (phase' = "tail" => phase = "tail" \/ tpc = "tail")
  BY DEF Pend, SnapStream, WriteCluster, PublishRI, AddTail, PatchHeader, Drain, PostAck,
         Protocol, TaskShape, Padded
<1>4. Live' => Live
  BY DEF Pend, SnapStream, WriteCluster, PublishRI, AddTail, PatchHeader, Drain, PostAck,
         OnError, IdxInv, ErrorShape, Live
<1>5. QED
  BY <1>1, <1>2, <1>3, <1>4, IdxFrame

(* Slots of the index ring that are block boundaries.                      *)
LEMMA BlockOf ==
  ASSUME NEW i \in IdxSlots
  PROVE  Block(i) \in IdxStarts /\ Block(i) <= i /\ (i \in IdxStarts => Block(i) = i)
BY BlockIs, IndexSizes DEF IdxSlots, IdxStarts

LEMMA SnapIndexStep ==
  ASSUME Protocol, IdxInv, ErrorShape', SnapIndex
  PROVE  IdxInv'
<1> USE DEF IdxInv
<1>1. /\ tpc = "isnap" /\ lim' = Block(IdxWI) /\ cur' = IdxRI
      /\ UNCHANGED <<idx, IdxWI, IdxRI, IdxChkSize, idxAppended, IndexJunk, fidx, phase, failed, ack>>
  BY DEF SnapIndex, Block, indexVars, junkVars
<1>2. phase \in {"run", "stop", "info"} /\ ~failed
  BY <1>1 DEF Protocol, TaskShape, ErrorShape
<1>3. /\ lim' = IdxRI => tpc' \in {"snap", "pend", "info", "tail"}
      /\ lim' = IdxRI /\ phase = "run" => tpc' \in {"snap", "pend"}
      /\ lim' = IdxRI /\ phase = "stop" => tpc' = "info"
      /\ lim' = IdxRI /\ phase = "info" => tpc' = "tail"
      /\ lim' # IdxRI => tpc' = "iwrite"
  BY <1>1, <1>2 DEF SnapIndex, AfterIndex
<1>4. /\ IdxUsed' = IdxUsed /\ IdxBase' = IdxBase /\ Padded' = Padded /\ (Dropped' <=> Dropped)
      /\ Live' /\ Live
  BY <1>1, <1>2, <1>3 DEF IdxUsed, IdxBase, Padded, Dropped, InfoFits, Live
<1>5. Block(IdxWI) \in IdxStarts /\ (IdxWI \in IdxStarts => Block(IdxWI) = IdxWI)
  BY BlockOf DEF IdxTypes
<1>6. IdxTypes' /\ IndexIsRight'
  BY <1>1 DEF IdxTypes, IndexIsRight
<1>7. ASSUME lim' # IdxRI PROVE IdxUsed >= IdxBlock
  <2>1. IdxWI \in IdxSlots /\ IdxRI \in {0, IdxBlock} /\ Block(IdxWI) # IdxRI
    BY <1>1, <1>7 DEF IdxTypes, IdxStarts
  <2>2. Block(IdxWI) = IF IdxWI < IdxBlock THEN 0 ELSE IdxBlock
    BY <2>1, BlockIs DEF IdxSlots
  <2>3. QED
    BY <2>1, <2>2, IndexSizes DEF IdxSlots, IdxUsed, Dist
<1>8. IdxCursor'
  BY <1>1, <1>3, <1>4, <1>5, <1>7 DEF IdxCursor
<1>9. IdxContent'
  BY <1>1, <1>4 DEF IdxContent
<1>10. IdxFlushed'
  <2>1. Padded => IdxWI \in IdxStarts
    BY <1>4 DEF IdxFlushed
  <2>2. phase = "info" => Block(IdxWI) = IdxWI
    BY <1>5, <2>1 DEF Padded
  <2>3. Block(IdxWI)' = Block(IdxWI)
    BY <1>1 DEF Block
  <2>4. QED
    BY <1>1, <1>2, <1>3, <1>4, <2>1, <2>2, <2>3 DEF IdxFlushed
<1>11. IdxCounts'
  BY <1>1, <1>4 DEF IdxCounts
<1>12. QED
  BY <1>6, <1>8, <1>9, <1>10, <1>11

(* A file of the words that belong there, and more of them behind it.      *)
LEMMA AppendRight ==
  ASSUME NEW f \in Seq(Nat), NEW new \in Seq(Nat), NEW g, g = f \o new,
         \A i \in 1..Len(f) : f[i] = i - 1,
         \A i \in 1..Len(new) : new[i] = Len(f) + i - 1
  PROVE  g \in Seq(Nat) /\ Len(g) = Len(f) + Len(new) /\ (\A i \in 1..Len(g) : g[i] = i - 1)
<1>1. Len(f) \in Nat /\ Len(new) \in Nat
  OBVIOUS
<1>2. /\ g \in Seq(Nat) /\ Len(g) = Len(f) + Len(new)
      /\ \A i \in 1..(Len(f) + Len(new)) : g[i] = IF i <= Len(f) THEN f[i] ELSE new[i - Len(f)]
  BY ConcatProperties
<1>3. ASSUME NEW i \in 1..Len(g) PROVE g[i] = i - 1
  <2>1. i \in 1..(Len(f) + Len(new)) /\ i \in Nat
    BY <1>1, <1>2
  <2>2. CASE i <= Len(f)
    <3>1. i \in 1..Len(f)
      BY <1>1, <2>1, <2>2
    <3>2. QED
      BY <1>2, <2>1, <2>2, <3>1
  <2>3. CASE ~(i <= Len(f))
    <3>1. i - Len(f) \in 1..Len(new)
      BY <1>1, <2>1, <2>3
    <3>2. g[i] = new[i - Len(f)] /\ new[i - Len(f)] = Len(f) + (i - Len(f)) - 1
      BY <1>2, <2>1, <2>3, <3>1
    <3>3. QED
      BY <1>1, <2>1, <3>2
  <2>4. QED
    BY <2>2, <2>3
<1>4. QED
  BY <1>2, <1>3

LEMMA IdxWriteWords ==
  ASSUME IdxInv, tpc = "iwrite", NEW n \in 0..IdxBlock,
         fidx' = fidx \o [i \in 1..n |-> idx[cur + i - 1]]
  PROVE  fidx' \in Seq(Nat) /\ Len(fidx') = Len(fidx) + n /\ IndexIsRight'
<1> DEFINE new == [i \in 1..n |-> idx[cur + i - 1]]
<1>1. /\ IdxRI \in {0, IdxBlock} /\ IdxBlock \in Nat /\ IdxRingSize = 2 * IdxBlock /\ n \in Nat
      /\ cur = IdxRI /\ IdxUsed >= IdxBlock /\ idx \in [IdxSlots -> Nat] /\ fidx \in Seq(Nat)
      /\ Len(fidx) \in Nat
  BY IndexSizes DEF IdxInv, IdxTypes, IdxCursor, IdxStarts
<1>2. Live /\ IdxBase = Len(fidx)
  BY DEF IdxInv, ErrorShape, Live, IdxBase
<1>3. ASSUME NEW i \in 1..n PROVE cur + i - 1 \in IdxSlots /\ idx[cur + i - 1] = Len(fidx) + i - 1
  <2>1. IdxRI + i - 1 \in IdxSlots /\ Dist(IdxRI, IdxRI + i - 1, IdxRingSize) = i - 1
    BY <1>1 DEF IdxSlots, Dist
  <2>2. IdxUsed \in Nat
    BY UsedIs DEF IdxInv
  <2>3. i - 1 < IdxUsed
    BY <1>1, <2>2
  <2>4. idx[IdxRI + i - 1] = IdxBase + (i - 1)
    BY <1>2, <2>1, <2>3 DEF IdxInv, IdxContent
  <2>5. QED
    BY <1>1, <1>2, <2>1, <2>4
<1>4. new \in Seq(Nat) /\ Len(new) = n
  <2>1. \A i \in 1..n : idx[cur + i - 1] \in Nat
    BY <1>1, <1>3
  <2>2. new \in [1..n -> Nat]
    BY <2>1
  <2>3. n \in Nat
    BY <1>1
  <2>4. QED
    BY <2>2, <2>3
<1>5. \A i \in 1..Len(new) : new[i] = Len(fidx) + i - 1
  BY <1>3, <1>4
<1>6. \A i \in 1..Len(fidx) : fidx[i] = i - 1
  BY DEF IdxInv, IndexIsRight
<1>7. fidx' = fidx \o new
  OBVIOUS
<1> HIDE DEF new
<1>8. /\ fidx' \in Seq(Nat) /\ Len(fidx') = Len(fidx) + Len(new)
      /\ \A i \in 1..Len(fidx') : fidx'[i] = i - 1
  <2>1. fidx \in Seq(Nat) /\ new \in Seq(Nat)
    BY <1>1, <1>4
  <2>2. QED
    BY ONLY <2>1, <1>5, <1>6, <1>7, AppendRight
<1>9. QED
  BY <1>4, <1>8 DEF IndexIsRight

LEMMA WriteBlockStep ==
  ASSUME StopsOnError, Protocol, IdxInv, ErrorShape', WriteBlock
  PROVE  IdxInv'
<1> USE DEF IdxInv
<1>1. /\ tpc = "iwrite" /\ ~failed
      /\ UNCHANGED <<idx, IdxWI, IdxRI, IdxChkSize, idxAppended, IndexJunk, phase, ack, lim>>
  BY DEF WriteBlock, indexVars, junkVars, ErrorShape
<1>2. IdxBlock \in Nat /\ IdxRingSize = 2 * IdxBlock /\ IdxRI \in {0, IdxBlock} /\ cur = IdxRI
      /\ lim \in {0, IdxBlock} /\ lim # IdxRI /\ IdxUsed >= IdxBlock
  BY <1>1, IndexSizes DEF IdxTypes, IdxCursor, IdxStarts
<1>3. IdxUsed' = IdxUsed /\ Padded' = Padded /\ (Dropped' <=> Dropped)
  BY <1>1 DEF IdxUsed, Padded, Dropped, InfoFits
<1>4. CASE /\ fidx' = fidx \o [i \in 1..IdxBlock |-> idx[cur + i - 1]]
           /\ tpc' = "ipublish" /\ failed' = failed
  <2>1. fidx' \in Seq(Nat) /\ Len(fidx') = Len(fidx) + IdxBlock /\ IndexIsRight'
    <3>1. IdxBlock \in 0..IdxBlock
      BY <1>2
    <3>2. QED
      BY <1>1, <1>4, <3>1, IdxWriteWords
  <2>2. cur' = lim
    <3>1. cur' = Wrap(cur + IdxBlock, IdxRingSize)
      BY <1>4 DEF WriteBlock
    <3>2. QED
      BY <1>2, <3>1 DEF Wrap
  <2>3. IdxBase' = IdxBase /\ Live /\ Live'
    <3>1. Len(fidx) \in Nat
      BY DEF IdxTypes
    <3>2. QED
      BY <1>1, <1>2, <1>4, <2>1, <3>1 DEF IdxBase, Live
  <2>4. IdxTypes'
    BY <1>1, <2>1 DEF IdxTypes
  <2>5. IdxCursor'
    BY <1>1, <1>2, <1>3, <1>4, <2>2 DEF IdxCursor, IdxStarts
  <2>6. IdxContent' /\ IdxCounts'
    BY <1>1, <1>3, <2>3 DEF IdxContent, IdxCounts
  <2>7. IdxFlushed'
    BY <1>1, <1>3, <1>4, <2>3 DEF IdxFlushed, Block
  <2>8. QED
    BY <2>1, <2>4, <2>5, <2>6, <2>7
<1>5. CASE /\ \E n \in 0..(IdxBlock - 1) : fidx' = fidx \o [i \in 1..n |-> idx[cur + i - 1]]
           /\ tpc' = "errmode" /\ failed' = TRUE
  <2>1. PICK n \in 0..(IdxBlock - 1) : fidx' = fidx \o [i \in 1..n |-> idx[cur + i - 1]]
    BY <1>5
  <2>2. n \in 0..IdxBlock
    BY <1>2, <2>1
  <2>3. fidx' \in Seq(Nat) /\ IndexIsRight'
    BY <1>1, <2>1, <2>2, IdxWriteWords
  <2>4. IdxTypes' /\ IdxCursor'
    BY <1>1, <1>5, <2>3 DEF IdxTypes, IdxCursor
  <2>5. IdxContent' /\ IdxFlushed' /\ IdxCounts'
    BY <1>5 DEF IdxContent, IdxFlushed, IdxCounts, Live
  <2>6. QED
    BY <2>3, <2>4, <2>5
<1>6. QED
  BY <1>4, <1>5 DEF WriteBlock, OnError, StopsOnError

LEMMA PublishIdxStep ==
  ASSUME Protocol, IdxInv, ErrorShape', PublishIdxRI
  PROVE  IdxInv'
<1> USE DEF IdxInv
<1>1. /\ tpc = "ipublish" /\ cur = lim /\ IdxRI' = lim /\ ~failed
      /\ UNCHANGED <<idx, IdxWI, IdxChkSize, idxAppended, IndexJunk, fidx, phase, failed, ack>>
  BY DEF PublishIdxRI, indexVars, junkVars, IdxCursor, ErrorShape
<1>2. phase \in {"run", "stop", "info"} /\ AfterIndex(wrote)
  BY <1>1 DEF Protocol, TaskShape, PublishIdxRI
<1>3. /\ tpc' \in {"snap", "pend", "info", "tail"}
      /\ phase = "run" => tpc' \in {"snap", "pend"}
      /\ phase = "stop" => tpc' = "info"
      /\ phase = "info" => tpc' = "tail"
  BY <1>2 DEF AfterIndex
<1>4. /\ IdxBlock \in Nat /\ IdxBlock > 0 /\ IdxRingSize = 2 * IdxBlock /\ IdxRI \in {0, IdxBlock}
      /\ lim \in {0, IdxBlock} /\ lim # IdxRI /\ IdxUsed >= IdxBlock /\ IdxWI \in IdxSlots
      /\ Len(fidx) \in Nat
  BY <1>1, IndexSizes DEF IdxTypes, IdxCursor, IdxStarts
<1>5. IdxUsed \in Nat /\ IdxUsed < IdxRingSize
  BY UsedIs
<1>6. ASSUME NEW s \in IdxSlots
      PROVE  /\ Dist(IdxRI, s, IdxRingSize) \in Nat /\ Dist(IdxRI', s, IdxRingSize) \in Nat
             /\ IF Dist(IdxRI, s, IdxRingSize) >= IdxBlock
                THEN Dist(IdxRI', s, IdxRingSize) = Dist(IdxRI, s, IdxRingSize) - IdxBlock
                ELSE Dist(IdxRI', s, IdxRingSize) = Dist(IdxRI, s, IdxRingSize) + IdxBlock
  BY <1>1, <1>4 DEF IdxSlots, Dist
<1>7. IdxUsed' = IdxUsed - IdxBlock
  BY <1>1, <1>4, <1>6 DEF IdxUsed
<1>8. Padded' = Padded /\ (Dropped' <=> Dropped) /\ Live /\ Live'
  BY <1>1, <1>3 DEF Padded, Dropped, InfoFits, Live
<1>9. PICK k \in Nat : IdxBase = k * IdxBlock
  BY <1>8 DEF IdxContent
<1>10. IdxBase' = IdxBase + IdxBlock /\ IdxBase \in Int /\ IdxBase' = (k + 1) * IdxBlock
  <2>1. IdxBase = Len(fidx) - IdxBlock /\ IdxBase' = Len(fidx)
    BY <1>1, <1>3 DEF IdxBase
  <2>2. (k + 1) * IdxBlock = k * IdxBlock + IdxBlock /\ k * IdxBlock \in Int
    BY <1>4
  <2>3. QED
    BY <1>4, <1>9, <2>1, <2>2
<1>11. IdxContent'
  <2>1. ~Dropped
    BY <1>4, <1>5, <1>8 DEF IdxContent
  <2>2. idxAppended' = IdxBase' + IdxUsed'
    <3>1. idxAppended = IdxBase + IdxUsed
      BY <1>8, <2>1 DEF IdxContent
    <3>2. QED
      BY <1>1, <1>4, <1>5, <1>7, <1>10, <3>1
  <2>3. ASSUME NEW s \in IdxSlots, Dist(IdxRI', s, IdxRingSize) < IdxUsed'
        PROVE  idx'[s] = IdxBase' + Dist(IdxRI', s, IdxRingSize)
    <3>1. Dist(IdxRI, s, IdxRingSize) >= IdxBlock
      BY <1>4, <1>5, <1>6, <1>7, <2>3
    <3>2. /\ Dist(IdxRI', s, IdxRingSize) = Dist(IdxRI, s, IdxRingSize) - IdxBlock
          /\ Dist(IdxRI, s, IdxRingSize) < IdxUsed
      BY <1>4, <1>5, <1>6, <1>7, <2>3, <3>1
    <3>3. idx[s] = IdxBase + Dist(IdxRI, s, IdxRingSize)
      BY <1>8, <3>2 DEF IdxContent
    <3>4. QED
      BY <1>1, <1>4, <1>6, <1>10, <3>2, <3>3
  <2>4. k + 1 \in Nat
    OBVIOUS
  <2>5. QED
    BY <1>8, <1>10, <2>1, <2>2, <2>3, <2>4 DEF IdxContent
<1>12. IdxFlushed'
  <2>1. Block(IdxWI)' = Block(IdxWI)
    BY <1>1 DEF Block
  <2>2. QED
    BY <1>1, <1>2, <1>3, <1>8, <2>1 DEF IdxFlushed
<1>13. IdxTypes' /\ IndexIsRight'
  BY <1>1, <1>4 DEF IdxTypes, IndexIsRight, IdxStarts
<1>14. IdxCursor' /\ IdxCounts'
  BY <1>1, <1>3, <1>8 DEF IdxCursor, IdxCounts
<1>15. QED
  BY <1>11, <1>12, <1>13, <1>14

(* The INFO list and its padding: they end on a block boundary, and they   *)
(* fill the ring up, which then counts as empty, iff they do not fit into  *)
(* the block the entries end in.                                           *)
LEMMA AddInfoFacts ==
  ASSUME Protocol, IdxInv, AddInfo
  PROVE  \E n \in Nat :
           /\ n <= IdxRingSize /\ n = InfoWords + 4 + IndexJunk' /\ IndexJunk' \in Nat
           /\ idx' = Filled(idx, IdxRingSize, IdxWI, n, idxAppended)
           /\ IdxWI' = Wrap(IdxWI + n, IdxRingSize) /\ idxAppended' = idxAppended + n
           /\ IdxWI' \in IdxStarts
           /\ IF InfoFits THEN IdxUsed + n = IdxBlock ELSE IdxWI' = IdxRI
<1> USE DEF IdxInv
<1>1. tpc = "info" /\ phase = "stop" /\ Live /\ ~Padded /\ ~Dropped
  BY DEF AddInfo, Protocol, TaskShape, ErrorShape, Live, Padded, Dropped
<1>2. /\ IdxBlock \in Nat /\ IdxBlock > 0 /\ IdxRingSize = 2 * IdxBlock /\ InfoWords \in Nat
      /\ IdxWI \in 0..(2 * IdxBlock - 1)
  BY IndexSizes DEF IdxTypes, IdxSlots
<1>3. IdxRI \in {0, IdxBlock} /\ IdxRI = IF IdxWI < IdxBlock THEN 0 ELSE IdxBlock
  BY <1>1, <1>2, BlockIs DEF IdxFlushed, IdxTypes, IdxStarts
<1> DEFINE t == (IdxWI - IdxRI) + InfoWords + 4
           junk == InfoJunk(IdxWI)
           n == 2 + InfoWords + 2 + junk
<1>4. /\ IndexJunk' = junk /\ idx' = Filled(idx, IdxRingSize, IdxWI, n, idxAppended)
      /\ IdxWI' = InfoEnd(IdxWI) /\ idxAppended' = idxAppended + n
  BY DEF AddInfo, InfoEnd, InfoJunk, InfoAfter
<1>5. /\ junk = IF t <= IdxBlock THEN IdxBlock - t ELSE 2 * IdxBlock - t
      /\ IdxWI' = IF t <= IdxBlock THEN IdxBlock - IdxRI ELSE IdxRI
      /\ t \in Nat /\ t >= 4 /\ t < 2 * IdxBlock
  <2>1. IdxWI \in 0..(IdxRingSize - 1)
    BY <1>2
  <2>2. QED
    BY <1>3, <1>4, <2>1, InfoFills
<1>6. IdxUsed = IdxWI - IdxRI /\ IdxUsed \in Nat /\ IdxUsed < IdxBlock /\ t = IdxUsed + InfoWords + 4
  BY <1>2, <1>3 DEF IdxUsed, Dist
<1> HIDE DEF t, junk
<1>7. junk \in Nat /\ n \in Nat /\ n = InfoWords + 4 + junk
  BY <1>2, <1>5
<1>8. IdxUsed + n = IF t <= IdxBlock THEN IdxBlock ELSE 2 * IdxBlock
  BY <1>2, <1>5, <1>6, <1>7
<1>9. InfoFits <=> t <= IdxBlock
  <2>1. PICK k \in Nat : IdxBase = k * IdxBlock
    BY <1>1 DEF IdxContent
  <2>2. IdxChkSize = k * IdxBlock + IdxUsed
    BY <1>1, <2>1 DEF IdxContent, IdxCounts, IdxTypes
  <2>3. IdxChkSize \in Int /\ k \in Int /\ IdxUsed \in Int /\ 0 <= IdxUsed
    BY <1>6 DEF IdxTypes
  <2>4. IdxChkSize % IdxBlock = IdxUsed
    BY <1>6, <2>2, <2>3, RemainderIs
  <2>5. QED
    BY <1>6, <2>4 DEF InfoFits
<1>10. IdxWI' = Wrap(IdxWI + n, IdxRingSize)
  <2>1. IdxWI + n = IF t <= IdxBlock THEN IdxRI + IdxBlock ELSE IdxRI + 2 * IdxBlock
    BY <1>2, <1>3, <1>6, <1>7, <1>8
  <2> HIDE DEF n
  <2>2. QED
    BY <1>2, <1>3, <1>5, <2>1 DEF Wrap
<1>11. n <= IdxRingSize /\ IdxWI' \in IdxStarts
  BY <1>2, <1>3, <1>5, <1>6, <1>7, <1>8 DEF IdxStarts
<1>12. IF InfoFits THEN IdxUsed + n = IdxBlock ELSE IdxWI' = IdxRI
  BY <1>5, <1>8, <1>9
<1> HIDE DEF n
<1>13. QED
  BY <1>4, <1>7, <1>10, <1>11, <1>12

LEMMA AddInfoStep ==
  ASSUME Protocol, IdxInv, ErrorShape', AddInfo
  PROVE  IdxInv'
<1> USE DEF IdxInv
<1>1. /\ tpc = "info" /\ phase = "stop" /\ tpc' = "isnap" /\ phase' = "info"
      /\ UNCHANGED <<IdxRI, IdxChkSize, fidx, failed, ack>> /\ ~failed
  BY DEF AddInfo, Protocol, TaskShape, ErrorShape
<1>2. PICK n \in Nat :
        /\ n <= IdxRingSize /\ n = InfoWords + 4 + IndexJunk' /\ IndexJunk' \in Nat
        /\ idx' = Filled(idx, IdxRingSize, IdxWI, n, idxAppended)
        /\ IdxWI' = Wrap(IdxWI + n, IdxRingSize) /\ idxAppended' = idxAppended + n
        /\ IdxWI' \in IdxStarts
        /\ IF InfoFits THEN IdxUsed + n = IdxBlock ELSE IdxWI' = IdxRI
  BY AddInfoFacts
<1>3. IdxTypes'
  <2>1. fidx' \in Seq(Nat) /\ IdxChkSize' \in Nat
    BY <1>1 DEF IdxTypes
  <2>2. QED
    BY <1>1, <1>2, <2>1, IdxFillTypes
<1>4. /\ Live /\ Live' /\ ~Padded /\ ~Dropped /\ Padded' /\ (Dropped' <=> ~InfoFits)
      /\ IdxBase' = IdxBase
  BY <1>1 DEF Live, Padded, Dropped, InfoFits, IdxBase
<1>5. PICK k \in Nat : IdxBase = k * IdxBlock
  BY <1>4 DEF IdxContent
<1>6. IdxBlock \in Nat /\ IdxBlock > 0 /\ IdxRingSize = 2 * IdxBlock /\ IdxBase \in Nat
      /\ idxAppended = IdxBase + IdxUsed
  <2>1. k * IdxBlock \in Nat
    BY IndexSizes
  <2>2. QED
    BY <1>4, <1>5, <2>1, IndexSizes DEF IdxContent
<1>7. ASSUME InfoFits PROVE IdxContent'
  <2>1. IdxUsed + n < IdxRingSize
    BY <1>2, <1>6, <1>7
  <2> DEFINE b == IdxBase
  <2>2. /\ IdxUsed' = IdxUsed + n
        /\ \A s \in IdxSlots : Dist(IdxRI', s, IdxRingSize) < IdxUsed' =>
             idx'[s] = b + Dist(IdxRI', s, IdxRingSize)
    <3>1. b \in Nat /\ idxAppended = b + IdxUsed
      BY <1>6
    <3>2. \A s \in IdxSlots : Dist(IdxRI, s, IdxRingSize) < IdxUsed =>
            idx[s] = b + Dist(IdxRI, s, IdxRingSize)
      BY <1>4 DEF IdxContent
    <3> HIDE DEF b
    <3>3. QED
      BY <1>1, <1>2, <2>1, <3>1, <3>2, IdxFill
  <2>3. idxAppended' = IdxBase' + IdxUsed'
    <3>1. IdxUsed \in Nat
      BY UsedIs
    <3>2. QED
      BY <1>2, <1>4, <1>6, <2>2, <3>1
  <2>4. QED
    BY <1>4, <1>5, <1>7, <2>2, <2>3 DEF IdxContent
<1>8. ASSUME ~InfoFits PROVE IdxContent'
  <2>1. IdxWI' = IdxRI' /\ IdxRI' \in Int
    BY <1>1, <1>2, <1>6, <1>8 DEF IdxTypes, IdxStarts
  <2>2. IdxUsed' = 0
    <3>1. Dist(IdxRI', IdxWI', IdxRingSize) = 0
      <4>1. \A i \in Int : Dist(i, i, IdxRingSize) = 0
        BY DEF Dist
      <4>2. QED
        BY ONLY <2>1, <4>1
    <3>2. QED
      BY <3>1 DEF IdxUsed
  <2>3. \A s \in IdxSlots : ~(Dist(IdxRI', s, IdxRingSize) < IdxUsed')
    <3>1. \A s \in IdxSlots : Dist(IdxRI', s, IdxRingSize) \in Nat
      BY <1>1, UsedIs
    <3>2. QED
      BY <2>2, <3>1
  <2>4. QED
    BY <1>4, <1>5, <1>8, <2>2, <2>3 DEF IdxContent
<1>9. IdxContent'
  BY <1>7, <1>8
<1>10. IdxCursor' /\ IdxFlushed' /\ IndexIsRight'
  BY <1>1, <1>2 DEF IdxCursor, IdxFlushed, IndexIsRight
<1>11. IdxCounts'
  <2>1. idxAppended = IdxChkSize + 0 /\ idxAppended \in Nat
    BY <1>4 DEF IdxCounts, IdxTypes
  <2>2. idxAppended' = IdxChkSize' + (InfoWords + 4 + IndexJunk')
    <3>1. IdxChkSize' = IdxChkSize /\ IdxChkSize \in Nat /\ idxAppended' = idxAppended + n
          /\ n = InfoWords + 4 + IndexJunk' /\ n \in Nat
      BY <1>1, <1>2 DEF IdxTypes
    <3>2. QED
      BY <2>1, <3>1
  <2>3. QED
    BY <1>4, <2>2 DEF IdxCounts
<1>12. QED
  BY <1>3, <1>9, <1>10, <1>11

LEMMA IndexStep ==
  ASSUME StopsOnError, Protocol, IdxInv, [Next]_vars
  PROVE  IdxInv'
<1>1. ErrorShape'
  BY ErrorShapeStep DEF IdxInv
<1>2. CASE (\E p \in Producers : Put(p)) \/ Close
  BY <1>1, <1>2, IdxCallers
<1>3. CASE Task
  BY <1>1, <1>3, IdxOthers, SnapIndexStep, WriteBlockStep, PublishIdxStep, AddInfoStep DEF Task
<1>4. CASE UNCHANGED vars
  <2>1. UNCHANGED <<idx, IdxWI, IdxRI, IdxChkSize, idxAppended, IndexJunk, fidx>>
    BY <1>4 DEF vars, indexVars, junkVars, taskVars
  <2>2. UNCHANGED <<tpc, cur, lim, phase>>
    BY <1>4 DEF vars, taskVars
  <2>3. Live' => Live
    BY <1>4 DEF vars, taskVars, Live
  <2>4. QED
    BY <1>1, <2>1, <2>2, <2>3, IdxFrame, ZenonT(30)
<1>5. QED
  BY <1>2, <1>3, <1>4 DEF Next

(* What is in the index file is the entries PutData has put into the index *)
(* ring, and then the INFO list, in order and without a gap, for all block *)
(* and entry sizes and however PutData, Close and the task interleave, as  *)
(* long as the error handler stops the task: an entry is never overwritten *)
(* before its block has been written, though the entries and the INFO list *)
(* may fill the ring to the last word (AviPackerV3_PutData,                *)
(* IndexWriteBlocks, AviPackerV3_Task).                                    *)
THEOREM IndexAlwaysRight == ASSUME StopsOnError PROVE Spec => []IndexIsRight
<1>1. Init => Protocol /\ IdxInv
  BY InitProtocol, InitIndex
<1>2. Protocol /\ IdxInv /\ [Next]_vars => Protocol' /\ IdxInv'
  BY ProtocolStep, IndexStep
<1>3. IdxInv => IndexIsRight
  BY DEF IdxInv
<1>4. QED
  BY <1>1, <1>2, <1>3, PTL DEF Spec
-----------------------------------------------------------------------------
(* The lengths in the header.  The counters grow with the words that are   *)
(* put into the rings, and nothing is put there any more once the header   *)
(* has been patched, until Close has taken the acknowledgement.            *)
StreamCount ==
  /\ MoviCnt \in Nat /\ StreamJunk \in Nat
  /\ appended = HdrWords + MoviCnt - 1 + (IF phase = "tail" THEN StreamJunk + 4 ELSE 0)

Lengths ==
  [riff |-> (4 * HdrWords - 8 - 12) + 8 + 4 * MoviCnt + 8 + 4 * StreamJunk
            + 8 + 4 * IdxChkSize + 8 + 4 * InfoWords + 8 + 4 * IndexJunk,
   movi |-> 4 * MoviCnt]

Patched == (tpc = "ack" \/ ack) /\ ~failed

HdrInv == Patched => phase = "tail" /\ hdr = Lengths

HeaderInv == StreamCount /\ HdrInv

LEMMA InitHeader == Init => HeaderInv
<1>1. HdrWords \in Nat
  BY PackerAssumption
<1>2. QED
  BY <1>1 DEF Init, HeaderInv, StreamCount, HdrInv, Patched

(* Nobody who holds the semaphore in PutData finds the header patched.     *)
LEMMA PatchedLocks ==
  ASSUME Protocol, Patched, NEW p \in Producers
  PROVE  cpc = "ack" /\ sem = Closer /\ sem # p /\ ppc[p] # "data"
<1>1. cpc = "ack"
  BY DEF Patched, Protocol, ControlTypes, StopOnce, Stopped
<1>2. QED
  BY <1>1 DEF Protocol, Holders, Producers, Closer

LEMMA CallersHeader ==
  ASSUME AlignedSizes, Protocol, StreamInv, HeaderInv, (\E p \in Producers : Put(p)) \/ Close
  PROVE  HeaderInv'
<1> USE DEF HeaderInv
<1>1. UNCHANGED <<tpc, phase, failed, hdr, StreamJunk, IndexJunk>> /\ (ack' => ack)
  BY DEF Put, PutCall, PutRefused, PutNull, PutIndex, PutStream, PutNotify, PutCount, PutLeave,
         Close, CloseCall, ClosePost, CloseAck, CloseDelete, taskVars, junkVars
<1>2. Patched' => Patched
  BY <1>1 DEF Patched
<1>3. Patched => UNCHANGED <<MoviCnt, IdxChkSize>>
  BY PatchedLocks DEF Put, PutCall, PutRefused, PutNull, PutIndex, PutStream, PutNotify,
     PutCount, PutLeave, Close, CloseCall, ClosePost, CloseAck, CloseDelete, streamVars, indexVars
<1>4. HdrInv'
  BY <1>1, <1>2, <1>3 DEF HdrInv, Lengths
<1>5. StreamCount'
  <2>1. CASE \E p \in Producers : PutStream(p)
    <3>1. PICK p \in Producers : PutStream(p)
      BY <2>1
    <3>2. chunk[p] \in Sizes(p)
      BY <3>1 DEF PutStream, StreamInv, StreamTypes
    <3>3. ChunkWords(chunk[p]) \in Nat
      BY <3>2, ChunkFills
    <3>4. MoviCnt' = MoviCnt + ChunkWords(chunk[p]) /\ appended' = appended + ChunkWords(chunk[p])
      BY <3>1 DEF PutStream
    <3> DEFINE n == ChunkWords(chunk[p])
    <3>5. n \in Nat /\ MoviCnt' = MoviCnt + n /\ appended' = appended + n
      BY <3>3, <3>4
    <3> HIDE DEF n
    <3>6. QED
      BY <1>1, <3>5, PackerAssumption DEF StreamCount
  <2>2. CASE ~\E p \in Producers : PutStream(p)
    <3>1. UNCHANGED <<MoviCnt, appended>>
      BY <2>2 DEF Put, PutCall, PutRefused, PutNull, PutIndex, PutNotify, PutCount, PutLeave,
                  Close, CloseCall, ClosePost, CloseAck, CloseDelete, streamVars
    <3>2. QED
      BY <1>1, <3>1 DEF StreamCount
  <2>3. QED
    BY <2>1, <2>2
<1>6. QED
  BY <1>4, <1>5

LEMMA TaskHeader ==
  ASSUME Protocol, StreamInv, IdxInv, IdxTypes', HeaderInv, Task
  PROVE  HeaderInv'
<1> USE DEF HeaderInv
<1>1. CASE AddTail
  <2> DEFINE junk == (Cluster - WI - 4) % Cluster
  <2>1. /\ StreamJunk' = junk /\ appended' = appended + (junk + 4) /\ MoviCnt' = MoviCnt
        /\ phase = "info" /\ phase' = "tail" /\ tpc' = "snap" /\ ack' = ack /\ tpc = "tail"
    BY <1>1 DEF AddTail, Protocol, TaskShape
  <2>2. junk \in Nat
    <3>1. WI \in Nat
      BY RingIsWhole DEF StreamInv, StreamTypes, Slots
    <3>2. QED
      BY <3>1, TailFills
  <2> HIDE DEF junk
  <2>3. StreamCount'
    BY <2>1, <2>2, PackerAssumption DEF StreamCount
  <2>4. ~Patched'
    BY <2>1 DEF Patched, Protocol, StopOnce
  <2>5. QED
    BY <2>3, <2>4 DEF HdrInv
<1>2. CASE PatchHeader
  <2>1. tpc = "header" /\ phase = "tail" /\ ~ack
        /\ UNCHANGED <<phase, MoviCnt, StreamJunk, appended, IdxChkSize, IndexJunk, ack>>
    BY <1>2 DEF PatchHeader, Protocol, TaskShape, StopOnce, streamVars, junkVars, indexVars
  <2>2. StreamCount'
    BY <2>1 DEF StreamCount
  <2>3. Patched' => hdr' = Lengths
    BY <1>2 DEF PatchHeader, OnError, Patched, Lengths
  <2>4. Lengths' = Lengths
    BY <2>1 DEF Lengths
  <2>5. QED
    BY <2>1, <2>2, <2>3, <2>4 DEF HdrInv
<1>3. CASE PostAck \/ Drain
  <2>1. UNCHANGED <<phase, MoviCnt, StreamJunk, appended, IdxChkSize, IndexJunk, hdr, failed>>
    BY <1>3 DEF PostAck, Drain, streamVars, junkVars, indexVars
  <2>2. Patched' => Patched
    BY <1>3 DEF PostAck, Drain, Patched, StreamInv, ErrorShape
  <2>3. QED
    BY <2>1, <2>2 DEF HdrInv, Lengths, StreamCount
<1>4. CASE \/ Pend \/ SnapStream \/ WriteCluster \/ PublishRI \/ SnapIndex \/ WriteBlock
           \/ PublishIdxRI \/ AddInfo
  <2>1. UNCHANGED <<MoviCnt, StreamJunk, appended, ack>> /\ tpc \notin {"ack", "dead"}
    BY <1>4 DEF Pend, SnapStream, WriteCluster, PublishRI, SnapIndex, WriteBlock, PublishIdxRI,
                AddInfo, streamVars, junkVars
  <2>2. phase' = "tail" <=> phase = "tail"
    BY <1>4 DEF Pend, SnapStream, WriteCluster, PublishRI, SnapIndex, WriteBlock, PublishIdxRI,
                AddInfo, Protocol, TaskShape
  <2>3. tpc' = "ack" => failed'
    <3>1. tpc' # "ack"
      BY <1>4 DEF Pend, SnapStream, WriteCluster, PublishRI, SnapIndex, WriteBlock,
                  PublishIdxRI, AddInfo, AfterIndex, OnError, Protocol, TaskShape
    <3>2. QED
      BY <3>1
  <2>4. ~Patched'
    BY <2>1, <2>3 DEF Patched, Protocol, StopOnce
  <2>5. QED
    BY <2>1, <2>2, <2>4 DEF HdrInv, StreamCount
<1>5. QED
  BY <1>1, <1>2, <1>3, <1>4 DEF Task

LEMMA HeaderAgrees ==
  ASSUME Protocol, StreamInv, IdxInv, HeaderInv
  PROVE  HeaderMatchesFile
<1> SUFFICES ASSUME ack, ~failed, InfoFits
             PROVE  /\ hdr.riff + 8 = 4 * (Len(file) + Len(fidx))
                    /\ hdr.movi + 4 * (HdrWords - 1) + 4 * (4 + StreamJunk) = 4 * Len(file)
  BY DEF HeaderMatchesFile
<1>1. tpc = "dead" /\ phase = "tail" /\ hdr = Lengths /\ Live /\ Padded /\ ~Dropped
  BY DEF Protocol, StopOnce, HeaderInv, HdrInv, Patched, Live, Padded, Dropped
<1>2. Len(file) = appended /\ appended = HdrWords + MoviCnt - 1 + StreamJunk + 4
  <2>1. RI = WI /\ RI \in Slots
    BY DEF StreamInv, StreamTypes, Flushed
  <2>2. Used = 0
    BY <2>1, RingIsWhole DEF Used, Dist, Slots
  <2>3. Base = Len(file) /\ Base \in Nat /\ appended = Base + Used
    BY <1>1 DEF StreamInv, Content, Base
  <2>4. Len(file) = appended
    BY <2>2, <2>3
  <2>5. QED
    BY <1>1, <2>4, PackerAssumption DEF HeaderInv, StreamCount
<1>3. Len(fidx) = IdxChkSize + (InfoWords + 4 + IndexJunk)
  <2>1. IdxRI = IdxWI /\ IdxRI \in Int
    BY <1>1, IndexSizes DEF IdxInv, IdxFlushed, IdxTypes, IdxStarts
  <2>2. IdxUsed = 0
    BY <2>1 DEF IdxUsed, Dist
  <2>3. idxAppended = Len(fidx) + 0 /\ Len(fidx) \in Nat
    BY <1>1, <2>2 DEF IdxInv, IdxContent, IdxTypes, IdxBase
  <2>4. idxAppended = IdxChkSize + (InfoWords + 4 + IndexJunk)
    BY <1>1 DEF IdxInv, IdxCounts
  <2>5. QED
    BY <2>3, <2>4
<1>4. /\ HdrWords \in Nat /\ MoviCnt \in Nat /\ StreamJunk \in Nat /\ IdxChkSize \in Nat
      /\ InfoWords \in Nat /\ IndexJunk \in Nat
  BY PackerAssumption DEF HeaderInv, StreamCount, IdxInv, IdxTypes
<1>5. /\ hdr.riff = (4 * HdrWords - 8 - 12) + 8 + 4 * MoviCnt + 8 + 4 * StreamJunk
                    + 8 + 4 * IdxChkSize + 8 + 4 * InfoWords + 8 + 4 * IndexJunk
      /\ hdr.movi = 4 * MoviCnt
  BY <1>1 DEF Lengths
<1>6. QED
  BY <1>2, <1>3, <1>4, <1>5

PackerInv == Protocol /\ StreamInv /\ IdxInv /\ HeaderInv

(* All of the packer's invariants together.                                *)
LEMMA PackerInvariant == ASSUME SafeSetting PROVE Spec => []PackerInv
<1> USE DEF PackerInv
<1>1. Init => PackerInv
  BY InitProtocol, InitStream, InitIndex, InitHeader
<1>2. PackerInv /\ [Next]_vars => PackerInv'
  <2>1. SUFFICES ASSUME PackerInv, [Next]_vars PROVE PackerInv'
    OBVIOUS
  <2>2. StopsOnError /\ AlignedSizes
    BY DEF SafeSetting, StopsOnError
  <2>3. Protocol' /\ StreamInv' /\ IdxInv'
    BY <2>1, <2>2, ProtocolStep, StreamStep, IndexStep
  <2>4. HeaderInv'
    <3>1. CASE UNCHANGED vars
      BY <2>1, <3>1 DEF vars, streamVars, junkVars, indexVars, taskVars, HeaderInv, StreamCount,
                        HdrInv, Lengths, Patched
    <3>2. QED
      BY <2>1, <2>2, <2>3, <3>1, CallersHeader, TaskHeader DEF Next, IdxInv
  <2>5. QED
    BY <2>3, <2>4
<1>3. QED
  BY <1>1, <1>2, PTL DEF Spec

(* When Close gets a good acknowledgement, the RIFF and movi lengths that  *)
(* the task has patched into the header are those of the stream file with  *)
(* the index file behind it, for all sizes of rings, blocks and entries,   *)
(* as long as the INFO list fits into the last index block                 *)
(* (AviPackerV3_Task adds them up from the counters of PutData).           *)
THEOREM HeaderAlwaysMatches == ASSUME SafeSetting PROVE Spec => []HeaderMatchesFile
<1>1. PackerInv => HeaderMatchesFile
  BY HeaderAgrees DEF PackerInv
<1>2. QED
  BY <1>1, PackerInvariant, PTL
-----------------------------------------------------------------------------
(* The types.                                                              *)

(* What the other invariants do not say of the remaining variables.        *)
OtherTypes ==
  /\ lastIdx \in BOOLEAN /\ wrote \in BOOLEAN /\ puts \in 0..MaxPuts
  /\ StreamJunk \in 0..(Cluster - 1) /\ IndexJunk \in 0..(IdxBlock - 1)
  /\ cur \in Nat /\ lim \in Nat
  /\ hdr \in [riff : Int, movi : Nat]

LEMMA WrapIsNat ==
  ASSUME NEW i \in Nat, NEW size \in Nat
  PROVE  Wrap(i, size) \in Nat
BY DEF Wrap

LEMMA Sizing ==
  /\ Cluster \in Nat \ {0} /\ IdxBlock \in Nat \ {0} /\ RingSize \in Nat /\ IdxRingSize \in Nat
  /\ InfoWords \in Nat /\ HdrWords \in Nat /\ MaxPuts \in Nat
BY PackerAssumption DEF RingSize, IdxRingSize

LEMMA OtherCallers ==
  ASSUME OtherTypes, StreamTypes, (\E p \in Producers : Put(p)) \/ Close
  PROVE  OtherTypes'
<1>1. UNCHANGED <<wrote, StreamJunk, IndexJunk, cur, lim, hdr>>
  BY DEF Put, PutCall, PutRefused, PutNull, PutIndex, PutStream, PutNotify, PutCount, PutLeave, Close,
         CloseCall, ClosePost, CloseAck, CloseDelete, junkVars, taskVars
<1>2. lastIdx' \in BOOLEAN
  BY DEF OtherTypes, Put, PutCall, PutRefused, PutNull, PutIndex, PutStream, PutNotify, PutCount,
         PutLeave, Close, CloseCall, ClosePost, CloseAck, CloseDelete, indexVars
<1>3. puts' \in 0..MaxPuts
  <2>1. UNCHANGED puts \/ (puts < MaxPuts /\ puts' = puts + 1)
    BY DEF Put, PutCall, PutRefused, PutNull, PutIndex, PutStream, PutNotify, PutCount, PutLeave,
           Close, CloseCall, ClosePost, CloseAck, CloseDelete, putVars
  <2>2. QED
    BY <2>1, Sizing DEF OtherTypes
<1>4. QED
  BY <1>1, <1>2, <1>3 DEF OtherTypes

LEMMA OtherTask ==
  ASSUME OtherTypes, StreamTypes, IdxTypes, StreamCount, Task
  PROVE  OtherTypes'
<1>1. UNCHANGED <<puts, lastIdx>>
  BY DEF Task, Pend, SnapStream, WriteCluster, PublishRI, SnapIndex, WriteBlock, PublishIdxRI, AddInfo,
         AddTail, PatchHeader, Drain, PostAck, callerVars, putVars, indexVars
<1>2. wrote' \in BOOLEAN
  BY DEF OtherTypes, Task, Pend, SnapStream, WriteCluster, PublishRI, SnapIndex, WriteBlock,
         PublishIdxRI, AddInfo, AddTail, PatchHeader, Drain, PostAck
<1>3. cur' \in Nat
  <2>1. \/ UNCHANGED cur \/ cur' = RI \/ cur' = IdxRI
        \/ cur' = Wrap(cur + Cluster, RingSize) \/ cur' = Wrap(cur + IdxBlock, IdxRingSize)
    BY DEF Task, Pend, SnapStream, WriteCluster, PublishRI, SnapIndex, WriteBlock, PublishIdxRI,
           AddInfo, AddTail, PatchHeader, Drain, PostAck
  <2>2. RI \in Nat /\ IdxRI \in Nat
    BY Sizing, StartsAreSlots DEF StreamTypes, IdxTypes, Slots, IdxSlots
  <2>3. cur + Cluster \in Nat /\ cur + IdxBlock \in Nat
    BY Sizing DEF OtherTypes
  <2>4. QED
    BY <2>1, <2>2, <2>3, Sizing, WrapIsNat DEF OtherTypes
<1>4. lim' \in Nat
  <2>1. UNCHANGED lim \/ lim' = (WI \div Cluster) * Cluster \/ lim' = (IdxWI \div IdxBlock) * IdxBlock
    BY DEF Task, Pend, SnapStream, WriteCluster, PublishRI, SnapIndex, WriteBlock, PublishIdxRI,
           AddInfo, AddTail, PatchHeader, Drain, PostAck
  <2>2. WI \in Nat /\ IdxWI \in Nat
    BY Sizing DEF StreamTypes, IdxTypes, Slots, IdxSlots
  <2>3. (WI \div Cluster) * Cluster \in Nat /\ (IdxWI \div IdxBlock) * IdxBlock \in Nat
    <3>1. WI \div Cluster \in Nat /\ IdxWI \div IdxBlock \in Nat
      BY <2>2, Sizing
    <3>2. QED
      BY <3>1, Sizing
  <2>4. QED
    BY <2>1, <2>3 DEF OtherTypes
<1>5. StreamJunk' \in 0..(Cluster - 1)
  <2>1. UNCHANGED StreamJunk \/ StreamJunk' = (Cluster - WI - 4) % Cluster
    BY DEF Task, Pend, SnapStream, WriteCluster, PublishRI, SnapIndex, WriteBlock, PublishIdxRI,
           AddInfo, AddTail, PatchHeader, Drain, PostAck, junkVars
  <2>2. Cluster - WI - 4 \in Int
    BY Sizing DEF StreamTypes, Slots
  <2>3. QED
    BY <2>1, <2>2, Sizing DEF OtherTypes
<1>6. IndexJunk' \in 0..(IdxBlock - 1)
  <2> DEFINE after == Wrap(IdxWI + 2 + InfoWords, IdxRingSize)
  <2>1. UNCHANGED IndexJunk \/ IndexJunk' = (IdxBlock - after - 2) % IdxBlock
    BY DEF Task, Pend, SnapStream, WriteCluster, PublishRI, SnapIndex, WriteBlock, PublishIdxRI,
           AddInfo, AddTail, PatchHeader, Drain, PostAck, junkVars
  <2>2. after \in Nat
    <3>1. IdxWI + 2 + InfoWords \in Nat
      BY Sizing DEF IdxTypes, IdxSlots
    <3>2. QED
      BY <3>1, Sizing, WrapIsNat
  <2> HIDE DEF after
  <2>3. QED
    BY <2>1, <2>2, Sizing DEF OtherTypes
<1>7. hdr' \in [riff : Int, movi : Nat]
  <2>1. UNCHANGED hdr \/ hdr' = Lengths
    BY DEF Task, Pend, SnapStream, WriteCluster, PublishRI, SnapIndex, WriteBlock, PublishIdxRI,
           AddInfo, AddTail, PatchHeader, Drain, PostAck, Lengths
  <2>2. /\ 4 * MoviCnt \in Nat
        /\ (4 * HdrWords - 8 - 12) + 8 + 4 * MoviCnt + 8 + 4 * StreamJunk
             + 8 + 4 * IdxChkSize + 8 + 4 * InfoWords + 8 + 4 * IndexJunk \in Int
    BY Sizing DEF StreamCount, IdxTypes
  <2>3. QED
    BY <2>1, <2>2 DEF OtherTypes, Lengths
<1>8. QED
  BY <1>1, <1>2, <1>3, <1>4, <1>5, <1>6, <1>7 DEF OtherTypes

(* Every variable keeps its type, for all sizes of the safe setting: the   *)
(* indices stay in their rings, the counters of messages are shorts, and   *)
(* padding is less than a cluster or a block (AviPackerV3_Task).           *)
THEOREM TypesAlwaysRight == ASSUME SafeSetting PROVE Spec => []TypeOK
<1>1. Init => OtherTypes
  <2>1. 0 \in 0..MaxPuts /\ 0 \in 0..(Cluster - 1) /\ 0 \in 0..(IdxBlock - 1)
    BY Sizing
  <2>2. [riff |-> 0, movi |-> 0] \in [riff : Int, movi : Nat]
    OBVIOUS
  <2>3. QED
    BY <2>1, <2>2 DEF Init, OtherTypes
<1>2. PackerInv /\ OtherTypes /\ [Next]_vars => OtherTypes'
  <2>1. SUFFICES ASSUME PackerInv, OtherTypes, [Next]_vars PROVE OtherTypes'
    OBVIOUS
  <2>2. StreamTypes /\ IdxTypes /\ StreamCount
    BY <2>1 DEF PackerInv, StreamInv, IdxInv, HeaderInv
  <2>3. CASE UNCHANGED vars
    BY <2>1, <2>3 DEF OtherTypes, vars, indexVars, junkVars, putVars, taskVars
  <2>4. QED
    BY <2>1, <2>2, <2>3, OtherCallers, OtherTask DEF Next
<1>3. PackerInv /\ OtherTypes /\ Wakeups => TypeOK
  <2>1. SUFFICES ASSUME PackerInv, OtherTypes, Wakeups PROVE TypeOK
    OBVIOUS
  <2>2. /\ WI \in 0..(RingSize - 1) /\ RI \in 0..(RingSize - 1) /\ ring \in [0..(RingSize - 1) -> Nat]
        /\ appended \in Nat /\ file \in Seq(Nat) /\ chunk \in [Producers -> Nat]
    BY <2>1 DEF PackerInv, StreamInv, StreamTypes, Slots
  <2>3. /\ IdxWI \in 0..(IdxRingSize - 1) /\ IdxRI \in 0..(IdxRingSize - 1)
        /\ idx \in [0..(IdxRingSize - 1) -> Nat] /\ idxAppended \in Nat /\ IdxChkSize \in Nat
        /\ fidx \in Seq(Nat)
    BY <2>1, StartsAreSlots DEF PackerInv, IdxInv, IdxTypes, IdxSlots
  <2>4. MoviCnt \in Nat
    BY <2>1 DEF PackerInv, HeaderInv, StreamCount
  <2>5. /\ msgq \in Seq({"WRITE", "STOP"}) /\ open \in BOOLEAN /\ ack \in BOOLEAN /\ failed \in BOOLEAN
        /\ sem \in Producers \cup {Closer, Nobody} /\ waiters \subseteq Producers \cup {Closer}
        /\ ppc \in [Producers -> {"idle", "check", "data", "notify", "count", "leave"}]
        /\ cpc \in {"idle", "post", "ack", "delete", "closed", "failed"}
    BY <2>1 DEF PackerInv, Protocol, ControlTypes
  <2>6. /\ tpc \in {"pend", "snap", "write", "publish", "isnap", "iwrite", "ipublish",
                    "info", "tail", "header", "errmode", "ack", "dead"}
        /\ phase \in {"run", "stop", "info", "tail"}
    BY <2>1 DEF PackerInv, Protocol, TaskShape
  <2>7. MsgTx \in 0..(ShortMod - 1) /\ MsgRx \in 0..(ShortMod - 1)
    BY <2>1 DEF Wakeups, Counters
  <2>8. QED
    BY <2>1, <2>2, <2>3, <2>4, <2>5, <2>6, <2>7 DEF OtherTypes, TypeOK
<1>4. QED
  BY <1>1, <1>2, <1>3, PackerInvariant, WakeupsInvariant, PTL DEF Spec
=============================================================================
