-------------------------------- MODULE Dma --------------------------------
(***************************************************************************)
(* The DMA driver (driver_l1/common/src/drv_l1_dma.c): four channels and    *)
(* four completion queues, handed out to any task that asks and taken back  *)
(* by the interrupt handler, and what its callers do with them:             *)
(*                                                                          *)
(*   "wait"  dma_transfer_wait_ready: pends on a queue of the driver        *)
(*   "fill"  dma_memory_fill, dma_buffer_copy: the same, with a time-out    *)
(*   "poll"  mem_transfer_dma: polls a variable on its stack                *)
(*   "spi"   spi_transceive_dma: two transfers, polls two variables         *)
(*   "dbuf"  the audio task: a double-buffered transfer that it ends        *)
(*                                                                          *)
(* The kernel preempts a task between any two of its instructions; a task   *)
(* that has been preempted is in the state it was left in, so the steps of  *)
(* different tasks are interleaved freely.  dma_get_channel and the         *)
(* protected dma_free_channel run with the scheduler and the interrupt      *)
(* locked and are one step each.  Addresses, widths and counts, which the   *)
(* driver only copies to registers, are left out.                           *)
(***************************************************************************)
EXTENDS Naturals, FiniteSets

CONSTANTS
    Tasks,      \* the tasks that use the driver
    Does,       \* Does[t]: the calls task t makes
    NCh,        \* C_DMA_CHANNEL_NUM
    NQ,         \* C_DMA_Q_NUM
    None,       \* no task, no queue, no variable
    Others,     \* the sets of channels that other drivers may hold for good
    May         \* what may happen

Ops == {"wait", "fill", "poll", "spi", "dbuf"}

ASSUME TasksAssumption == Does \in [Tasks -> SUBSET Ops]
ASSUME NoneAssumption == None \notin Tasks /\ None \notin Nat /\ None \notin Tasks \X {1, 2}
ASSUME SizeAssumption == NCh \in Nat \ {0} /\ NQ \in Nat \ {0}

Channels == 0 .. NCh-1
Queues   == 0 .. NQ-1

(* "stall": a transfer of dma_memory_fill may never end; "slow": it may end after the
   time-out; "high": some targets are above 0xF8000000. *)
ASSUME MayAssumption == May \subseteq {"stall", "slow", "high"} /\ Others \subseteq SUBSET Channels

VARIABLES
    target,     \* target_addr is above 0xF8000000
    usage,      \* dma_usage: "free", "normal" or "occupied"
    notify,     \* dma_notify_variable: the variable <<task, number>>, or None
    notifyQ,    \* dma_notify_queue: a queue of the driver, or None; the audio task's own is left out
    qUsed,      \* dma_q_usage
    qMsg,       \* the message in a queue of the driver: whose transfer has ended, or None
    hw,         \* the task whose transfer a channel carries out, or None
    stalled,    \* the channels whose transfer never ends
    pending,    \* the channels whose bit in R_DMA_INT is set
    pc, op,     \* where a task is, in which call
    high,       \* the target of the call is above 0xF8000000
    ch, q,      \* the channel and the queue a task was given
    left,       \* the variables of the call that still read C_DMA_STATUS_WAITING
    others      \* the channels that other drivers hold, in this behaviour

driverVars == <<target, usage, notify, notifyQ, qUsed, qMsg>>
hwVars     == <<hw, stalled, pending>>
taskVars   == <<pc, op, high, ch, q, left>>
vars == <<driverVars, hwVars, taskVars, others>>

(* dma_init; then other drivers may take channels for a double buffer. *)
Init ==
    /\ target = FALSE
    /\ others \in Others
    /\ usage = [c \in Channels |-> IF c \in others THEN "occupied" ELSE "free"]
    /\ notify = [c \in Channels |-> None] /\ notifyQ = [c \in Channels |-> None]
    /\ qUsed = [i \in Queues |-> FALSE] /\ qMsg = [i \in Queues |-> None]
    /\ hw = [c \in Channels |-> None] /\ pending = {} /\ stalled = {}
    /\ pc = [t \in Tasks |-> "idle"] /\ op = [t \in Tasks |-> None]
    /\ high = [t \in Tasks |-> FALSE]
    /\ ch = [t \in Tasks |-> NCh] /\ q = [t \in Tasks |-> NQ]
    /\ left = [t \in Tasks |-> {}]

-----------------------------------------------------------------------------
(* Getting a queue and a channel *)

At(t, p) == pc[t] = p
Go(t, p) == pc' = [pc EXCEPT ![t] = p]

(* The call ends: what it was given is forgotten. *)
Return(t) ==
    /\ Go(t, "idle") /\ op' = [op EXCEPT ![t] = None] /\ high' = [high EXCEPT ![t] = FALSE]
    /\ ch' = [ch EXCEPT ![t] = NCh] /\ q' = [q EXCEPT ![t] = NQ]
    /\ left' = [left EXCEPT ![t] = {}]

(* A call begins; dma_memory_fill does not say where it writes to. *)
Call(t, o) ==
    /\ At(t, "idle")
    /\ op' = [op EXCEPT ![t] = o]
    /\ high' \in {high} \union
         (IF "high" \in May /\ o \in {"wait", "poll"} THEN {[high EXCEPT ![t] = TRUE]} ELSE {})
    /\ left' = [left EXCEPT ![t] = IF o = "dbuf" THEN {} ELSE {1}]
    /\ Go(t, IF o \in {"wait", "fill"} THEN "queue" ELSE "target")
    /\ UNCHANGED <<driverVars, hwVars, ch, q>>

First(S) == CHOOSE i \in S : \A j \in S : i <= j
Last(S)  == CHOOSE i \in S : \A j \in S : i >= j

(* dma_get_queue, under the scheduler lock; then OSQFlush without it *)
GetQueueUnmarked(t) ==   \* mutant: the queue stays free for others
    /\ At(t, "queue")
    /\ q' = [q EXCEPT ![t] = First(Queues)] /\ Go(t, "flush")
    /\ UNCHANGED <<driverVars, hwVars, op, high, ch, left>>
GetQueue(t) ==
    /\ At(t, "queue")
    /\ LET unused == {i \in Queues : ~qUsed[i]} IN
       \/ /\ unused # {}
          /\ q' = [q EXCEPT ![t] = First(unused)] /\ qUsed' = [qUsed EXCEPT ![First(unused)] = TRUE]
          /\ Go(t, "flush") /\ UNCHANGED <<op, high, ch, left>>
       \/ unused = {} /\ Return(t) /\ UNCHANGED qUsed
    /\ UNCHANGED <<target, usage, notify, notifyQ, qMsg, hwVars>>

FlushQueue(t) ==
    /\ At(t, "flush")
    /\ qMsg' = [qMsg EXCEPT ![q[t]] = None]
    /\ Go(t, IF op[t] = "fill" THEN "channel" ELSE "target")
    /\ UNCHANGED <<target, usage, notify, notifyQ, qUsed, hwVars, op, high, ch, q, left>>

(* dma_transfer_extend tells dma_get_channel the target in a global. *)
SetTarget(t) ==
    /\ At(t, "target")
    /\ target' = high[t] /\ Go(t, "channel")
    /\ UNCHANGED <<usage, notify, notifyQ, qUsed, qMsg, hwVars, op, high, ch, q, left>>

(* dma_get_channel: the lowest free channel, or, for a high target, the highest one
   but channel 0; the loop that finds none of those ends with 0. *)
FreeChannels == {c \in Channels : usage[c] = "free"}
Pick ==
    LET above0 == FreeChannels \ {0}
    IN IF target THEN (IF above0 = {} THEN 0 ELSE Last(above0))
                 ELSE (IF FreeChannels = {} THEN NCh ELSE First(FreeChannels))
Usage(o) == IF o = "dbuf" THEN "occupied" ELSE "normal"

GetChannelUnlocked(t) ==   \* mutant: the channel is marked as used only when it starts
    /\ At(t, "channel")
    /\ ch' = [ch EXCEPT ![t] = Pick]
    /\ Go(t, IF op[t] # "fill" THEN "clear" ELSE IF Pick = NCh THEN "clear" ELSE "notify")
    /\ UNCHANGED <<driverVars, hwVars, op, high, q, left>>
GetChannel(t) ==
    /\ At(t, "channel")
    /\ ch' = [ch EXCEPT ![t] = Pick]
    /\ IF Pick \in FreeChannels \ (IF target THEN {0} ELSE {})
       THEN usage' = [usage EXCEPT ![Pick] = Usage(op[t])] /\ hw' = [hw EXCEPT ![Pick] = None]
       ELSE UNCHANGED <<usage, hw>>
    /\ Go(t, IF op[t] = "fill" /\ Pick # NCh THEN "notify" ELSE "clear")
    /\ UNCHANGED <<target, notify, notifyQ, qUsed, qMsg, stalled, pending, op, high, q, left>>

FreeQueue(t) == qUsed' = IF q[t] \in Queues THEN [qUsed EXCEPT ![q[t]] = FALSE] ELSE qUsed

(* No channel: the queue is given back; mem_transfer_dma does not come back, and
   spi_transceive_dma returns although its first transfer may be under way. *)
RefusedKeepsQueue(t) ==   \* mutant: the queue is not given back
    /\ At(t, "clear") /\ ch[t] = NCh
    /\ Return(t)
    /\ UNCHANGED <<driverVars, hwVars>>
Refused(t) ==
    /\ At(t, "clear") /\ ch[t] = NCh
    /\ target' = IF op[t] = "fill" THEN target ELSE FALSE
    /\ IF op[t] = "poll" THEN Go(t, "hung") /\ UNCHANGED <<op, high, ch, q, left, qUsed>>
                         ELSE Return(t) /\ FreeQueue(t)
    /\ UNCHANGED <<usage, notify, notifyQ, qMsg, hwVars>>

ClearTarget(t) ==
    /\ At(t, "clear") /\ ch[t] # NCh
    /\ target' = FALSE /\ Go(t, "notify")
    /\ UNCHANGED <<usage, notify, notifyQ, qUsed, qMsg, hwVars, op, high, ch, q, left>>

(* dma_set_notify; the second transfer of spi_transceive_dma is the one after which
   both variables read C_DMA_STATUS_WAITING. *)
Variable(t) == IF op[t] = "dbuf" THEN None ELSE <<t, IF 2 \in left[t] THEN 2 ELSE 1>>
SetNotify(t) ==
    /\ At(t, "notify")
    /\ notify' = [notify EXCEPT ![ch[t]] = Variable(t)]
    /\ notifyQ' = [notifyQ EXCEPT ![ch[t]] = IF q[t] \in Queues THEN q[t] ELSE None]
    /\ Go(t, "start")
    /\ UNCHANGED <<target, usage, qUsed, qMsg, hwVars, op, high, ch, q, left>>

(* dma_set_control with the enable bit; what the channel was doing is lost. *)
Start(t) ==
    /\ At(t, "start")
    /\ hw' = [hw EXCEPT ![ch[t]] = t]
    /\ \/ stalled' = stalled \ {ch[t]}
       \/ "stall" \in May /\ op[t] = "fill" /\ stalled' = stalled \union {ch[t]}
    /\ \/ op[t] \in {"wait", "fill"} /\ Go(t, "pend") /\ UNCHANGED left
       \/ op[t] = "poll" /\ Go(t, "poll") /\ UNCHANGED left
       \/ op[t] = "dbuf" /\ Go(t, "run") /\ UNCHANGED left
       \/ op[t] = "spi" /\ Variable(t)[2] = 1 /\ Go(t, "target")
          /\ left' = [left EXCEPT ![t] = @ \union {2}]
       \/ op[t] = "spi" /\ Variable(t)[2] = 2 /\ Go(t, "poll") /\ UNCHANGED left
    /\ UNCHANGED <<driverVars, pending, op, high, ch, q>>

-----------------------------------------------------------------------------
(* The channels and the interrupt *)

(* A transfer ends; a double-buffered one goes on with its other buffer. *)
HwDone(c) ==
    /\ hw[c] # None /\ c \notin stalled /\ c \notin pending
    /\ pending' = pending \union {c}
    /\ hw' = IF op[hw[c]] = "dbuf" THEN hw ELSE [hw EXCEPT ![c] = None]
    /\ UNCHANGED <<driverVars, taskVars, stalled, others>>

(* dma_isr, for all pending channels: write the variable, post to the queue (which
   holds one message), free the channel unless it is occupied.  The message carries
   the name of the task whose transfer has ended. *)
Served == {c \in pending : usage[c] # "free"}
Ended(c) == IF notify[c] # None THEN notify[c][1] ELSE None
Freed == {c \in Served : usage[c] = "normal"}
FreeAll(C) ==   \* dma_free_channel of every channel in C
    /\ usage' = [c \in Channels |-> IF c \in C THEN "free" ELSE usage[c]]
    /\ notify' = [c \in Channels |-> IF c \in C THEN None ELSE notify[c]]
    /\ notifyQ' = [c \in Channels |-> IF c \in C THEN None ELSE notifyQ[c]]
    /\ hw' = [c \in Channels |-> IF c \in C THEN None ELSE hw[c]]
Posted(i, C) == {c \in C : notifyQ[c] = i}

Write(C) == left' = [t \in Tasks |-> left[t] \ {k \in {1, 2} : \E c \in C : notify[c] = <<t, k>>}]
Post(C) == qMsg' = [i \in Queues |-> IF qMsg[i] = None /\ Posted(i, C) # {}
                                     THEN Ended(First(Posted(i, C))) ELSE qMsg[i]]

IsrFreesFirst ==   \* mutant: the channels are freed before the queues are posted to
    /\ pending # {}
    /\ Write(Served) /\ Post(Served \ Freed) /\ FreeAll(Freed) /\ pending' = {}
    /\ UNCHANGED <<stalled, target, qUsed, pc, op, high, ch, q, others>>
Isr ==
    /\ pending # {}
    /\ Write(Served) /\ Post(Served) /\ FreeAll(Freed) /\ pending' = {}
    /\ UNCHANGED <<stalled, target, qUsed, pc, op, high, ch, q, others>>

-----------------------------------------------------------------------------
(* Waiting for the end *)

(* OSQPend returns with a message; the queue is given back. *)
PendReturns(t) ==
    /\ At(t, "pend") /\ qMsg[q[t]] # None
    /\ qMsg' = [qMsg EXCEPT ![q[t]] = None]
    /\ FreeQueue(t) /\ Return(t)
    /\ UNCHANGED <<target, usage, notify, notifyQ, hwVars>>

(* After 10 s dma_memory_fill gives the queue back, then the channel. *)
TimesOut(t) ==
    /\ At(t, "pend") /\ op[t] = "fill" /\ qMsg[q[t]] = None
    /\ \/ "slow" \in May \/ ch[t] \in stalled
       \/ t \notin {hw[c] : c \in Channels} /\ pending = {}
FillGivesUp(t) ==
    /\ TimesOut(t)
    /\ FreeQueue(t) /\ Go(t, "reset")
    /\ UNCHANGED <<target, usage, notify, notifyQ, qMsg, hwVars, op, high, ch, q, left>>

(* dma_device_protect, dma_free_channel, dma_device_unprotect; for a double buffer
   only if its channel is still occupied, looked at before *)
FreeOwn(t) ==
    /\ At(t, "reset")
    /\ FreeAll({ch[t]}) /\ pending' = pending \ {ch[t]}
    /\ Return(t)
    /\ UNCHANGED <<target, qUsed, qMsg, stalled>>

PollEnds(t) ==
    /\ At(t, "poll") /\ left[t] = {}
    /\ Return(t)
    /\ UNCHANGED <<driverVars, hwVars>>

(* dma_transfer_double_buf_free by the audio task *)
StopBuffers(t) ==
    /\ At(t, "run")
    /\ \/ usage[ch[t]] = "occupied" /\ Go(t, "reset") /\ UNCHANGED <<op, high, ch, q, left>>
       \/ usage[ch[t]] # "occupied" /\ Return(t)
    /\ UNCHANGED <<driverVars, hwVars>>

-----------------------------------------------------------------------------

Progress(t) ==
    \/ GetQueue(t) \/ FlushQueue(t) \/ SetTarget(t) \/ GetChannel(t) \/ Refused(t)
    \/ ClearTarget(t) \/ SetNotify(t) \/ Start(t)
    \/ PendReturns(t) \/ FillGivesUp(t) \/ FreeOwn(t) \/ PollEnds(t)
Step(t) == (Progress(t) \/ StopBuffers(t) \/ \E o \in Does[t] : Call(t, o)) /\ UNCHANGED others

Next == (\E t \in Tasks : Step(t)) \/ (\E c \in Channels : HwDone(c)) \/ Isr
Spec == Init /\ [][Next]_vars

(* Tasks and channels get on, and interrupts are served; no call has to be made, and
   the audio task may go on for ever. *)
Fairness ==
    /\ \A t \in Tasks : WF_vars(Progress(t) /\ UNCHANGED others)
    /\ \A c \in Channels : WF_vars(HwDone(c))
    /\ WF_vars(Isr)
FairSpec == Spec /\ Fairness

-----------------------------------------------------------------------------
(* Properties *)

SetsUp(t, c) == pc[t] \in {"clear", "notify", "start"} /\ ch[t] = c

(* dma_get_channel hands out a channel that is free: while a task programs it nobody
   else does, no transfer of another call runs on it and it is marked as used. *)
ChannelMine ==
    \A t \in Tasks, c \in Channels : SetsUp(t, c) =>
        /\ usage[c] # "free" /\ hw[c] = None /\ c \notin pending /\ c \notin others
        /\ \A u \in Tasks : SetsUp(u, c) => u = t

(* A message that wakes a task is about the end of its own transfer, although queues
   and channels go from task to task and the interrupt frees the channel first. *)
CompletionIsMine ==
    \A t \in Tasks : pc[t] = "pend" /\ qMsg[q[t]] # None => qMsg[q[t]] = t

(* When no call is under way and the hardware rests, every channel and every queue is
   free again, and no variable or queue is left to be written to. *)
NothingKept ==
    (\A t \in Tasks : pc[t] = "idle") /\ (\A c \in Channels : hw[c] = None) /\ pending = {} =>
        /\ \A c \in Channels \ others : usage[c] = "free" /\ notify[c] = None /\ notifyQ[c] = None
        /\ \A i \in Queues : ~qUsed[i]

(* With channels enough every call but that of the audio task returns; a transfer of
   dma_memory_fill that never ends is given up. *)
CallsReturn ==
    others = {} => \A t \in Tasks : (pc[t] # "idle" ~> pc[t] \in {"idle", "run"})

=============================================================================
