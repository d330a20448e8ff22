----------------------------- MODULE DmaProofs -----------------------------
(***************************************************************************)
(* Proofs about the DMA driver: a channel that a task programs is its own, *)
(* the message that wakes a task is about its own transfer, and nothing is *)
(* kept when no call is under way.                                         *)
(***************************************************************************)
EXTENDS Dma, WellFoundedInduction, TLAPS

-----------------------------------------------------------------------------
(* What the proofs rest on.                                                *)

(* A transfer of dma_memory_fill ends within its ten seconds or never, and *)
(* no target is above 0xF8000000: for such a target the search ends with   *)
(* channel 0 whether that is free or not.                                  *)
NothingSlow == May \subseteq {"stall"}

Places == {"idle", "queue", "flush", "target", "channel", "clear", "notify", "start", "pend", "poll",
           "run", "reset", "hung"}

DmaTypes ==
  /\ target = FALSE /\ high = [t \in Tasks |-> FALSE]
  /\ usage \in [Channels -> {"free", "normal", "occupied"}]
  /\ notify \in [Channels -> (Tasks \X {1, 2}) \cup {None}]
  /\ notifyQ \in [Channels -> Queues \cup {None}]
  /\ qUsed \in [Queues -> BOOLEAN] /\ qMsg \in [Queues -> Tasks \cup {None}]
  /\ hw \in [Channels -> Tasks \cup {None}]
  /\ stalled \subseteq Channels /\ pending \subseteq Channels /\ others \subseteq Channels
  /\ pc \in [Tasks -> Places] /\ op \in [Tasks -> Ops \cup {None}]
  /\ ch \in [Tasks -> Channels \cup {NCh}] /\ q \in [Tasks -> Queues \cup {NQ}]
  /\ left \in [Tasks -> SUBSET {1, 2}]

(* A call, its queue and its channel.                                      *)
Waits(t) == op[t] \in {"wait", "fill"}
Where(t) ==
  /\ pc[t] # "idle" => op[t] \in Ops
  /\ pc[t] \in {"queue", "flush", "pend"} => Waits(t)
  /\ pc[t] = "run" => op[t] = "dbuf"
  /\ pc[t] \in {"poll", "hung"} => op[t] \in {"poll", "spi"}
  /\ pc[t] = "reset" => op[t] \in {"fill", "dbuf"}
  /\ pc[t] \in {"notify", "start", "run", "reset", "pend"} => ch[t] \in Channels
  /\ q[t] \in Queues <=> pc[t] \notin {"idle", "queue"} /\ Waits(t)

(* A task holds its channel from dma_get_channel until it gives it back or *)
(* until the interrupt has told it that the transfer has ended.            *)
Busy(t) == \/ pc[t] \in {"clear", "notify", "start", "run", "reset"}
           \/ pc[t] = "pend" /\ qMsg[q[t]] = None
Holds(t, c) == Busy(t) /\ ch[t] = c
HasQueue(t, i) == q[t] = i /\ pc[t] # "reset"

Held(t, c) ==
  /\ usage[c] = Usage(op[t]) /\ c \notin others
  /\ pc[t] \in {"clear", "notify", "start"} => hw[c] = None /\ c \notin pending
  /\ pc[t] \in {"clear", "notify"} => notify[c] = None /\ notifyQ[c] = None
  /\ pc[t] \in {"start", "pend"} =>
       /\ notifyQ[c] = IF q[t] \in Queues THEN q[t] ELSE None
       /\ op[t] # "dbuf" => notify[c] # None /\ notify[c][1] = t
  /\ pc[t] = "pend" => hw[c] = t \/ c \in pending
  /\ pc[t] \in {"run", "reset"} => hw[c] = t
  /\ pc[t] = "reset" /\ op[t] = "fill" => c \in stalled

ChannelHeld ==
  /\ \A t \in Tasks, c \in Channels : Holds(t, c) => Held(t, c)
  /\ \A t, u \in Tasks, c \in Channels : Holds(t, c) /\ Holds(u, c) => t = u

(* A queue is used by the one task that has it, and what is in it is that  *)
(* task's.                                                                 *)
QueueHeld ==
  /\ \A t \in Tasks, i \in Queues : HasQueue(t, i) => qUsed[i]
  /\ \A t, u \in Tasks, i \in Queues : HasQueue(t, i) /\ HasQueue(u, i) => t = u
  /\ \A i \in Queues : qUsed[i] => \E t \in Tasks : HasQueue(t, i)
  /\ \A i \in Queues : qMsg[i] # None => HasQueue(qMsg[i], i) /\ pc[qMsg[i]] = "pend"

(* A free channel is clean; one that is not free has somebody to free it;  *)
(* and a transfer that may still end posts to the queue of its task.       *)
Clean(c) == hw[c] = None /\ c \notin pending /\ notify[c] = None /\ notifyQ[c] = None
Account ==
  \A c \in Channels :
    /\ usage[c] = "free" => Clean(c)
    /\ c \in others => usage[c] = "occupied" /\ Clean(c)
    /\ c \in pending => c \notin stalled
    /\ usage[c] = "normal" => hw[c] # None \/ c \in pending \/ \E t \in Tasks : Holds(t, c)
    /\ usage[c] = "occupied" => c \in others \/ \E t \in Tasks : Holds(t, c)
    /\ notifyQ[c] # None => \/ c \in stalled
                            \/ \E t \in Tasks : Holds(t, c) /\ pc[t] \in {"start", "pend"}

DmaInv == DmaTypes /\ (\A t \in Tasks : Where(t)) /\ ChannelHeld /\ QueueHeld /\ Account
-----------------------------------------------------------------------------
(* Operators.                                                              *)

Less == {p \in Nat \X Nat : p[1] < p[2]}

LEMMA LessIsWellFounded == IsWellFoundedOn(Less, Nat)
BY NatLessThanWellFounded DEF OpToRel, Less

LEMMA FirstIn ==
  ASSUME NEW S, S \subseteq Nat, S # {}
  PROVE  First(S) \in S
<1>1. \E x \in S : \A y \in S : ~ (<<y, x>> \in Less)
  BY LessIsWellFounded, WFMin
<1>2. PICK x \in S : \A y \in S : ~ (<<y, x>> \in Less)
  BY <1>1
<1>3. \A y \in S : x <= y
  <2>1. SUFFICES ASSUME NEW y \in S PROVE x <= y
    OBVIOUS
  <2>2. x \in Nat /\ y \in Nat /\ <<y, x>> \in Nat \X Nat
    OBVIOUS
  <2>3. ~(y < x)
    BY <1>2, <2>2 DEF Less
  <2>4. QED
    BY <2>2, <2>3
<1>4. QED
  BY <1>3 DEF First

LEMMA Sizes ==
  /\ Channels \subseteq Nat /\ Queues \subseteq Nat /\ NCh \notin Channels /\ NQ \notin Queues
  /\ None \notin Channels /\ None \notin Queues /\ None \notin Tasks
  /\ \A t \in Tasks, k \in {1, 2} : <<t, k>> # None
BY SizeAssumption, NoneAssumption DEF Channels, Queues

(* A channel that is handed out is free.                                   *)
LEMMA PickIsFree ==
  ASSUME DmaTypes
  PROVE  Pick \in FreeChannels \/ (Pick = NCh /\ FreeChannels = {})
<1>1. FreeChannels \subseteq Nat /\ target = FALSE
  BY Sizes DEF FreeChannels, DmaTypes
<1>2. CASE FreeChannels = {}
  BY <1>1, <1>2 DEF Pick
<1>3. CASE FreeChannels # {}
  <2>1. First(FreeChannels) \in FreeChannels
    BY <1>1, <1>3, FirstIn
  <2>2. Pick = First(FreeChannels)
    BY <1>1, <1>3 DEF Pick
  <2>3. QED
    BY <2>1, <2>2
<1>4. QED
  BY <1>2, <1>3

-----------------------------------------------------------------------------
(* The steps of a task.                                                    *)

(* A step that touches neither queues nor channels.                        *)
LEMMA CallKeeps ==
  ASSUME NothingSlow, DmaInv, NEW t \in Tasks, NEW o \in Does[t], Call(t, o), UNCHANGED others
  PROVE  DmaInv'
<1>1. o \in Ops /\ "high" \notin May
  BY TasksAssumption, MayAssumption DEF NothingSlow
<1>2. /\ pc[t] = "idle" /\ op' = [op EXCEPT ![t] = o] /\ high' = high
      /\ left' = [left EXCEPT ![t] = IF o = "dbuf" THEN {} ELSE {1}]
      /\ pc' = [pc EXCEPT ![t] = IF o \in {"wait", "fill"} THEN "queue" ELSE "target"]
      /\ UNCHANGED <<driverVars, hwVars, ch, q, others>>
  BY <1>1 DEF Call, At, Go
<1>3. DmaTypes'
  BY <1>1, <1>2 DEF DmaInv, DmaTypes, Places, driverVars, hwVars
<1>4. \A u \in Tasks : u # t => pc'[u] = pc[u] /\ op'[u] = op[u]
  BY <1>2 DEF DmaInv, DmaTypes
<1>5. pc'[t] \in {"queue", "target"} /\ op'[t] = o /\ (pc'[t] = "queue" => o \in {"wait", "fill"})
      /\ (pc'[t] = "target" => o \notin {"wait", "fill"})
  BY <1>2 DEF DmaInv, DmaTypes
<1>6. \A u \in Tasks : Where(u)'
  BY <1>1, <1>2, <1>4, <1>5 DEF DmaInv, Where, Waits
<1>7. \A u \in Tasks, c \in Channels : Holds(u, c)' <=> Holds(u, c)
  BY <1>2, <1>4, <1>5 DEF Holds, Busy, driverVars
<1>8. \A u \in Tasks, i \in Queues : HasQueue(u, i)' <=> HasQueue(u, i)
  BY <1>2, <1>4, <1>5 DEF HasQueue
<1>9. \A u \in Tasks, c \in Channels : Holds(u, c) => Held(u, c)'
  <2>1. \A c \in Channels : ~Holds(t, c)
    BY <1>2 DEF Holds, Busy
  <2>2. \A u \in Tasks, c \in Channels : Holds(u, c) => Held(u, c)
    BY DEF DmaInv, ChannelHeld
  <2>3. QED
    BY <1>2, <1>4, <2>1, <2>2 DEF Held, Usage, driverVars, hwVars
<1>10. ChannelHeld'
  BY <1>7, <1>9 DEF DmaInv, ChannelHeld
<1>11. QueueHeld'
  BY <1>2, <1>4, <1>5, <1>8 DEF DmaInv, QueueHeld, driverVars, DmaTypes
<1>12. Account'
  BY <1>2, <1>4, <1>5, <1>7 DEF DmaInv, Account, Clean, driverVars, hwVars
<1>13. QED
  BY <1>3, <1>6, <1>10, <1>11, <1>12 DEF DmaInv

(* dma_get_queue gives out a queue nobody has.                             *)
LEMMA GetQueueKeeps ==
  ASSUME DmaInv, NEW t \in Tasks, GetQueue(t), UNCHANGED others
  PROVE  DmaInv'
<1> DEFINE unused == {i \in Queues : ~qUsed[i]}
<1>0. pc[t] = "queue" /\ Waits(t) /\ q[t] \notin Queues /\ q[t] = NQ
  BY DEF GetQueue, At, DmaInv, Where, DmaTypes
<1>1. /\ UNCHANGED <<target, usage, notify, notifyQ, qMsg, hwVars, others>>
      /\ \A u \in Tasks : u # t => /\ pc'[u] = pc[u] /\ op'[u] = op[u] /\ ch'[u] = ch[u] /\ q'[u] = q[u]
  BY DEF GetQueue, Go, Return, DmaInv, DmaTypes
<1>2. CASE unused # {}
  <2>1. First(unused) \in unused
    BY <1>2, FirstIn, Sizes
  <2>2. PICK i \in Queues : /\ ~qUsed[i] /\ q' = [q EXCEPT ![t] = i] /\ qUsed' = [qUsed EXCEPT ![i] = TRUE]
                            /\ pc' = [pc EXCEPT ![t] = "flush"]
                            /\ UNCHANGED <<op, high, ch, left>>
    BY <1>2, <2>1 DEF GetQueue, Go
  <2>3. DmaTypes'
    BY <1>1, <2>2 DEF DmaInv, DmaTypes, Places, hwVars
  <2>4. pc'[t] = "flush" /\ q'[t] = i /\ op'[t] = op[t] /\ ch'[t] = ch[t]
    BY <2>2 DEF DmaInv, DmaTypes
  <2>5. \A u \in Tasks : Where(u)'
    BY <1>0, <1>1, <2>4 DEF DmaInv, Where, Waits
  <2>6. \A u \in Tasks, c \in Channels : Holds(u, c)' <=> Holds(u, c)
    BY <1>0, <1>1, <2>4 DEF Holds, Busy
  <2>7. \A u \in Tasks, j \in Queues : HasQueue(u, j)' <=> HasQueue(u, j) \/ (u = t /\ j = i)
    BY <1>0, <1>1, <2>4 DEF HasQueue
  <2>8. \A u \in Tasks : ~HasQueue(u, i)
    BY <2>2 DEF DmaInv, QueueHeld
  <2>9. ChannelHeld'
    BY <1>0, <1>1, <2>4, <2>6 DEF DmaInv, ChannelHeld, Held, Usage, hwVars
  <2>10. QueueHeld'
    <3>1. \A j \in Queues : qUsed'[j] <=> qUsed[j] \/ j = i
      BY <2>2 DEF DmaInv, DmaTypes
    <3>2. \A j \in Queues : qMsg[j] # None => qMsg[j] \in Tasks
      BY DEF DmaInv, DmaTypes
    <3>3. \A j \in Queues : qMsg'[j] = qMsg[j]
      BY <1>1
    <3>4. QED
      BY <1>0, <1>1, <2>4, <2>7, <2>8, <3>1, <3>2, <3>3 DEF DmaInv, QueueHeld
  <2>11. Account'
    BY <1>0, <1>1, <2>4, <2>6 DEF DmaInv, Account, Clean, hwVars
  <2>12. QED
    BY <2>3, <2>5, <2>9, <2>10, <2>11 DEF DmaInv
<1>3. CASE unused = {}
  <2>1. Return(t) /\ UNCHANGED qUsed
    BY <1>3 DEF GetQueue
  <2>2. /\ pc' = [pc EXCEPT ![t] = "idle"] /\ op' = [op EXCEPT ![t] = None]
        /\ high' = [high EXCEPT ![t] = FALSE]
        /\ ch' = [ch EXCEPT ![t] = NCh] /\ q' = [q EXCEPT ![t] = NQ]
        /\ left' = [left EXCEPT ![t] = {}]
    BY <2>1 DEF Return, Go
  <2>3. DmaTypes'
    BY <1>1, <2>1, <2>2 DEF DmaInv, DmaTypes, Places, hwVars
  <2>4. pc'[t] = "idle" /\ q'[t] = NQ /\ NQ \notin Queues
    BY <2>2, Sizes DEF DmaInv, DmaTypes
  <2>5. \A u \in Tasks : Where(u)'
    BY <1>0, <1>1, <2>4 DEF DmaInv, Where, Waits
  <2>6. \A u \in Tasks, c \in Channels : Holds(u, c)' <=> Holds(u, c)
    BY <1>0, <1>1, <2>4 DEF Holds, Busy
  <2>7. \A u \in Tasks, j \in Queues : HasQueue(u, j)' <=> HasQueue(u, j)
    BY <1>0, <1>1, <2>4 DEF HasQueue
  <2>8. ChannelHeld'
    <3>1. \A c \in Channels : ~Holds(t, c)
      BY <1>0 DEF Holds, Busy
    <3>2. QED
      BY <1>0, <1>1, <2>6, <3>1 DEF DmaInv, ChannelHeld, Held, Usage, hwVars
  <2>9. QueueHeld'
    BY <1>0, <1>1, <2>1, <2>4, <2>7 DEF DmaInv, QueueHeld, DmaTypes
  <2>10. Account'
    BY <1>0, <1>1, <2>4, <2>6 DEF DmaInv, Account, Clean, hwVars
  <2>11. QED
    BY <2>3, <2>5, <2>8, <2>9, <2>10 DEF DmaInv
<1>4. QED
  BY <1>2, <1>3

(* The queue that a task has just been given is empty.                     *)
LEMMA FlushKeeps ==
  ASSUME DmaInv, NEW t \in Tasks, FlushQueue(t), UNCHANGED others
  PROVE  DmaInv'
<1>0. pc[t] = "flush" /\ Waits(t) /\ q[t] \in Queues
  BY DEF FlushQueue, At, DmaInv, Where
<1>1. \A j \in Queues : qMsg'[j] = qMsg[j]
  <2>1. qMsg[q[t]] = None
    <3>1. SUFFICES ASSUME qMsg[q[t]] # None PROVE FALSE
      OBVIOUS
    <3>2. qMsg[q[t]] \in Tasks /\ HasQueue(qMsg[q[t]], q[t]) /\ pc[qMsg[q[t]]] = "pend"
      BY <1>0, <3>1 DEF DmaInv, QueueHeld, DmaTypes
    <3>3. HasQueue(t, q[t])
      BY <1>0 DEF HasQueue
    <3>4. QED
      BY <1>0, <3>2, <3>3 DEF DmaInv, QueueHeld
  <2>2. QED
    BY <1>0, <2>1 DEF FlushQueue, DmaInv, DmaTypes
<1>2. /\ UNCHANGED <<target, usage, notify, notifyQ, qUsed, hwVars, op, high, ch, q, left, others>>
      /\ pc'[t] \in {"channel", "target"}
      /\ \A u \in Tasks : u # t => pc'[u] = pc[u]
      /\ qMsg' \in [Queues -> Tasks \cup {None}] /\ pc' \in [Tasks -> Places]
  BY DEF FlushQueue, Go, DmaInv, DmaTypes, Places
<1>3. DmaTypes'
  BY <1>2 DEF DmaInv, DmaTypes, hwVars
<1>4. \A u \in Tasks : Where(u)'
  BY <1>0, <1>2 DEF DmaInv, Where, Waits
<1>5. \A u \in Tasks, c \in Channels : Holds(u, c)' <=> Holds(u, c)
  <2>1. \A u \in Tasks : pc[u] = "pend" => q[u] \in Queues
    BY DEF DmaInv, Where
  <2>2. QED
    BY <1>0, <1>1, <1>2, <2>1 DEF Holds, Busy
<1>6. \A u \in Tasks, j \in Queues : HasQueue(u, j)' <=> HasQueue(u, j)
  BY <1>0, <1>2 DEF HasQueue
<1>7. ChannelHeld'
  <2>1. \A c \in Channels : ~Holds(t, c)
    BY <1>0 DEF Holds, Busy
  <2>2. QED
    BY <1>2, <1>5, <2>1 DEF DmaInv, ChannelHeld, Held, Usage, hwVars
<1>8. QueueHeld'
  BY <1>0, <1>1, <1>2, <1>6 DEF DmaInv, QueueHeld, DmaTypes
<1>9. Account'
  BY <1>0, <1>2, <1>5 DEF DmaInv, Account, Clean, hwVars
<1>10. QED
  BY <1>3, <1>4, <1>7, <1>8, <1>9 DEF DmaInv

LEMMA TargetKeeps ==
  ASSUME DmaInv, NEW t \in Tasks, SetTarget(t) \/ ClearTarget(t), UNCHANGED others
  PROVE  DmaInv'
<1>1. /\ pc[t] \in {"target", "clear"} /\ target' = FALSE /\ pc' \in [Tasks -> Places]
      /\ pc[t] = "target" => pc'[t] = "channel"
      /\ pc[t] = "clear" => pc'[t] = "notify" /\ ch[t] \in Channels
      /\ \A u \in Tasks : u # t => pc'[u] = pc[u]
      /\ UNCHANGED <<usage, notify, notifyQ, qUsed, qMsg, hwVars, op, high, ch, q, left, others>>
  BY DEF SetTarget, ClearTarget, At, Go, DmaInv, DmaTypes, Places
<1>2. DmaTypes'
  BY <1>1 DEF DmaInv, DmaTypes, hwVars
<1>3. \A u \in Tasks : Where(u)'
  BY <1>1 DEF DmaInv, Where, Waits
<1>4. \A u \in Tasks, c \in Channels : Holds(u, c)' <=> Holds(u, c)
  BY <1>1 DEF Holds, Busy
<1>5. \A u \in Tasks, j \in Queues : HasQueue(u, j)' <=> HasQueue(u, j)
  BY <1>1 DEF HasQueue
<1>6. \A u \in Tasks, c \in Channels : Holds(u, c) => Held(u, c)'
  <2>1. \A u \in Tasks, c \in Channels : Holds(u, c) => Held(u, c)
    BY DEF DmaInv, ChannelHeld
  <2>2. \A c \in Channels : Holds(t, c) => pc[t] = "clear"
    BY <1>1 DEF Holds, Busy
  <2>3. QED
    BY <1>1, <2>1, <2>2 DEF Held, Usage, hwVars
<1>7. ChannelHeld'
  BY <1>4, <1>6 DEF DmaInv, ChannelHeld
<1>8. QueueHeld'
  BY <1>1, <1>5 DEF DmaInv, QueueHeld, DmaTypes
<1>9. Account'
  BY <1>1, <1>4 DEF DmaInv, Account, Clean, hwVars
<1>10. QED
  BY <1>2, <1>3, <1>7, <1>8, <1>9 DEF DmaInv

(* dma_get_channel hands out a free channel, which is clean.               *)
LEMMA GetChannelKeeps ==
  ASSUME DmaInv, NEW t \in Tasks, GetChannel(t), UNCHANGED others
  PROVE  DmaInv'
<1>0. pc[t] = "channel" /\ op[t] \in Ops /\ target = FALSE
  BY DEF GetChannel, At, DmaInv, Where, DmaTypes
<1>1. /\ ch' = [ch EXCEPT ![t] = Pick] /\ pc'[t] \in {"notify", "clear"}
      /\ pc'[t] = "notify" => op[t] = "fill" /\ Pick # NCh
      /\ UNCHANGED <<target, notify, notifyQ, qUsed, qMsg, stalled, pending, op, high, q, left, others>>
      /\ \A u \in Tasks : u # t => pc'[u] = pc[u]
      /\ pc' \in [Tasks -> Places]
  BY DEF GetChannel, Go, DmaInv, DmaTypes, Places
<1>2. (Pick \in FreeChannels) \/ (Pick = NCh /\ FreeChannels = {})
  BY PickIsFree DEF DmaInv
<1>3. \A u \in Tasks, j \in Queues : HasQueue(u, j)' <=> HasQueue(u, j)
  BY <1>0, <1>1 DEF HasQueue
<1>4. \A c \in Channels : ~Holds(t, c)
  BY <1>0 DEF Holds, Busy
<1>5. QueueHeld'
  BY <1>0, <1>1, <1>3 DEF DmaInv, QueueHeld, DmaTypes
<1>6. CASE Pick \in FreeChannels
  <2>1. PICK d \in Channels : d = Pick /\ usage[d] = "free"
    BY <1>6 DEF FreeChannels
  <2>2. /\ usage' = [usage EXCEPT ![d] = Usage(op[t])] /\ hw' = [hw EXCEPT ![d] = None]
        /\ Usage(op[t]) \in {"normal", "occupied"}
    BY <1>0, <1>6, <2>1 DEF GetChannel, Usage
  <2>3. DmaTypes'
    BY <1>1, <2>1, <2>2 DEF DmaInv, DmaTypes
  <2>4. ch'[t] = d /\ \A u \in Tasks : u # t => ch'[u] = ch[u]
    BY <1>1, <2>1 DEF DmaInv, DmaTypes
  <2>5. \A u \in Tasks : Where(u)'
    BY <1>0, <1>1, <2>4 DEF DmaInv, Where, Waits
  <2>6. Clean(d) /\ d \notin others /\ \A u \in Tasks : ~Holds(u, d)
    BY <2>1 DEF DmaInv, Account, ChannelHeld, Held, Usage
  <2>7. \A u \in Tasks, c \in Channels : Holds(u, c)' <=> Holds(u, c) \/ (u = t /\ c = d)
    BY <1>0, <1>1, <1>4, <2>4 DEF Holds, Busy
  <2>8. \A c \in Channels : c # d => usage'[c] = usage[c] /\ hw'[c] = hw[c]
    BY <2>2 DEF DmaInv, DmaTypes
  <2>9. usage'[d] = Usage(op[t]) /\ hw'[d] = None
    BY <2>2 DEF DmaInv, DmaTypes
  <2>10. \A u \in Tasks, c \in Channels : Holds(u, c) => Held(u, c)'
    <3>1. \A u \in Tasks, c \in Channels : Holds(u, c) => Held(u, c) /\ c # d /\ u # t
      BY <1>4, <2>6 DEF DmaInv, ChannelHeld
    <3>2. QED
      BY <1>1, <2>8, <3>1 DEF Held, Usage
  <2>11. Held(t, d)'
    BY <1>1, <2>6, <2>9 DEF Held, Clean
  <2>12. ChannelHeld'
    BY <2>6, <2>7, <2>10, <2>11 DEF DmaInv, ChannelHeld
  <2>13. Account'
    <3>1. \A c \in Channels : c # d =>
            /\ usage'[c] = "free" => Clean(c)'
            /\ c \in others' => usage'[c] = "occupied" /\ Clean(c)'
            /\ usage'[c] = "normal" => hw'[c] # None \/ c \in pending' \/ \E u \in Tasks : Holds(u, c)'
            /\ usage'[c] = "occupied" => c \in others' \/ \E u \in Tasks : Holds(u, c)'
      BY <1>1, <2>7, <2>8 DEF DmaInv, Account, Clean
    <3>2. \A c \in Channels : /\ c \in pending' => c \notin stalled'
                              /\ notifyQ'[c] # None => \/ c \in stalled'
                                     \/ \E u \in Tasks : Holds(u, c)' /\ pc'[u] \in {"start", "pend"}
      BY <1>0, <1>1, <2>7 DEF DmaInv, Account
    <3>3. usage'[d] # "free" /\ d \notin others' /\ Holds(t, d)'
      BY <1>1, <2>2, <2>6, <2>7, <2>9
    <3>4. QED
      BY <3>1, <3>2, <3>3 DEF Account
  <2>14. QED
    BY <1>5, <2>3, <2>5, <2>12, <2>13 DEF DmaInv
<1>7. CASE Pick \notin FreeChannels
  <2>1. Pick = NCh /\ UNCHANGED <<usage, hw>> /\ pc'[t] = "clear"
    BY <1>0, <1>1, <1>2, <1>7 DEF GetChannel
  <2>2. DmaTypes'
    BY <1>1, <2>1 DEF DmaInv, DmaTypes
  <2>3. ch'[t] = NCh /\ \A u \in Tasks : u # t => ch'[u] = ch[u]
    BY <1>1, <2>1 DEF DmaInv, DmaTypes
  <2>4. \A u \in Tasks : Where(u)'
    BY <1>0, <1>1, <2>1, <2>3 DEF DmaInv, Where, Waits
  <2>5. \A u \in Tasks, c \in Channels : Holds(u, c)' <=> Holds(u, c)
    BY <1>0, <1>1, <1>4, <2>3, Sizes DEF Holds, Busy
  <2>6. ChannelHeld'
    BY <1>1, <1>4, <2>1, <2>5 DEF DmaInv, ChannelHeld, Held, Usage
  <2>7. Account'
    BY <1>0, <1>1, <2>1, <2>5 DEF DmaInv, Account, Clean
  <2>8. QED
    BY <1>5, <2>2, <2>4, <2>6, <2>7 DEF DmaInv
<1>8. QED
  BY <1>6, <1>7

(* No channel: the call ends, or mem_transfer_dma hangs.                   *)
LEMMA RefusedKeeps ==
  ASSUME DmaInv, NEW t \in Tasks, Refused(t), UNCHANGED others
  PROVE  DmaInv'
<1>0. pc[t] = "clear" /\ ch[t] = NCh /\ target' = FALSE /\ op[t] \in Ops
  BY DEF Refused, At, DmaInv, DmaTypes, Where
<1>1. /\ UNCHANGED <<usage, notify, notifyQ, qMsg, hwVars, others>>
      /\ \A u \in Tasks : u # t => /\ pc'[u] = pc[u] /\ op'[u] = op[u] /\ ch'[u] = ch[u] /\ q'[u] = q[u]
  BY DEF Refused, Go, Return, DmaInv, DmaTypes
<1>2. \A c \in Channels : ~Holds(t, c)
  BY <1>0, Sizes DEF Holds
<1>3. CASE op[t] = "poll"
  <2>1. pc' = [pc EXCEPT ![t] = "hung"] /\ UNCHANGED <<op, high, ch, q, left, qUsed>>
    BY <1>3 DEF Refused, Go
  <2>2. DmaTypes' /\ pc'[t] = "hung"
    BY <1>0, <1>1, <2>1 DEF DmaInv, DmaTypes, Places, hwVars
  <2>3. \A u \in Tasks : Where(u)'
    BY <1>0, <1>1, <1>3, <2>1, <2>2 DEF DmaInv, Where, Waits
  <2>4. \A u \in Tasks, c \in Channels : Holds(u, c)' <=> Holds(u, c)
    BY <1>1, <1>2, <2>1, <2>2 DEF Holds, Busy
  <2>5. \A u \in Tasks, j \in Queues : HasQueue(u, j)' <=> HasQueue(u, j)
    BY <1>0, <1>1, <2>1, <2>2 DEF HasQueue
  <2>6. ChannelHeld'
    BY <1>1, <1>2, <2>1, <2>4 DEF DmaInv, ChannelHeld, Held, Usage, hwVars
  <2>7. QueueHeld'
    BY <1>0, <1>1, <2>1, <2>2, <2>5 DEF DmaInv, QueueHeld, DmaTypes
  <2>8. Account'
    BY <1>0, <1>1, <2>4 DEF DmaInv, Account, Clean, hwVars
  <2>9. QED
    BY <2>2, <2>3, <2>6, <2>7, <2>8 DEF DmaInv
<1>4. CASE op[t] # "poll"
  <2>1. Return(t) /\ FreeQueue(t)
    BY <1>4 DEF Refused
  <2>2. /\ pc' = [pc EXCEPT ![t] = "idle"] /\ op' = [op EXCEPT ![t] = None]
        /\ high' = [high EXCEPT ![t] = FALSE]
        /\ ch' = [ch EXCEPT ![t] = NCh] /\ q' = [q EXCEPT ![t] = NQ]
        /\ left' = [left EXCEPT ![t] = {}]
        /\ qUsed' = IF q[t] \in Queues THEN [qUsed EXCEPT ![q[t]] = FALSE] ELSE qUsed
    BY <2>1 DEF Return, Go, FreeQueue
  <2>3. DmaTypes'
    BY <1>0, <1>1, <2>2 DEF DmaInv, DmaTypes, Places, hwVars
  <2>4. pc'[t] = "idle" /\ q'[t] = NQ /\ NQ \notin Queues
    BY <2>2, Sizes DEF DmaInv, DmaTypes
  <2>5. \A u \in Tasks : Where(u)'
    BY <1>0, <1>1, <2>4 DEF DmaInv, Where, Waits
  <2>6. \A u \in Tasks, c \in Channels : Holds(u, c)' <=> Holds(u, c)
    BY <1>1, <1>2, <2>4 DEF Holds, Busy
  <2>7. \A u \in Tasks, j \in Queues : HasQueue(u, j)' <=> (HasQueue(u, j) /\ u # t)
    BY <1>1, <2>4 DEF HasQueue
  <2>8. ChannelHeld'
    BY <1>1, <1>2, <2>6 DEF DmaInv, ChannelHeld, Held, Usage, hwVars
  <2>9. QueueHeld'
    <3>1. \A j \in Queues : qUsed'[j] <=> (qUsed[j] /\ j # q[t])
      BY <2>2 DEF DmaInv, DmaTypes
    <3>2. \A j \in Queues : HasQueue(t, j) <=> j = q[t]
      BY <1>0 DEF HasQueue
    <3>3. \A j \in Queues : qMsg[j] # None => qMsg[j] \in Tasks /\ qMsg[j] # t
      BY <1>0 DEF DmaInv, DmaTypes, QueueHeld
    <3>4. QED
      BY <1>1, <2>7, <3>1, <3>2, <3>3 DEF DmaInv, QueueHeld
  <2>10. Account'
    BY <1>0, <1>1, <2>6 DEF DmaInv, Account, Clean, hwVars
  <2>11. QED
    BY <2>3, <2>5, <2>8, <2>9, <2>10 DEF DmaInv
<1>5. QED
  BY <1>3, <1>4

LEMMA SetNotifyKeeps ==
  ASSUME DmaInv, NEW t \in Tasks, SetNotify(t), UNCHANGED others
  PROVE  DmaInv'
<1>a. PICK d \in Channels : d = ch[t]
  BY DEF SetNotify, At, DmaInv, Where
<1>0. /\ d = ch[t] /\ pc[t] = "notify" /\ op[t] \in Ops /\ d \in Channels /\ Holds(t, d) /\ Held(t, d)
      /\ d \notin others /\ usage[d] # "free"
  BY <1>a DEF SetNotify, At, DmaInv, Where, Holds, Busy, ChannelHeld, Held, Usage
<1>1. /\ notify' = [notify EXCEPT ![d] = Variable(t)]
      /\ notifyQ' = [notifyQ EXCEPT ![d] = IF q[t] \in Queues THEN q[t] ELSE None]
      /\ pc' = [pc EXCEPT ![t] = "start"]
      /\ UNCHANGED <<target, usage, qUsed, qMsg, hwVars, op, high, ch, q, left, others>>
  BY <1>0 DEF SetNotify, Go
<1>2. /\ Variable(t) \in (Tasks \X {1, 2}) \cup {None}
      /\ op[t] # "dbuf" => Variable(t) # None /\ Variable(t)[1] = t
  BY Sizes DEF Variable
<1>3. pc'[t] = "start" /\ \A u \in Tasks : u # t => pc'[u] = pc[u]
  BY <1>1 DEF DmaInv, DmaTypes
<1>4. /\ notify'[d] = Variable(t) /\ notifyQ'[d] = IF q[t] \in Queues THEN q[t] ELSE None
      /\ \A c \in Channels : c # d => notify'[c] = notify[c] /\ notifyQ'[c] = notifyQ[c]
  BY <1>0, <1>1 DEF DmaInv, DmaTypes
<1>5. DmaTypes'
  BY <1>1, <1>2 DEF DmaInv, DmaTypes, Places, hwVars
<1>6. \A u \in Tasks : Where(u)'
  BY <1>0, <1>1, <1>3 DEF DmaInv, Where, Waits
<1>7. \A u \in Tasks, c \in Channels : Holds(u, c)' <=> Holds(u, c)
  BY <1>0, <1>1, <1>3 DEF Holds, Busy
<1>8. \A u \in Tasks, j \in Queues : HasQueue(u, j)' <=> HasQueue(u, j)
  BY <1>0, <1>1, <1>3 DEF HasQueue
<1>9. ChannelHeld'
  <2>1. \A u \in Tasks, c \in Channels : Holds(u, c) /\ u # t => Held(u, c) /\ c # d
    BY <1>0 DEF DmaInv, ChannelHeld
  <2>2. \A u \in Tasks, c \in Channels : Holds(u, c) /\ u # t => Held(u, c)'
    BY <1>1, <1>3, <1>4, <2>1 DEF Held, Usage, hwVars
  <2>3. Held(t, d)'
    BY <1>0, <1>1, <1>2, <1>3, <1>4 DEF Held, Usage, hwVars
  <2>4. \A c \in Channels : Holds(t, c) => c = d
    BY <1>0 DEF Holds
  <2>5. QED
    BY <1>7, <2>2, <2>3, <2>4 DEF DmaInv, ChannelHeld
<1>10. QueueHeld'
  <2>1. \A j \in Queues : qMsg[j] # None => qMsg[j] \in Tasks
    BY DEF DmaInv, DmaTypes
  <2>2. QED
    BY <1>0, <1>1, <1>3, <1>8, <2>1 DEF DmaInv, QueueHeld
<1>11. Account'
  <2>1. \A c \in Channels :
          /\ usage'[c] = "free" => Clean(c)'
          /\ c \in others' => usage'[c] = "occupied" /\ Clean(c)'
          /\ c \in pending' => c \notin stalled'
          /\ usage'[c] = "normal" => hw'[c] # None \/ c \in pending' \/ \E u \in Tasks : Holds(u, c)'
          /\ usage'[c] = "occupied" => c \in others' \/ \E u \in Tasks : Holds(u, c)'
    BY <1>0, <1>1, <1>4, <1>7 DEF DmaInv, Account, Clean, hwVars
  <2>2. \A c \in Channels : notifyQ'[c] # None =>
          \/ c \in stalled'
          \/ \E u \in Tasks : Holds(u, c)' /\ pc'[u] \in {"start", "pend"}
    <3>1. SUFFICES ASSUME NEW c \in Channels, notifyQ'[c] # None, c \notin stalled
                   PROVE  \E u \in Tasks : Holds(u, c)' /\ pc'[u] \in {"start", "pend"}
      BY <1>1 DEF hwVars
    <3>2. CASE c = d
      BY <1>0, <1>3, <1>7, <3>2
    <3>3. CASE c # d
      BY <1>0, <1>3, <1>4, <1>7, <3>1, <3>3 DEF DmaInv, Account
    <3>4. QED
      BY <3>2, <3>3
  <2>3. QED
    BY <2>1, <2>2 DEF Account
<1>12. QED
  BY <1>5, <1>6, <1>9, <1>10, <1>11 DEF DmaInv

(* The transfer starts on a channel on which none is under way.            *)
LEMMA StartKeeps ==
  ASSUME DmaInv, NEW t \in Tasks, Start(t), UNCHANGED others
  PROVE  DmaInv'
<1>a. PICK d \in Channels : d = ch[t]
  BY DEF Start, At, DmaInv, Where
<1>0. /\ d = ch[t] /\ pc[t] = "start" /\ op[t] \in Ops /\ d \in Channels /\ Holds(t, d) /\ Held(t, d)
      /\ d \notin others /\ usage[d] # "free" /\ d \notin pending
  BY <1>a DEF Start, At, DmaInv, Where, Holds, Busy, ChannelHeld, Held, Usage
<1>1. /\ hw' = [hw EXCEPT ![d] = t] /\ stalled' \in {stalled \ {d}, stalled \cup {d}}
      /\ UNCHANGED <<driverVars, pending, op, high, ch, q, others>>
      /\ pc' \in [Tasks -> Places] /\ left' \in [Tasks -> SUBSET {1, 2}]
      /\ \A u \in Tasks : u # t => pc'[u] = pc[u]
  BY <1>0 DEF Start, Go, DmaInv, DmaTypes, Places
<1>2. \/ pc'[t] = "pend" /\ Waits(t)
      \/ pc'[t] = "run" /\ op[t] = "dbuf"
      \/ pc'[t] \in {"poll", "target"} /\ op[t] \in {"poll", "spi"}
  BY DEF Start, Go, DmaInv, DmaTypes, Waits
<1>3. hw'[d] = t /\ \A c \in Channels : c # d => hw'[c] = hw[c] /\ (c \in stalled' <=> c \in stalled)
  BY <1>0, <1>1 DEF DmaInv, DmaTypes
<1>4. DmaTypes'
  <2>1. stalled' \subseteq Channels /\ hw' \in [Channels -> Tasks \cup {None}]
    BY <1>0, <1>1 DEF DmaInv, DmaTypes
  <2>2. QED
    BY <1>1, <2>1 DEF DmaInv, DmaTypes, driverVars
<1>5. \A u \in Tasks : Where(u)'
  BY <1>0, <1>1, <1>2 DEF DmaInv, Where, Waits
<1>6. Waits(t) => q[t] \in Queues /\ qMsg[q[t]] = None
  <2>1. SUFFICES ASSUME Waits(t), qMsg[q[t]] # None PROVE FALSE
    BY <1>0 DEF DmaInv, Where
  <2>2. q[t] \in Queues /\ HasQueue(t, q[t])
    BY <1>0, <2>1 DEF DmaInv, Where, HasQueue
  <2>3. qMsg[q[t]] \in Tasks /\ HasQueue(qMsg[q[t]], q[t]) /\ pc[qMsg[q[t]]] = "pend"
    BY <2>1, <2>2 DEF DmaInv, QueueHeld, DmaTypes
  <2>4. QED
    BY <1>0, <2>2, <2>3 DEF DmaInv, QueueHeld
<1>7. \A u \in Tasks, c \in Channels : u # t => (Holds(u, c)' <=> Holds(u, c))
  BY <1>1 DEF Holds, Busy, driverVars
<1>8. \A c \in Channels : Holds(t, c)' => c = d /\ pc'[t] \in {"pend", "run"}
  BY <1>0, <1>1, <1>2 DEF Holds, Busy
<1>9. pc'[t] \in {"pend", "run"} => Holds(t, d)'
  BY <1>0, <1>1, <1>2, <1>6 DEF Holds, Busy, Waits, driverVars
<1>10. \A u \in Tasks, j \in Queues : HasQueue(u, j)' <=> HasQueue(u, j)
  BY <1>0, <1>1, <1>2 DEF HasQueue
<1>11. ChannelHeld'
  <2>1. \A u \in Tasks, c \in Channels : Holds(u, c) /\ u # t => Held(u, c) /\ c # d
    BY <1>0 DEF DmaInv, ChannelHeld
  <2>2. \A u \in Tasks, c \in Channels : Holds(u, c) /\ u # t => Held(u, c)'
    BY <1>1, <1>3, <2>1 DEF Held, Usage, driverVars
  <2>3. pc'[t] \in {"pend", "run"} => Held(t, d)'
    BY <1>0, <1>1, <1>3 DEF Held, Usage, driverVars
  <2>4. QED
    BY <1>7, <1>8, <2>1, <2>2, <2>3 DEF DmaInv, ChannelHeld
<1>12. QueueHeld'
  <2>1. \A j \in Queues : qMsg[j] # None => qMsg[j] \in Tasks
    BY DEF DmaInv, DmaTypes
  <2>2. QED
    BY <1>0, <1>1, <1>10, <2>1 DEF DmaInv, QueueHeld, driverVars
<1>13. Account'
  <2>1. SUFFICES ASSUME NEW c \in Channels
                 PROVE  /\ usage'[c] = "free" => Clean(c)'
                        /\ c \in others' => usage'[c] = "occupied" /\ Clean(c)'
                        /\ c \in pending' => c \notin stalled'
                        /\ usage'[c] = "normal" => \/ hw'[c] # None \/ c \in pending'
                                                   \/ \E u \in Tasks : Holds(u, c)'
                        /\ usage'[c] = "occupied" => c \in others' \/ \E u \in Tasks : Holds(u, c)'
                        /\ notifyQ'[c] # None =>
                             \/ c \in stalled'
                             \/ \E u \in Tasks : Holds(u, c)' /\ pc'[u] \in {"start", "pend"}
    BY DEF Account
  <2>2. CASE c # d
    <3>1. \A u \in Tasks : (Holds(u, c)' <=> Holds(u, c)) /\ (Holds(u, c) => pc'[u] = pc[u])
      BY <1>0, <1>1, <1>7, <1>8, <2>2 DEF Holds
    <3>2. QED
      BY <1>1, <1>3, <2>2, <3>1 DEF DmaInv, Account, Clean, driverVars
  <2>3. CASE c = d
    <3>1. usage'[d] # "free" /\ d \notin others' /\ d \notin pending' /\ hw'[d] # None
      BY <1>0, <1>1, <1>3, Sizes DEF driverVars
    <3>2. usage'[d] = "occupied" => Holds(t, d)'
      BY <1>0, <1>1, <1>2, <1>9 DEF Held, Usage, driverVars, Waits
    <3>3. notifyQ'[d] # None => Holds(t, d)' /\ pc'[t] = "pend"
      BY <1>0, <1>1, <1>2, <1>9 DEF DmaInv, Held, driverVars, Where, Waits
    <3>4. QED
      BY <2>3, <3>1, <3>2, <3>3
  <2>4. QED
    BY <2>2, <2>3
<1>14. QED
  BY <1>4, <1>5, <1>11, <1>12, <1>13 DEF DmaInv

(* The message that wakes a task is taken with its queue.                  *)
LEMMA PendKeeps ==
  ASSUME DmaInv, NEW t \in Tasks, PendReturns(t), UNCHANGED others
  PROVE  DmaInv'
<1>a. PICK i \in Queues : i = q[t]
  BY DEF PendReturns, At, DmaInv, Where
<1>0. pc[t] = "pend" /\ i = q[t] /\ qMsg[i] # None /\ HasQueue(t, i)
  BY <1>a DEF PendReturns, At, HasQueue
<1>1. /\ pc' = [pc EXCEPT ![t] = "idle"] /\ op' = [op EXCEPT ![t] = None]
      /\ high' = [high EXCEPT ![t] = FALSE]
      /\ ch' = [ch EXCEPT ![t] = NCh] /\ q' = [q EXCEPT ![t] = NQ]
      /\ left' = [left EXCEPT ![t] = {}]
      /\ qUsed' = [qUsed EXCEPT ![i] = FALSE] /\ qMsg' = [qMsg EXCEPT ![i] = None]
      /\ UNCHANGED <<target, usage, notify, notifyQ, hwVars, others>>
  BY <1>0 DEF PendReturns, FreeQueue, Return, Go
<1>2. DmaTypes'
  BY <1>1 DEF DmaInv, DmaTypes, Places, hwVars
<1>3. /\ pc'[t] = "idle" /\ q'[t] = NQ /\ NQ \notin Queues
      /\ \A u \in Tasks : u # t => /\ pc'[u] = pc[u] /\ op'[u] = op[u] /\ ch'[u] = ch[u] /\ q'[u] = q[u]
      /\ ~qUsed'[i] /\ qMsg'[i] = None
      /\ \A j \in Queues : j # i => qUsed'[j] = qUsed[j] /\ qMsg'[j] = qMsg[j]
  BY <1>1, Sizes DEF DmaInv, DmaTypes
<1>4. \A u \in Tasks : Where(u)'
  BY <1>0, <1>3 DEF DmaInv, Where, Waits
<1>5. \A u \in Tasks, j \in Queues : HasQueue(u, j)' <=> (HasQueue(u, j) /\ u # t)
  BY <1>3 DEF HasQueue
<1>6. \A u \in Tasks : HasQueue(u, i) => u = t
  BY <1>0 DEF DmaInv, QueueHeld
<1>7. \A u \in Tasks, c \in Channels : Holds(u, c)' <=> Holds(u, c)
  <2>1. SUFFICES ASSUME NEW u \in Tasks, NEW c \in Channels PROVE Holds(u, c)' <=> Holds(u, c)
    OBVIOUS
  <2>2. CASE u = t
    BY <1>0, <1>3, <2>2 DEF Holds, Busy
  <2>3. CASE u # t
    <3>1. pc[u] = "pend" => q[u] \in Queues /\ q[u] # i
      BY <1>6, <2>3 DEF DmaInv, Where, HasQueue
    <3>2. QED
      BY <1>3, <2>3, <3>1 DEF Holds, Busy
  <2>4. QED
    BY <2>2, <2>3
<1>8. ChannelHeld'
  <2>1. \A c \in Channels : ~Holds(t, c)
    BY <1>0 DEF Holds, Busy
  <2>2. QED
    BY <1>1, <1>3, <1>7, <2>1 DEF DmaInv, ChannelHeld, Held, Usage, hwVars
<1>9. QueueHeld'
  <2>1. \A j \in Queues : qMsg[j] # None => qMsg[j] \in Tasks /\ HasQueue(qMsg[j], j) /\ pc[qMsg[j]] = "pend"
    BY DEF DmaInv, QueueHeld, DmaTypes
  <2>2. \A j \in Queues : HasQueue(t, j) => j = i
    BY <1>0 DEF HasQueue
  <2>3. \A j \in Queues : qMsg'[j] # None => (HasQueue(qMsg[j], j) /\ pc[qMsg[j]] = "pend")'
    <3>1. SUFFICES ASSUME NEW j \in Queues, qMsg'[j] # None
                   PROVE  \E u \in Tasks : u = qMsg'[j] /\ HasQueue(u, j)' /\ pc'[u] = "pend"
      BY DEF HasQueue
    <3>2. j # i /\ qMsg'[j] = qMsg[j]
      BY <1>3, <3>1
    <3>3. QED
      BY <1>3, <1>5, <2>1, <2>2, <3>1, <3>2
  <2>4. QED
    BY <1>0, <1>3, <1>5, <1>6, <2>2, <2>3 DEF DmaInv, QueueHeld
<1>10. Account'
  BY <1>0, <1>1, <1>3, <1>7 DEF DmaInv, Account, Clean, hwVars, Holds, Busy
<1>11. QED
  BY <1>2, <1>4, <1>8, <1>9, <1>10 DEF DmaInv

(* dma_memory_fill gives up only a transfer that never ends.               *)
LEMMA GiveUpKeeps ==
  ASSUME NothingSlow, DmaInv, NEW t \in Tasks, FillGivesUp(t), UNCHANGED others
  PROVE  DmaInv'
<1>a. PICK i \in Queues, d \in Channels : i = q[t] /\ d = ch[t]
  BY DEF FillGivesUp, TimesOut, At, DmaInv, Where
<1>0. /\ pc[t] = "pend" /\ op[t] = "fill" /\ i = q[t] /\ qMsg[i] = None /\ HasQueue(t, i)
      /\ d = ch[t] /\ Holds(t, d) /\ Held(t, d)
  BY <1>a DEF FillGivesUp, TimesOut, At, HasQueue, Holds, Busy, DmaInv, ChannelHeld
<1>1. d \in stalled /\ hw[d] = t
  <2>1. hw[d] = t \/ d \in pending
    BY <1>0 DEF Held
  <2>2. d \in stalled
    <3>1. "slow" \notin May
      BY DEF NothingSlow
    <3>2. QED
      BY <1>0, <2>1, <3>1 DEF FillGivesUp, TimesOut
  <2>3. QED
    BY <2>1, <2>2 DEF DmaInv, Account
<1>2. /\ pc' = [pc EXCEPT ![t] = "reset"] /\ qUsed' = [qUsed EXCEPT ![i] = FALSE]
      /\ UNCHANGED <<target, usage, notify, notifyQ, qMsg, hwVars, op, high, ch, q, left, others>>
  BY <1>0 DEF FillGivesUp, FreeQueue, Go
<1>3. DmaTypes'
  BY <1>2 DEF DmaInv, DmaTypes, Places, hwVars
<1>4. /\ pc'[t] = "reset" /\ \A u \in Tasks : u # t => pc'[u] = pc[u]
      /\ ~qUsed'[i] /\ \A j \in Queues : j # i => qUsed'[j] = qUsed[j]
  BY <1>2 DEF DmaInv, DmaTypes
<1>5. \A u \in Tasks : Where(u)'
  BY <1>0, <1>2, <1>4 DEF DmaInv, Where, Waits
<1>6. \A u \in Tasks, c \in Channels : Holds(u, c)' <=> Holds(u, c)
  BY <1>0, <1>2, <1>4 DEF Holds, Busy
<1>7. \A u \in Tasks, j \in Queues : HasQueue(u, j)' <=> (HasQueue(u, j) /\ u # t)
  BY <1>2, <1>4 DEF HasQueue
<1>8. ChannelHeld'
  <2>1. \A u \in Tasks, c \in Channels : Holds(u, c) /\ u # t => Held(u, c)'
    BY <1>2, <1>4 DEF DmaInv, ChannelHeld, Held, Usage, hwVars
  <2>2. Held(t, d)'
    BY <1>0, <1>1, <1>2, <1>4 DEF Held, Usage, hwVars
  <2>3. \A c \in Channels : Holds(t, c) => c = d
    BY <1>0 DEF Holds
  <2>4. QED
    BY <1>6, <2>1, <2>2, <2>3 DEF DmaInv, ChannelHeld
<1>9. QueueHeld'
  <2>1. \A j \in Queues : qMsg[j] # None => qMsg[j] \in Tasks /\ HasQueue(qMsg[j], j) /\ pc[qMsg[j]] = "pend"
    BY DEF DmaInv, QueueHeld, DmaTypes
  <2>2. \A j \in Queues : HasQueue(t, j) => j = i
    BY <1>0 DEF HasQueue
  <2>3. \A j \in Queues : qMsg'[j] # None => (HasQueue(qMsg[j], j) /\ pc[qMsg[j]] = "pend")'
    <3>1. SUFFICES ASSUME NEW j \in Queues, qMsg'[j] # None
                   PROVE  \E u \in Tasks : u = qMsg'[j] /\ HasQueue(u, j)' /\ pc'[u] = "pend"
      BY DEF HasQueue
    <3>2. j # i /\ qMsg'[j] = qMsg[j]
      BY <1>0, <1>2, <3>1
    <3>3. QED
      BY <1>4, <1>7, <2>1, <2>2, <3>1, <3>2
  <2>4. \A u \in Tasks : HasQueue(u, i) => u = t
    BY <1>0 DEF DmaInv, QueueHeld
  <2>5. QED
    BY <1>0, <1>4, <1>7, <2>2, <2>3, <2>4 DEF DmaInv, QueueHeld
<1>10. Account'
  <2>1. \A c \in Channels :
          /\ usage'[c] = "free" => Clean(c)'
          /\ c \in others' => usage'[c] = "occupied" /\ Clean(c)'
          /\ c \in pending' => c \notin stalled'
          /\ usage'[c] = "normal" => hw'[c] # None \/ c \in pending' \/ \E u \in Tasks : Holds(u, c)'
          /\ usage'[c] = "occupied" => c \in others' \/ \E u \in Tasks : Holds(u, c)'
    BY <1>2, <1>6 DEF DmaInv, Account, Clean, hwVars
  <2>2. \A c \in Channels : notifyQ'[c] # None =>
          \/ c \in stalled'
          \/ \E u \in Tasks : Holds(u, c)' /\ pc'[u] \in {"start", "pend"}
    <3>1. SUFFICES ASSUME NEW c \in Channels, notifyQ'[c] # None, c \notin stalled
                   PROVE  \E u \in Tasks : Holds(u, c)' /\ pc'[u] \in {"start", "pend"}
      BY <1>2 DEF hwVars
    <3>2. \A u \in Tasks : Holds(u, c) => u # t
      BY <1>0, <1>1, <3>1 DEF Holds
    <3>3. QED
      BY <1>2, <1>4, <1>6, <3>1, <3>2 DEF DmaInv, Account
  <2>3. QED
    BY <2>1, <2>2 DEF Account
<1>11. QED
  BY <1>3, <1>5, <1>8, <1>9, <1>10 DEF DmaInv

(* A task gives its own channel back.                                      *)
LEMMA FreeOwnKeeps ==
  ASSUME DmaInv, NEW t \in Tasks, FreeOwn(t), UNCHANGED others
  PROVE  DmaInv'
<1>a. PICK d \in Channels : d = ch[t]
  BY DEF FreeOwn, At, DmaInv, Where
<1>0. pc[t] = "reset" /\ d = ch[t] /\ Holds(t, d) /\ Held(t, d) /\ d \notin others
  BY <1>a DEF FreeOwn, At, Holds, Busy, DmaInv, ChannelHeld, Held
<1>1. /\ pc' = [pc EXCEPT ![t] = "idle"] /\ op' = [op EXCEPT ![t] = None]
      /\ high' = [high EXCEPT ![t] = FALSE]
      /\ ch' = [ch EXCEPT ![t] = NCh] /\ q' = [q EXCEPT ![t] = NQ]
      /\ left' = [left EXCEPT ![t] = {}]
      /\ UNCHANGED <<target, qUsed, qMsg, stalled, others>>
      /\ pending' = pending \ {d}
  BY <1>0 DEF FreeOwn, Return, Go
<1>2. /\ usage' = [c \in Channels |-> IF c = d THEN "free" ELSE usage[c]]
      /\ notify' = [c \in Channels |-> IF c = d THEN None ELSE notify[c]]
      /\ notifyQ' = [c \in Channels |-> IF c = d THEN None ELSE notifyQ[c]]
      /\ hw' = [c \in Channels |-> IF c = d THEN None ELSE hw[c]]
  BY <1>0 DEF FreeOwn, FreeAll
<1>3. DmaTypes'
  BY <1>1, <1>2 DEF DmaInv, DmaTypes, Places
<1>4. /\ pc'[t] = "idle" /\ q'[t] = NQ /\ NQ \notin Queues
      /\ \A u \in Tasks : u # t => /\ pc'[u] = pc[u] /\ op'[u] = op[u] /\ ch'[u] = ch[u] /\ q'[u] = q[u]
  BY <1>1, Sizes DEF DmaInv, DmaTypes
<1>5. /\ usage'[d] = "free" /\ Clean(d)'
      /\ \A c \in Channels : c # d => /\ usage'[c] = usage[c] /\ notify'[c] = notify[c]
                                      /\ notifyQ'[c] = notifyQ[c] /\ hw'[c] = hw[c]
                                      /\ (c \in pending' <=> c \in pending)
  BY <1>1, <1>2 DEF Clean
<1>6. \A u \in Tasks : Where(u)'
  BY <1>0, <1>4 DEF DmaInv, Where, Waits
<1>7. \A u \in Tasks, c \in Channels : Holds(u, c)' <=> (Holds(u, c) /\ u # t)
  BY <1>1, <1>4 DEF Holds, Busy
<1>8. \A u \in Tasks, c \in Channels : Holds(u, c) => (u = t <=> c = d)
  BY <1>0 DEF DmaInv, ChannelHeld, Holds
<1>9. \A u \in Tasks, j \in Queues : HasQueue(u, j)' <=> HasQueue(u, j)
  BY <1>0, <1>4 DEF HasQueue
<1>10. ChannelHeld'
  BY <1>1, <1>4, <1>5, <1>7, <1>8 DEF DmaInv, ChannelHeld, Held, Usage
<1>11. QueueHeld'
  <2>1. \A j \in Queues : qMsg[j] # None => qMsg[j] \in Tasks /\ qMsg[j] # t
    BY <1>0 DEF DmaInv, DmaTypes, QueueHeld
  <2>2. QED
    BY <1>1, <1>4, <1>9, <2>1 DEF DmaInv, QueueHeld
<1>12. Account'
  <2>1. SUFFICES ASSUME NEW c \in Channels
                 PROVE  /\ usage'[c] = "free" => Clean(c)'
                        /\ c \in others' => usage'[c] = "occupied" /\ Clean(c)'
                        /\ c \in pending' => c \notin stalled'
                        /\ usage'[c] = "normal" => \/ hw'[c] # None \/ c \in pending'
                                                   \/ \E u \in Tasks : Holds(u, c)'
                        /\ usage'[c] = "occupied" => c \in others' \/ \E u \in Tasks : Holds(u, c)'
                        /\ notifyQ'[c] # None =>
                             \/ c \in stalled'
                             \/ \E u \in Tasks : Holds(u, c)' /\ pc'[u] \in {"start", "pend"}
    BY DEF Account
  <2>2. CASE c = d
    BY <1>0, <1>1, <1>5, <2>2 DEF Clean
  <2>3. CASE c # d
    BY <1>1, <1>4, <1>5, <1>7, <1>8, <2>3 DEF DmaInv, Account, Clean
  <2>4. QED
    BY <2>2, <2>3
<1>13. QED
  BY <1>3, <1>6, <1>10, <1>11, <1>12 DEF DmaInv

(* Ends that leave channels and queues to the interrupt.                   *)
LEMMA EndKeeps ==
  ASSUME DmaInv, NEW t \in Tasks, PollEnds(t) \/ StopBuffers(t), UNCHANGED others
  PROVE  DmaInv'
<1>1. CASE PollEnds(t)
  <2>1. /\ pc[t] = "poll" /\ pc' = [pc EXCEPT ![t] = "idle"] /\ op' = [op EXCEPT ![t] = None]
        /\ high' = [high EXCEPT ![t] = FALSE]
        /\ ch' = [ch EXCEPT ![t] = NCh] /\ q' = [q EXCEPT ![t] = NQ]
        /\ left' = [left EXCEPT ![t] = {}]
        /\ UNCHANGED <<driverVars, hwVars, others>>
    BY <1>1 DEF PollEnds, At, Return, Go
  <2>2. DmaTypes'
    BY <2>1 DEF DmaInv, DmaTypes, Places, driverVars, hwVars
  <2>3. /\ pc'[t] = "idle" /\ q'[t] = NQ /\ NQ \notin Queues
        /\ \A u \in Tasks : u # t => /\ pc'[u] = pc[u] /\ op'[u] = op[u] /\ ch'[u] = ch[u] /\ q'[u] = q[u]
    BY <2>1, Sizes DEF DmaInv, DmaTypes
  <2>4. q[t] \notin Queues
    BY <2>1 DEF DmaInv, Where, Waits
  <2>5. \A u \in Tasks : Where(u)'
    BY <2>3 DEF DmaInv, Where, Waits
  <2>6. \A u \in Tasks, c \in Channels : Holds(u, c)' <=> Holds(u, c)
    BY <2>1, <2>3 DEF Holds, Busy, driverVars
  <2>7. \A u \in Tasks, j \in Queues : HasQueue(u, j)' <=> HasQueue(u, j)
    BY <2>3, <2>4 DEF HasQueue
  <2>8. ChannelHeld'
    <3>1. \A c \in Channels : ~Holds(t, c)
      BY <2>1 DEF Holds, Busy
    <3>2. QED
      BY <2>1, <2>3, <2>6, <3>1 DEF DmaInv, ChannelHeld, Held, Usage, driverVars, hwVars
  <2>9. QueueHeld'
    <3>1. \A j \in Queues : qMsg[j] # None => qMsg[j] \in Tasks /\ qMsg[j] # t
      BY <2>1 DEF DmaInv, DmaTypes, QueueHeld
    <3>2. QED
      BY <2>1, <2>3, <2>7, <3>1 DEF DmaInv, QueueHeld, driverVars
  <2>10. Account'
    BY <2>1, <2>3, <2>6 DEF DmaInv, Account, Clean, driverVars, hwVars
  <2>11. QED
    BY <2>2, <2>5, <2>8, <2>9, <2>10 DEF DmaInv
<1>2. CASE StopBuffers(t)
  <2>1. PICK d \in Channels : d = ch[t]
    BY <1>2 DEF StopBuffers, At, DmaInv, Where
  <2>2. pc[t] = "run" /\ op[t] = "dbuf" /\ d = ch[t] /\ Holds(t, d) /\ Held(t, d) /\ usage[d] = "occupied"
    BY <1>2, <2>1 DEF StopBuffers, At, DmaInv, Where, Holds, Busy, ChannelHeld, Held, Usage
  <2>3. /\ pc' = [pc EXCEPT ![t] = "reset"]
        /\ UNCHANGED <<driverVars, hwVars, op, high, ch, q, left, others>>
    BY <1>2, <2>2 DEF StopBuffers, Go
  <2>4. DmaTypes'
    BY <2>3 DEF DmaInv, DmaTypes, Places, driverVars, hwVars
  <2>5. pc'[t] = "reset" /\ \A u \in Tasks : u # t => pc'[u] = pc[u]
    BY <2>3 DEF DmaInv, DmaTypes
  <2>6. q[t] \notin Queues
    BY <2>2 DEF DmaInv, Where, Waits
  <2>7. \A u \in Tasks : Where(u)'
    BY <2>2, <2>3, <2>5 DEF DmaInv, Where, Waits
  <2>8. \A u \in Tasks, c \in Channels : Holds(u, c)' <=> Holds(u, c)
    BY <2>2, <2>3, <2>5 DEF Holds, Busy, driverVars
  <2>9. \A u \in Tasks, j \in Queues : HasQueue(u, j)' <=> HasQueue(u, j)
    BY <2>3, <2>5, <2>6 DEF HasQueue
  <2>10. ChannelHeld'
    <3>1. \A u \in Tasks, c \in Channels : Holds(u, c) /\ u # t => Held(u, c)'
      BY <2>3, <2>5 DEF DmaInv, ChannelHeld, Held, Usage, driverVars, hwVars
    <3>2. Held(t, d)'
      BY <2>2, <2>3, <2>5 DEF Held, Usage, driverVars, hwVars
    <3>3. \A c \in Channels : Holds(t, c) => c = d
      BY <2>2 DEF Holds
    <3>4. QED
      BY <2>8, <3>1, <3>2, <3>3 DEF DmaInv, ChannelHeld
  <2>11. QueueHeld'
    <3>1. \A j \in Queues : qMsg[j] # None => qMsg[j] \in Tasks /\ qMsg[j] # t
      BY <2>2 DEF DmaInv, DmaTypes, QueueHeld
    <3>2. QED
      BY <2>3, <2>5, <2>9, <3>1 DEF DmaInv, QueueHeld, driverVars
  <2>12. Account'
    BY <2>2, <2>3, <2>5, <2>8 DEF DmaInv, Account, Clean, driverVars, hwVars
  <2>13. QED
    BY <2>4, <2>7, <2>10, <2>11, <2>12 DEF DmaInv
<1>3. QED
  BY <1>1, <1>2

-----------------------------------------------------------------------------
(* The channels and the interrupt.                                         *)

LEMMA HwKeeps ==
  ASSUME DmaInv, NEW d \in Channels, HwDone(d)
  PROVE  DmaInv'
<1>1. /\ hw[d] # None /\ d \notin stalled /\ d \notin pending /\ pending' = pending \cup {d}
      /\ hw' \in {hw, [hw EXCEPT ![d] = None]}
      /\ op[hw[d]] = "dbuf" => hw' = hw
      /\ UNCHANGED <<driverVars, taskVars, stalled, others>>
  BY DEF HwDone
<1>2. DmaTypes'
  BY <1>1 DEF DmaInv, DmaTypes, driverVars, taskVars
<1>3. \A c \in Channels : c # d => hw'[c] = hw[c] /\ (c \in pending' <=> c \in pending)
  BY <1>1 DEF DmaInv, DmaTypes
<1>4. \A u \in Tasks : Where(u)'
  BY <1>1 DEF DmaInv, Where, Waits, taskVars
<1>5. \A u \in Tasks, c \in Channels : Holds(u, c)' <=> Holds(u, c)
  BY <1>1 DEF Holds, Busy, taskVars, driverVars
<1>6. \A u \in Tasks, j \in Queues : HasQueue(u, j)' <=> HasQueue(u, j)
  BY <1>1 DEF HasQueue, taskVars
<1>7. ChannelHeld'
  <2>1. SUFFICES ASSUME NEW u \in Tasks, NEW c \in Channels, Holds(u, c) PROVE Held(u, c)'
    BY <1>5 DEF DmaInv, ChannelHeld
  <2>2. Held(u, c) /\ Busy(u) /\ (pc[u] = "reset" => op[u] \in {"fill", "dbuf"}) /\ (pc[u] = "run" => op[u] = "dbuf")
    BY <2>1 DEF DmaInv, ChannelHeld, Holds, Where
  <2>3. CASE c # d
    BY <1>1, <1>3, <2>2, <2>3 DEF Held, Usage, taskVars, driverVars
  <2>4. CASE c = d
    <3>1. pc[u] \notin {"clear", "notify", "start"}
      BY <1>1, <2>2, <2>4 DEF Held
    <3>2. pc[u] \in {"run", "reset"} => hw[d] = u /\ op[u] = "dbuf"
      BY <1>1, <2>2, <2>4 DEF Held
    <3>3. pc[u] \in {"run", "reset"} => hw' = hw
      BY <1>1, <3>2
    <3>4. QED
      BY <1>1, <2>2, <2>4, <3>1, <3>2, <3>3 DEF Held, Usage, taskVars, driverVars
  <2>5. QED
    BY <2>3, <2>4
<1>8. QueueHeld'
  <2>1. \A j \in Queues : qMsg[j] # None => qMsg[j] \in Tasks
    BY DEF DmaInv, DmaTypes
  <2>2. QED
    BY <1>1, <1>6, <2>1 DEF DmaInv, QueueHeld, taskVars, driverVars
<1>9. Account'
  BY <1>1, <1>3, <1>5 DEF DmaInv, Account, Clean, taskVars, driverVars
<1>10. QED
  BY <1>2, <1>4, <1>7, <1>8, <1>9 DEF DmaInv

(* What the interrupt finds: the transfer of a pending channel is that of  *)
(* the one task that waits on the channel's queue.                         *)
LEMMA PostedIsHolder ==
  ASSUME DmaInv, NEW c \in pending, NEW i \in Queues, notifyQ[c] = i
  PROVE  \E u \in Tasks : /\ Holds(u, c) /\ pc[u] = "pend" /\ q[u] = i /\ HasQueue(u, i)
                          /\ Ended(c) = u /\ usage[c] = "normal"
<1>1. c \in Channels /\ notifyQ[c] # None /\ c \notin stalled
  BY Sizes DEF DmaInv, DmaTypes, Account
<1>2. PICK u \in Tasks : Holds(u, c) /\ pc[u] \in {"start", "pend"}
  BY <1>1 DEF DmaInv, Account
<1>3. Held(u, c)
  BY <1>1, <1>2 DEF DmaInv, ChannelHeld
<1>4. pc[u] = "pend" /\ Waits(u) /\ q[u] \in Queues
  BY <1>2, <1>3 DEF Held, DmaInv, Where
<1>5. q[u] = i /\ usage[c] = "normal" /\ notify[c] # None /\ notify[c][1] = u
  BY <1>1, <1>3, <1>4 DEF Held, Waits, Usage
<1>6. QED
  BY <1>2, <1>4, <1>5 DEF HasQueue, Ended

LEMMA IsrKeeps ==
  ASSUME DmaInv, Isr
  PROVE  DmaInv'
<1>1. Served = pending /\ \A c \in pending : c \in Channels /\ usage[c] # "free"
  BY DEF DmaInv, DmaTypes, Account, Clean, Served
<1>2. Freed = {c \in pending : usage[c] = "normal"}
  BY <1>1 DEF Freed
<1>3. /\ pending' = {} /\ UNCHANGED <<stalled, target, qUsed, pc, op, high, ch, q, others>>
      /\ usage' = [c \in Channels |-> IF c \in Freed THEN "free" ELSE usage[c]]
      /\ notify' = [c \in Channels |-> IF c \in Freed THEN None ELSE notify[c]]
      /\ notifyQ' = [c \in Channels |-> IF c \in Freed THEN None ELSE notifyQ[c]]
      /\ hw' = [c \in Channels |-> IF c \in Freed THEN None ELSE hw[c]]
      /\ left' = [t \in Tasks |-> left[t] \ {k \in {1, 2} : \E c \in Served : notify[c] = <<t, k>>}]
      /\ qMsg' = [i \in Queues |-> IF qMsg[i] = None /\ Posted(i, Served) # {}
                                   THEN Ended(First(Posted(i, Served))) ELSE qMsg[i]]
  BY DEF Isr, FreeAll, Write, Post
<1>4. \A i \in Queues : qMsg'[i] # qMsg[i] =>
        \E c \in pending, u \in Tasks :
          /\ notifyQ[c] = i /\ qMsg'[i] = u /\ Holds(u, c) /\ pc[u] = "pend" /\ HasQueue(u, i)
          /\ usage[c] = "normal"
  <2>1. SUFFICES ASSUME NEW i \in Queues, qMsg'[i] # qMsg[i]
                 PROVE  \E c \in pending, u \in Tasks :
                          /\ notifyQ[c] = i /\ qMsg'[i] = u /\ Holds(u, c) /\ pc[u] = "pend"
                          /\ HasQueue(u, i) /\ usage[c] = "normal"
    OBVIOUS
  <2>2. Posted(i, Served) # {} /\ qMsg'[i] = Ended(First(Posted(i, Served)))
    BY <1>3, <2>1
  <2>3. Posted(i, Served) \subseteq Nat
    BY <1>1, Sizes DEF Posted
  <2>4. PICK c \in pending : c = First(Posted(i, Served)) /\ notifyQ[c] = i
    <3>1. First(Posted(i, Served)) \in Posted(i, Served)
      BY <2>2, <2>3, FirstIn
    <3>2. QED
      BY <1>1, <3>1 DEF Posted
  <2>5. PICK u \in Tasks : /\ Holds(u, c) /\ pc[u] = "pend" /\ HasQueue(u, i)
                          /\ Ended(c) = u /\ usage[c] = "normal"
    BY <2>4, PostedIsHolder
  <2>6. QED
    BY <2>2, <2>4, <2>5
<1>5. \A i \in Queues : qMsg[i] # None => qMsg'[i] = qMsg[i]
  BY <1>3
<1>6. \A c \in pending, u \in Tasks : Holds(u, c) /\ pc[u] = "pend" => qMsg'[q[u]] # None
  <2>1. SUFFICES ASSUME NEW c \in pending, NEW u \in Tasks, Holds(u, c), pc[u] = "pend"
                 PROVE  qMsg'[q[u]] # None
    OBVIOUS
  <2>2. PICK i \in Queues : i = q[u] /\ notifyQ[c] = i
    BY <1>1, <2>1 DEF DmaInv, ChannelHeld, Held, Where
  <2>3. qMsg[i] = None /\ Posted(i, Served) # {}
    BY <1>1, <2>1, <2>2 DEF Holds, Busy, Posted
  <2>4. Posted(i, Served) \subseteq Nat
    BY <1>1, Sizes DEF Posted
  <2>5. First(Posted(i, Served)) \in Posted(i, Served)
    BY <2>3, <2>4, FirstIn
  <2>6. PICK d \in pending : d = First(Posted(i, Served)) /\ notifyQ[d] = i
    BY <1>1, <2>5 DEF Posted
  <2>7. Ended(d) \in Tasks
    BY <2>6, PostedIsHolder
  <2>8. qMsg'[i] = Ended(d)
    BY <1>3, <2>3, <2>6
  <2>9. QED
    BY <2>2, <2>7, <2>8, Sizes
<1>7. \A u \in Tasks, c \in Channels : Holds(u, c)' => Holds(u, c) /\ c \notin Freed
  <2>1. SUFFICES ASSUME NEW u \in Tasks, NEW c \in Channels, Holds(u, c)'
                 PROVE  Holds(u, c) /\ c \notin Freed
    OBVIOUS
  <2>2. pc[u] = "pend" => q[u] \in Queues
    BY DEF DmaInv, Where
  <2>3. Holds(u, c)
    BY <1>3, <1>5, <2>1, <2>2 DEF Holds, Busy
  <2>4. Held(u, c) /\ (pc[u] = "reset" => op[u] \in {"fill", "dbuf"}) /\ (pc[u] = "run" => op[u] = "dbuf")
    BY <2>3 DEF DmaInv, ChannelHeld, Where
  <2>5. pc[u] = "pend" => c \notin pending
    BY <1>3, <1>6, <2>1, <2>3 DEF Holds, Busy
  <2>6. pc[u] \in {"run", "reset"} => c \notin pending \/ usage[c] = "occupied"
    BY <2>4 DEF Held, Usage, DmaInv, Account
  <2>7. QED
    BY <1>2, <2>3, <2>4, <2>5, <2>6 DEF Held, Holds, Busy
<1>8. \A c \in Channels : c \notin Freed => /\ usage'[c] = usage[c] /\ notify'[c] = notify[c]
                                            /\ notifyQ'[c] = notifyQ[c] /\ hw'[c] = hw[c]
  BY <1>3
<1>9. \A c \in Freed : c \in Channels /\ usage'[c] = "free" /\ Clean(c)'
  BY <1>1, <1>2, <1>3 DEF Clean
<1>10. DmaTypes'
  <2>1. qMsg' \in [Queues -> Tasks \cup {None}]
    <3>1. \A i \in Queues : qMsg'[i] \in Tasks \cup {None}
      BY <1>4 DEF DmaInv, DmaTypes
    <3>2. QED
      BY <1>3, <3>1
  <2>2. left' \in [Tasks -> SUBSET {1, 2}]
    BY <1>3 DEF DmaInv, DmaTypes
  <2>3. QED
    BY <1>3, <2>1, <2>2 DEF DmaInv, DmaTypes
<1>11. \A u \in Tasks : Where(u)'
  BY <1>3 DEF DmaInv, Where, Waits
<1>12. \A u \in Tasks, j \in Queues : HasQueue(u, j)' <=> HasQueue(u, j)
  BY <1>3 DEF HasQueue
<1>13. ChannelHeld'
  <2>1. \A u \in Tasks, c \in Channels : Holds(u, c)' => Held(u, c)'
    <3>1. SUFFICES ASSUME NEW u \in Tasks, NEW c \in Channels, Holds(u, c)' PROVE Held(u, c)'
      OBVIOUS
    <3>2. Holds(u, c) /\ c \notin Freed /\ Held(u, c)
      BY <1>7, <3>1 DEF DmaInv, ChannelHeld
    <3>3. pc[u] = "pend" => c \notin pending
      BY <1>3, <1>6, <3>1, <3>2 DEF Holds, Busy
    <3>4. QED
      BY <1>3, <1>8, <3>2, <3>3 DEF Held, Usage
  <2>2. QED
    BY <1>7, <2>1 DEF DmaInv, ChannelHeld
<1>14. QueueHeld'
  <2>1. \A j \in Queues : qMsg'[j] # None =>
          \E u \in Tasks : u = qMsg'[j] /\ HasQueue(u, j) /\ pc[u] = "pend"
    <3>1. SUFFICES ASSUME NEW j \in Queues, qMsg'[j] # None
                   PROVE  \E u \in Tasks : u = qMsg'[j] /\ HasQueue(u, j) /\ pc[u] = "pend"
      OBVIOUS
    <3>2. CASE qMsg'[j] = qMsg[j]
      BY <3>1, <3>2 DEF DmaInv, QueueHeld, DmaTypes
    <3>3. CASE qMsg'[j] # qMsg[j]
      BY <1>4, <3>3
    <3>4. QED
      BY <3>2, <3>3
  <2>2. \A j \in Queues : qMsg'[j] # None => (HasQueue(qMsg[j], j) /\ pc[qMsg[j]] = "pend")'
    BY <1>3, <2>1 DEF HasQueue
  <2>3. QED
    BY <1>3, <1>12, <2>2 DEF DmaInv, QueueHeld
<1>15. Account'
  <2>1. SUFFICES ASSUME NEW c \in Channels
                 PROVE  /\ usage'[c] = "free" => Clean(c)'
                        /\ c \in others' => usage'[c] = "occupied" /\ Clean(c)'
                        /\ c \in pending' => c \notin stalled'
                        /\ usage'[c] = "normal" => \/ hw'[c] # None \/ c \in pending'
                                                   \/ \E u \in Tasks : Holds(u, c)'
                        /\ usage'[c] = "occupied" => c \in others' \/ \E u \in Tasks : Holds(u, c)'
                        /\ notifyQ'[c] # None =>
                             \/ c \in stalled'
                             \/ \E u \in Tasks : Holds(u, c)' /\ pc'[u] \in {"start", "pend"}
    BY DEF Account
  <2>2. CASE c \in Freed
    <3>1. c \notin others
      BY <1>2, <2>2 DEF DmaInv, Account
    <3>2. QED
      BY <1>3, <1>9, <2>2, <3>1 DEF Clean
  <2>3. CASE c \notin Freed
    <3>1. /\ usage'[c] = "free" => Clean(c)'
          /\ c \in others' => usage'[c] = "occupied" /\ Clean(c)'
          /\ c \in pending' => c \notin stalled'
      BY <1>3, <1>8, <2>3 DEF DmaInv, Account, Clean
    (* a task that loses its hold on c has been woken by the end of c       *)
    <3>2. \A u \in Tasks : Holds(u, c) => Holds(u, c)' \/ (pc[u] = "pend" /\ usage[c] = "normal")
      BY <1>3 DEF Holds, Busy, DmaInv, ChannelHeld, Held, Usage, Where, Waits
    <3>3. \A u \in Tasks : Holds(u, c) /\ pc[u] = "pend" => Holds(u, c)'
      <4>1. SUFFICES ASSUME NEW u \in Tasks, Holds(u, c), pc[u] = "pend" PROVE Holds(u, c)'
        OBVIOUS
      <4>2. PICK i \in Queues : i = q[u] /\ qMsg[i] = None /\ HasQueue(u, i)
        BY <4>1 DEF Holds, Busy, DmaInv, Where, HasQueue
      <4>3. qMsg'[i] = qMsg[i]
        <5>1. SUFFICES ASSUME qMsg'[i] # qMsg[i] PROVE FALSE
          OBVIOUS
        <5>2. PICK d \in pending, v \in Tasks : Holds(v, d) /\ HasQueue(v, i) /\ usage[d] = "normal"
          BY <1>4, <5>1
        <5>3. v = u
          BY <4>2, <5>2 DEF DmaInv, QueueHeld
        <5>4. QED
          BY <1>2, <2>3, <4>1, <5>2, <5>3 DEF Holds
      <4>4. QED
        BY <1>3, <4>1, <4>2, <4>3 DEF Holds, Busy
    <3>4. \A u \in Tasks : Holds(u, c) => Holds(u, c)'
      BY <3>2, <3>3
    <3>5. usage[c] = "normal" => c \notin pending
      BY <1>2, <2>3
    <3>6. QED
      BY <1>3, <1>8, <2>3, <3>1, <3>4, <3>5 DEF DmaInv, Account
  <2>4. QED
    BY <2>2, <2>3
<1>16. QED
  BY <1>10, <1>11, <1>13, <1>14, <1>15 DEF DmaInv

-----------------------------------------------------------------------------
(* The theorems.                                                           *)

LEMMA DmaInvariant ==
  ASSUME NothingSlow
  PROVE  Spec => []DmaInv
<1>1. Init => DmaInv
  <2>1. SUFFICES ASSUME Init PROVE DmaInv
    OBVIOUS
  <2>2. DmaTypes
    <3>1. others \subseteq Channels
      BY <2>1, MayAssumption DEF Init
    <3>2. QED
      BY <2>1, <3>1 DEF Init, DmaTypes, Places
  <2>3. \A t \in Tasks : Where(t)
    BY <2>1, Sizes DEF Init, Where
  <2>4. \A t \in Tasks, c \in Channels : ~Holds(t, c)
    BY <2>1 DEF Init, Holds, Busy
  <2>5. \A t \in Tasks, i \in Queues : ~HasQueue(t, i)
    BY <2>1, Sizes DEF Init, HasQueue
  <2>6. ChannelHeld
    BY <2>4 DEF ChannelHeld
  <2>7. QueueHeld
    BY <2>1, <2>5 DEF Init, QueueHeld
  <2>8. Account
    BY <2>1 DEF Init, Account, Clean
  <2>9. QED
    BY <2>2, <2>3, <2>6, <2>7, <2>8 DEF DmaInv
<1>2. DmaInv /\ [Next]_vars => DmaInv'
  <2>1. SUFFICES ASSUME DmaInv, [Next]_vars PROVE DmaInv'
    OBVIOUS
  <2>2. CASE \E c \in Channels : HwDone(c)
    BY <2>1, <2>2, HwKeeps
  <2>3. CASE Isr
    BY <2>1, <2>3, IsrKeeps
  <2>4. ASSUME NEW t \in Tasks, Step(t) PROVE DmaInv'
    <3>1. UNCHANGED others
      BY <2>4 DEF Step
    <3>2. CASE \E o \in Does[t] : Call(t, o)
      BY <2>1, <3>1, <3>2, CallKeeps
    <3>3. CASE GetQueue(t)
      BY <2>1, <3>1, <3>3, GetQueueKeeps
    <3>4. CASE FlushQueue(t)
      BY <2>1, <3>1, <3>4, FlushKeeps
    <3>5. CASE SetTarget(t) \/ ClearTarget(t)
      BY <2>1, <3>1, <3>5, TargetKeeps
    <3>6. CASE GetChannel(t)
      BY <2>1, <3>1, <3>6, GetChannelKeeps
    <3>7. CASE Refused(t)
      BY <2>1, <3>1, <3>7, RefusedKeeps
    <3>8. CASE SetNotify(t)
      BY <2>1, <3>1, <3>8, SetNotifyKeeps
    <3>9. CASE Start(t)
      BY <2>1, <3>1, <3>9, StartKeeps
    <3>10. CASE PendReturns(t)
      BY <2>1, <3>1, <3>10, PendKeeps
    <3>11. CASE FillGivesUp(t)
      BY <2>1, <3>1, <3>11, GiveUpKeeps
    <3>12. CASE FreeOwn(t)
      BY <2>1, <3>1, <3>12, FreeOwnKeeps
    <3>13. CASE PollEnds(t) \/ StopBuffers(t)
      BY <2>1, <3>1, <3>13, EndKeeps
    <3>14. QED
      BY <2>4, <3>2, <3>3, <3>4, <3>5, <3>6, <3>7, <3>8, <3>9, <3>10, <3>11, <3>12, <3>13
      DEF Step, Progress
  <2>5. CASE UNCHANGED vars
    <3>1. DmaTypes' /\ (\A t \in Tasks : Where(t)')
      BY <2>1, <2>5 DEF DmaInv, DmaTypes, Where, Waits, vars, driverVars, hwVars, taskVars
    <3>2. ChannelHeld'
      BY <2>1, <2>5 DEF DmaInv, ChannelHeld, Held, Holds, Busy, Usage, vars, driverVars, hwVars, taskVars
    <3>3. QueueHeld'
      BY <2>1, <2>5 DEF DmaInv, QueueHeld, HasQueue, vars, driverVars, hwVars, taskVars
    <3>4. Account'
      BY <2>1, <2>5 DEF DmaInv, Account, Clean, Holds, Busy, vars, driverVars, hwVars, taskVars
    <3>5. QED
      BY <3>1, <3>2, <3>3, <3>4 DEF DmaInv
  <2>6. QED
    BY <2>1, <2>2, <2>3, <2>4, <2>5 DEF Next
<1>3. QED
  BY <1>1, <1>2, PTL DEF Spec

(* A channel that a task programs is its own: nobody else programs it, no  *)
(* transfer runs on it and the interrupt has nothing to do with it, for    *)
(* every number of tasks, channels and queues.                             *)
THEOREM ChannelAlwaysMine ==
  ASSUME NothingSlow
  PROVE  Spec => []ChannelMine
<1>1. DmaInv => ChannelMine
  <2>1. SUFFICES ASSUME DmaInv, NEW t \in Tasks, NEW c \in Channels, SetsUp(t, c)
                 PROVE  /\ usage[c] # "free" /\ hw[c] = None /\ c \notin pending /\ c \notin others
                        /\ \A u \in Tasks : SetsUp(u, c) => u = t
    BY DEF ChannelMine
  <2>2. \A u \in Tasks : SetsUp(u, c) => Holds(u, c)
    BY DEF SetsUp, Holds, Busy
  <2>3. Held(t, c)
    BY <2>1, <2>2 DEF DmaInv, ChannelHeld
  <2>4. QED
    BY <2>1, <2>2, <2>3 DEF Held, Usage, SetsUp, DmaInv, ChannelHeld
<1>2. QED
  BY <1>1, DmaInvariant, PTL

(* The message that wakes a task is about the end of its own transfer.     *)
THEOREM CompletionAlwaysMine ==
  ASSUME NothingSlow
  PROVE  Spec => []CompletionIsMine
<1>1. DmaInv => CompletionIsMine
  <2>1. SUFFICES ASSUME DmaInv, NEW t \in Tasks, pc[t] = "pend", qMsg[q[t]] # None
                 PROVE  qMsg[q[t]] = t
    BY DEF CompletionIsMine
  <2>2. q[t] \in Queues /\ HasQueue(t, q[t])
    BY <2>1 DEF DmaInv, Where, HasQueue
  <2>3. qMsg[q[t]] \in Tasks /\ HasQueue(qMsg[q[t]], q[t])
    BY <2>1, <2>2 DEF DmaInv, QueueHeld, DmaTypes
  <2>4. QED
    BY <2>1, <2>2, <2>3 DEF DmaInv, QueueHeld
<1>2. QED
  BY <1>1, DmaInvariant, PTL

(* When no call is under way and the hardware rests, every channel and     *)
(* every queue is free again.                                              *)
THEOREM NothingEverKept ==
  ASSUME NothingSlow
  PROVE  Spec => []NothingKept
<1>1. DmaInv => NothingKept
  <2>1. SUFFICES ASSUME DmaInv, \A t \in Tasks : pc[t] = "idle", \A c \in Channels : hw[c] = None,
                        pending = {}
                 PROVE  /\ \A c \in Channels \ others :
                              usage[c] = "free" /\ notify[c] = None /\ notifyQ[c] = None
                        /\ \A i \in Queues : ~qUsed[i]
    BY DEF NothingKept
  <2>2. \A t \in Tasks, c \in Channels : ~Holds(t, c)
    BY <2>1 DEF Holds, Busy
  <2>3. \A t \in Tasks, i \in Queues : ~HasQueue(t, i)
    BY <2>1 DEF HasQueue, DmaInv, Where
  <2>4. \A c \in Channels \ others : usage[c] = "free"
    BY <2>1, <2>2 DEF DmaInv, Account, DmaTypes
  <2>5. QED
    BY <2>1, <2>3, <2>4 DEF DmaInv, Account, Clean, QueueHeld
<1>2. QED
  BY <1>1, DmaInvariant, PTL
=============================================================================
