--------------------------- MODULE UsbModeProofs ---------------------------
(***************************************************************************)
(* Proofs about the camera at a computer.  The disk: where the blocks are  *)
(* while card and link work at the same time, and that this is a block     *)
(* device.  The web camera: who has which video buffer.                    *)
(***************************************************************************)
EXTENDS UsbMode, FiniteSetTheorems, TLAPS

-----------------------------------------------------------------------------
(* The disk.                                                               *)

Transfer == [st : {"idle", "run", "ok", "bad"}, buf : {0, 1}, blk : Nat]

DiskTypes ==
  /\ card \in [0..(Blocks - 1) -> Data]
  /\ cmd \in {"none", "read", "write"} /\ lba \in Nat /\ len \in Nat
  /\ sent \in Seq(Data) /\ got \in Seq(Data)
  /\ status \in {"none", "good", "bad"}
  /\ i \in Nat /\ a \in {0, 1} /\ ret \in BOOLEAN
  /\ buf \in [0..1 -> Data]
  /\ sd \in Transfer /\ link \in Transfer
  /\ arrived \in Nat

ReadPc  == {"fetch", "fetched", "drain", "send", "final"}
WritePc == {"receive", "loop", "received", "put", "stored"}

(* Which command is where.                                                 *)
Place ==
  /\ pc \in {"idle", "end"} \cup ReadPc \cup WritePc
  /\ pc \in ReadPc => cmd = "read"
  /\ pc \in WritePc => cmd = "write"
  /\ pc \in ReadPc \cup WritePc => lba + len <= Blocks /\ i < len
  /\ pc # "idle" => status = "none" /\ cmd # "none"
  /\ pc = "idle" => sd = Quiet /\ link = Quiet
  /\ cmd = "none" => status = "none"
  /\ cmd # "none" => pc # "idle" \/ status # "none"
  /\ cmd = "write" => Len(sent) = len

(* The host has the first n blocks, as they are on the card.               *)
GotFirst(n) == Len(got) = n /\ \A k \in 1..n : got[k] = card[lba + k - 1]

(* The card has the first n blocks of the host.                            *)
Stores(n) == \A k \in 0..(n - 1) : card[lba + k] = sent[k + 1]

(* A read: the card fills A with block i while the link empties B of the   *)
(* block before it.                                                        *)
ReadInv ==
  /\ cmd = "read" /\ sd.st = "run" => pc = "fetched"
  /\ pc = "fetched" => sd.st # "idle" /\ sd.buf = a /\ sd.blk = i /\ (sd.st = "bad" => i = 0)
  /\ (pc = "fetched" /\ sd.st = "ok") \/ pc \in {"drain", "send"} => buf[a] = card[lba + i]
  /\ pc \in {"fetch", "fetched", "drain"} =>
       /\ i = 0 => link.st = "idle" /\ GotFirst(0)
       /\ i # 0 => link.st # "idle" /\ link.buf = B
       /\ link.st = "run" => GotFirst(i - 1) /\ buf[B] = card[lba + i - 1]
       /\ link.st = "ok" => GotFirst(i)
  /\ pc = "drain" => i # 0
  /\ pc = "send" => GotFirst(i) /\ link.st # "run"
  /\ pc = "final" => /\ i = len - 1 /\ link.st # "idle" /\ link.buf = a
                     /\ link.st = "run" => GotFirst(i) /\ buf[a] = card[lba + i]
                     /\ link.st = "ok" => GotFirst(len)
  /\ pc = "end" /\ cmd = "read" /\ ret => GotFirst(len) /\ link.st # "run" /\ lba + len <= Blocks

(* A write: the link fills B with block i while the card empties A of the  *)
(* block before it.                                                        *)
WriteInv ==
  /\ cmd = "write" /\ sd.st = "run" => pc \in {"receive", "loop", "stored"}
  /\ pc \in {"receive", "loop"} =>
       /\ i = 0 => sd.st = "idle"
       /\ i # 0 => /\ sd.st # "idle" /\ sd.buf = a /\ sd.blk = i - 1 /\ Stores(i - 1)
                   /\ sd.st = "run" => buf[a] = sent[i]
                   /\ sd.st = "ok" => Stores(i)
  /\ pc = "receive" => link.st # "run" /\ arrived = i
  /\ pc \in {"received", "put"} => Stores(i) /\ sd.st # "run"
  /\ pc \in {"loop", "received"} =>
       /\ link.st # "idle" /\ link.buf = B
       /\ link.st = "run" => arrived = i
       /\ link.st = "ok" => arrived = i + 1 /\ buf[B] = sent[i + 1]
  /\ pc = "put" => arrived = i + 1 /\ buf[B] = sent[i + 1] /\ link.st # "run"
  /\ pc = "stored" => /\ i = len - 1 /\ sd.st # "idle" /\ sd.buf = B /\ sd.blk = i /\ Stores(i) /\ link.st # "run"
                      /\ sd.st = "run" => buf[B] = sent[i + 1]
                      /\ sd.st = "ok" => Stores(len)
  /\ pc = "end" /\ cmd = "write" /\ ret => Stores(len) /\ lba + len <= Blocks

(* The card delivers each block of a command after the first: the case in  *)
(* which the code is right (GoodReadIsRight is the other).                 *)
LaterReadsWork == "later read" \notin May

DiskInv == DiskTypes /\ Place /\ ReadInv /\ WriteInv

(* Junk is one of the things a buffer can hold.                            *)
LEMMA JunkIsData == Junk \in Data /\ Junk \in Nat
BY SizeAssumption DEF Junk, Data

(* What a buffer is after a block came into it.                            *)
LEMMA Filled ==
  ASSUME NEW f \in [0..1 -> Data], NEW b \in {0, 1}, NEW d \in Data, NEW g, g = [f EXCEPT ![b] = d]
  PROVE  g \in [0..1 -> Data] /\ g[b] = d /\ g[1 - b] = f[1 - b]
OBVIOUS

(* What a transfer is when it is started, and when it has ended.           *)
LEMMA Started ==
  ASSUME DiskTypes, NEW b \in {0, 1}
  PROVE  Going(b) \in Transfer /\ Going(b).st = "run" /\ Going(b).buf = b /\ Going(b).blk = i
BY DEF DiskTypes, Going, Transfer

(* The same of a transfer that ends.                                       *)
LEMMA HasEnded ==
  ASSUME NEW t \in Transfer, NEW s \in {"ok", "bad"}, NEW u, u = [t EXCEPT !.st = s]
  PROVE  u \in Transfer /\ u.st = s /\ u.buf = t.buf /\ u.blk = t.blk
BY DEF Transfer

(* The invariant holds at first.                                           *)
LEMMA DiskInitKeeps == ASSUME DiskInit PROVE DiskInv
<1>1. DiskTypes
  BY SizeAssumption, JunkIsData DEF DiskInit, DiskTypes, Quiet, Transfer, Data, Junk
<1>2. Place /\ ReadInv /\ WriteInv
  BY DEF DiskInit, Place, ReadPc, WritePc, ReadInv, WriteInv, Quiet
<1> QED BY <1>1, <1>2 DEF DiskInv

(* The invariant holds after Ask: the buffers hold nothing yet.            *)
LEMMA AskKeeps ==
  ASSUME DiskInv, NEW c \in {"read", "write"}, NEW from \in 0..(Blocks - 1), NEW n \in 1..MaxLen,
         Ask(c, from, n)
  PROVE  DiskInv'
<1>1. n \in Nat /\ from \in Nat /\ \A k \in 1..n : Blocks + from + k - 1 \in Data
  BY SizeAssumption DEF Data, Junk
<1>2. DiskTypes'
  <2>1. sent' \in Seq(Data) /\ got' \in Seq(Data)
    BY <1>1 DEF Ask
  <2>2. sd' \in Transfer /\ link' \in Transfer
    BY DEF Ask, Quiet, Transfer
  <2>3. buf' \in [0..1 -> Data] /\ ret' \in BOOLEAN
    BY JunkIsData DEF Ask
  <2>4. card' \in [0..(Blocks - 1) -> Data] /\ cmd' \in {"none", "read", "write"}
        /\ status' \in {"none", "good", "bad"}
    BY DEF Ask, DiskInv, DiskTypes
  <2>5. lba' \in Nat /\ len' \in Nat /\ i' \in Nat /\ a' \in {0, 1} /\ arrived' \in Nat
    BY <1>1 DEF Ask
  <2> QED BY <2>1, <2>2, <2>3, <2>4, <2>5 DEF DiskTypes
<1>3. Place'
  BY <1>1 DEF DiskInv, Place, ReadPc, WritePc, Ask
<1>4. ReadInv' /\ WriteInv'
  BY <1>1 DEF DiskInv, DiskTypes, Place, ReadInv, WriteInv, GotFirst, Quiet, Ask
<1> QED BY <1>2, <1>3, <1>4 DEF DiskInv

(* The invariant holds after Fetch: the card starts on the next block. *)
LEMMA FetchKeeps == ASSUME DiskInv, Fetch PROVE DiskInv'
<1>1. DiskTypes'
  <2>1. a \in {0, 1} /\ B \in {0, 1} /\ Going(a) \in Transfer
    BY Started DEF DiskInv, DiskTypes, B
  <2>2. buf' \in [0..1 -> Data] /\ a' \in {0, 1} /\ i' \in Nat
    BY <2>1, Filled, JunkIsData DEF DiskInv, DiskTypes, Fetch, Filling, StartFails
  <2> QED BY <2>1, <2>2 DEF DiskInv, DiskTypes, command, Fetch, Filling, StartFails
<1>2. Place'
  BY SizeAssumption DEF DiskInv, DiskTypes, Place, ReadPc, WritePc, Transfer, Quiet, command, Fetch, Filling, Going, StartFails
<1>3. ReadInv'
  BY SizeAssumption DEF DiskInv, DiskTypes, Place, ReadPc, WritePc, ReadInv, GotFirst, Transfer, B, command, Fetch, Filling, Going, StartFails
<1>4. WriteInv'
  BY SizeAssumption DEF DiskInv, DiskTypes, Place, ReadPc, WritePc, WriteInv, Stores, Transfer, B, command, Fetch, Filling, Going, StartFails
<1> QED BY <1>1, <1>2, <1>3, <1>4 DEF DiskInv

(* The invariant holds after Fetched: the wait for the card. *)
LEMMA FetchedKeeps == ASSUME DiskInv, Fetched PROVE DiskInv'
<1>1. DiskTypes'
  BY SizeAssumption, JunkIsData DEF DiskInv, DiskTypes, Transfer, command, B, Fetched, Staged, Ended, WaitFor
<1>2. Place'
  BY SizeAssumption DEF DiskInv, DiskTypes, Place, ReadPc, WritePc, Transfer, Quiet, command, Fetched, Staged, Ended, WaitFor
<1>3. ReadInv'
  BY SizeAssumption, ZenonT(60) DEF DiskInv, DiskTypes, Place, ReadPc, WritePc, ReadInv, GotFirst, Transfer, B, command, Fetched, Staged, Ended, WaitFor
<1>4. WriteInv'
  BY SizeAssumption DEF DiskInv, DiskTypes, Place, ReadPc, WritePc, WriteInv, Stores, Transfer, B, command, Fetched, Staged, Ended, WaitFor
<1> QED BY <1>1, <1>2, <1>3, <1>4 DEF DiskInv

(* The invariant holds after Drain: the wait for the link. *)
LEMMA DrainKeeps == ASSUME DiskInv, Drain PROVE DiskInv'
<1>1. DiskTypes'
  BY SizeAssumption, JunkIsData DEF DiskInv, DiskTypes, Transfer, command, B, Drain, Ended, WaitFor
<1>2. Place'
  BY SizeAssumption DEF DiskInv, DiskTypes, Place, ReadPc, WritePc, Transfer, Quiet, command, Drain, Ended, WaitFor
<1>3. ReadInv'
  BY SizeAssumption DEF DiskInv, DiskTypes, Place, ReadPc, WritePc, ReadInv, GotFirst, Transfer, B, command, Drain, Ended, WaitFor
<1>4. WriteInv'
  BY SizeAssumption DEF DiskInv, DiskTypes, Place, ReadPc, WritePc, WriteInv, Stores, Transfer, B, command, Drain, Ended, WaitFor
<1> QED BY <1>1, <1>2, <1>3, <1>4 DEF DiskInv

(* The invariant holds after Send: a block goes to the host. *)
LEMMA SendKeeps == ASSUME DiskInv, Send PROVE DiskInv'
<1>1. DiskTypes'
  <2>1. a \in {0, 1} /\ B \in {0, 1} /\ Going(a) \in Transfer
    BY Started DEF DiskInv, DiskTypes, B
  <2>2. buf' \in [0..1 -> Data] /\ a' \in {0, 1} /\ i' \in Nat
    BY <2>1, Filled, JunkIsData DEF DiskInv, DiskTypes, Send, StartFails, LastBlock, Swap, NextBlock
  <2> QED BY <2>1, <2>2 DEF DiskInv, DiskTypes, command, Send, StartFails, LastBlock, Swap, NextBlock
<1>2. Place'
  BY SizeAssumption DEF DiskInv, DiskTypes, Place, ReadPc, WritePc, Transfer, Quiet, command, Send, Going, StartFails, LastBlock, Swap, NextBlock
<1>3. ReadInv'
  BY SizeAssumption, SMTT(30) DEF DiskInv, DiskTypes, Place, ReadPc, WritePc, ReadInv, GotFirst, Transfer, B, command, Send, Going, StartFails, LastBlock, Swap, NextBlock
<1>4. WriteInv'
  BY SizeAssumption DEF DiskInv, DiskTypes, Place, ReadPc, WritePc, WriteInv, Stores, Transfer, B, command, Send, Going, StartFails, LastBlock, Swap, NextBlock
<1> QED BY <1>1, <1>2, <1>3, <1>4 DEF DiskInv

(* The invariant holds after Final: the wait for the last block. *)
LEMMA FinalKeeps == ASSUME DiskInv, Final PROVE DiskInv'
<1>1. DiskTypes'
  BY SizeAssumption, JunkIsData DEF DiskInv, DiskTypes, Transfer, command, B, Final, Ended, WaitFor
<1>2. Place'
  BY SizeAssumption DEF DiskInv, DiskTypes, Place, ReadPc, WritePc, Transfer, Quiet, command, Final, Ended, WaitFor
<1>3. ReadInv'
  BY SizeAssumption DEF DiskInv, DiskTypes, Place, ReadPc, WritePc, ReadInv, GotFirst, Transfer, B, command, Final, Ended, WaitFor
<1>4. WriteInv'
  BY SizeAssumption DEF DiskInv, DiskTypes, Place, ReadPc, WritePc, WriteInv, Stores, Transfer, B, command, Final, Ended, WaitFor
<1> QED BY <1>1, <1>2, <1>3, <1>4 DEF DiskInv

(* The invariant holds after Receive: a block is asked of the host. *)
LEMMA ReceiveKeeps == ASSUME DiskInv, Receive PROVE DiskInv'
<1>1. DiskTypes'
  <2>1. B \in {0, 1} /\ Going(B) \in Transfer /\ [Going(B) EXCEPT !.st = "bad"] \in Transfer
    BY Started, HasEnded DEF DiskInv, DiskTypes, B
  <2>2. buf' \in [0..1 -> Data]
    BY <2>1, Filled, JunkIsData DEF DiskInv, DiskTypes, Receive, Filling, StartFails
  <2> QED BY <2>1, <2>2 DEF DiskInv, DiskTypes, command, Receive, StartFails
<1>2. Place'
  BY SizeAssumption DEF DiskInv, DiskTypes, Place, ReadPc, WritePc, Transfer, Quiet, command, Receive, Filling, Going, StartFails
<1>3. ReadInv'
  BY SizeAssumption DEF DiskInv, DiskTypes, Place, ReadPc, WritePc, ReadInv, GotFirst, Transfer, B, command, Receive, Filling, Going, StartFails
<1>4. WriteInv'
  BY SizeAssumption DEF DiskInv, DiskTypes, Place, ReadPc, WritePc, WriteInv, Stores, Transfer, B, command, Receive, Filling, Going, StartFails
<1> QED BY <1>1, <1>2, <1>3, <1>4 DEF DiskInv

(* The invariant holds after Loop: the wait for the card. *)
LEMMA LoopKeeps == ASSUME DiskInv, Loop PROVE DiskInv'
<1>1. DiskTypes'
  BY SizeAssumption, JunkIsData DEF DiskInv, DiskTypes, Transfer, command, B, Loop, Ended, WaitFor
<1>2. Place'
  BY SizeAssumption DEF DiskInv, DiskTypes, Place, ReadPc, WritePc, Transfer, Quiet, command, Loop, Ended, WaitFor
<1>3. ReadInv'
  BY SizeAssumption DEF DiskInv, DiskTypes, Place, ReadPc, WritePc, ReadInv, GotFirst, Transfer, B, command, Loop, Ended, WaitFor
<1>4. ASSUME i # 0 PROVE WriteInv'
  <2>1. Ended(sd) /\ (ret' <=> sd.st = "ok") /\ pc' = IF sd.st = "ok" THEN "received" ELSE "end"
    BY <1>4 DEF Loop, WaitFor
  <2>2. UNCHANGED <<card, command, i, a, buf, sd, link, arrived>>
    BY <1>4 DEF Loop, WaitFor
  <2>3. sd.st = "ok" => Stores(i)
    BY <1>4 DEF DiskInv, WriteInv, Loop
  <2>4. Stores(i)' <=> Stores(i)
    BY <2>2 DEF Stores, command
  <2>5. CASE sd.st = "ok"
    <3>1. pc = "loop" /\ pc' = "received" /\ sd.st # "run"
      BY <2>1, <2>5 DEF Loop
    <3> QED BY <2>2, <2>3, <2>4, <2>5, <3>1 DEF DiskInv, DiskTypes, Transfer, WriteInv, B, command
  <2>6. CASE sd.st = "bad"
    <3>1. pc' = "end" /\ ~ret' /\ sd.st # "run"
      BY <2>1, <2>6
    <3> QED BY <2>2, <2>6, <3>1 DEF WriteInv, command
  <2> QED BY <2>1, <2>5, <2>6 DEF Ended
<1>5. ASSUME i = 0 PROVE WriteInv'
  <2>1. sd.st = "idle"
    BY <1>5 DEF DiskInv, WriteInv, Loop
  <2>2. pc' = (IF ret THEN "received" ELSE "end") /\ UNCHANGED <<card, command, i, a, ret, buf, sd, link, arrived>>
    BY <1>5 DEF Loop
  <2>3. Stores(i)'
    BY <1>5, <2>2 DEF Stores
  <2>4. CASE ret
    <3>1. pc = "loop" /\ pc' = "received" /\ sd.st # "run"
      BY <2>1, <2>2, <2>4 DEF Loop
    <3> QED BY <2>2, <2>3, <2>1, <3>1 DEF DiskInv, DiskTypes, Transfer, WriteInv, B, command
  <2>5. CASE ~ret
    <3>1. pc' = "end" /\ ~ret' /\ sd.st # "run"
      BY <2>1, <2>2, <2>5
    <3> QED BY <2>1, <2>2, <3>1 DEF WriteInv, command
  <2> QED BY <2>4, <2>5
<1> QED BY <1>1, <1>2, <1>3, <1>4, <1>5 DEF DiskInv

(* The invariant holds after Received: the wait for the host. *)
LEMMA ReceivedKeeps == ASSUME DiskInv, Received PROVE DiskInv'
<1>1. DiskTypes'
  BY SizeAssumption, JunkIsData DEF DiskInv, DiskTypes, Transfer, command, B, Received, Ended, WaitFor
<1>2. Place'
  BY SizeAssumption DEF DiskInv, DiskTypes, Place, ReadPc, WritePc, Transfer, Quiet, command, Received, Ended, WaitFor
<1>3. ReadInv'
  BY SizeAssumption DEF DiskInv, DiskTypes, Place, ReadPc, WritePc, ReadInv, GotFirst, Transfer, B, command, Received, Ended, WaitFor
<1>4. WriteInv'
  BY SizeAssumption DEF DiskInv, DiskTypes, Place, ReadPc, WritePc, WriteInv, Stores, Transfer, B, command, Received, Ended, WaitFor
<1> QED BY <1>1, <1>2, <1>3, <1>4 DEF DiskInv

(* The invariant holds after Put: a block goes to the card. *)
LEMMA PutKeeps == ASSUME DiskInv, Put PROVE DiskInv'
<1>1. DiskTypes'
  <2>1. a \in {0, 1} /\ B \in {0, 1} /\ Going(B) \in Transfer
    BY Started DEF DiskInv, DiskTypes, B
  <2>2. buf' \in [0..1 -> Data] /\ a' \in {0, 1} /\ i' \in Nat
    BY <2>1, Filled, JunkIsData DEF DiskInv, DiskTypes, Put, StartFails, LastBlock, Swap, NextBlock
  <2> QED BY <2>1, <2>2 DEF DiskInv, DiskTypes, command, Put, StartFails, LastBlock, Swap, NextBlock
<1>2. Place'
  BY SizeAssumption DEF DiskInv, DiskTypes, Place, ReadPc, WritePc, Transfer, Quiet, command, Put, Going, StartFails, LastBlock, Swap, NextBlock
<1>3. ReadInv'
  BY SizeAssumption DEF DiskInv, DiskTypes, Place, ReadPc, WritePc, ReadInv, GotFirst, Transfer, B, command, Put, Going, StartFails, LastBlock, Swap, NextBlock
<1>4. WriteInv'
  BY SizeAssumption, SMTT(30) DEF DiskInv, DiskTypes, Place, ReadPc, WritePc, WriteInv, Stores, Transfer, B, command, Put, Going, StartFails, LastBlock, Swap, NextBlock
<1> QED BY <1>1, <1>2, <1>3, <1>4 DEF DiskInv

(* The invariant holds after Stored: the wait for the last block. *)
LEMMA StoredKeeps == ASSUME DiskInv, Stored PROVE DiskInv'
<1>1. DiskTypes'
  BY SizeAssumption, JunkIsData DEF DiskInv, DiskTypes, Transfer, command, B, Stored, Ended, WaitFor
<1>2. Place'
  BY SizeAssumption DEF DiskInv, DiskTypes, Place, ReadPc, WritePc, Transfer, Quiet, command, Stored, Ended, WaitFor
<1>3. ReadInv'
  BY SizeAssumption DEF DiskInv, DiskTypes, Place, ReadPc, WritePc, ReadInv, GotFirst, Transfer, B, command, Stored, Ended, WaitFor
<1>4. WriteInv'
  BY SizeAssumption DEF DiskInv, DiskTypes, Place, ReadPc, WritePc, WriteInv, Stores, Transfer, B, command, Stored, Ended, WaitFor
<1> QED BY <1>1, <1>2, <1>3, <1>4 DEF DiskInv

(* The invariant holds after Answer: the answer. *)
LEMMA AnswerKeeps == ASSUME DiskInv, Answer PROVE DiskInv'
<1>1. DiskTypes'
  BY SizeAssumption, JunkIsData DEF DiskInv, DiskTypes, Transfer, command, B, Answer, Quiet
<1>2. Place'
  BY SizeAssumption DEF DiskInv, DiskTypes, Place, ReadPc, WritePc, Transfer, Quiet, command, Answer, Quiet
<1>3. ReadInv'
  BY SizeAssumption DEF DiskInv, DiskTypes, Place, ReadPc, WritePc, ReadInv, GotFirst, Transfer, B, command, Answer, Quiet
<1>4. WriteInv'
  BY SizeAssumption DEF DiskInv, DiskTypes, Place, ReadPc, WritePc, WriteInv, Stores, Transfer, B, command, Answer, Quiet
<1> QED BY <1>1, <1>2, <1>3, <1>4 DEF DiskInv

(* The invariant holds after Answered: the next command. *)
LEMMA AnsweredKeeps == ASSUME DiskInv, Answered PROVE DiskInv'
<1>1. DiskTypes'
  BY SizeAssumption, JunkIsData DEF DiskInv, DiskTypes, Transfer, command, B, Answered, Junk, Data
<1>2. Place'
  BY SizeAssumption DEF DiskInv, DiskTypes, Place, ReadPc, WritePc, Transfer, Quiet, command, Answered, Junk, Data
<1>3. ReadInv'
  BY SizeAssumption DEF DiskInv, DiskTypes, Place, ReadPc, WritePc, ReadInv, GotFirst, Transfer, B, command, Answered, Junk, Data
<1>4. WriteInv'
  BY SizeAssumption DEF DiskInv, DiskTypes, Place, ReadPc, WritePc, WriteInv, Stores, Transfer, B, command, Answered, Junk, Data
<1> QED BY <1>1, <1>2, <1>3, <1>4 DEF DiskInv

(* Where a transfer of the card is under way.                              *)
LEMMA CardRuns ==
  ASSUME DiskInv, sd.st = "run"
  PROVE  /\ pc \notin {"idle", "end"} /\ sd.buf \in {0, 1}
         /\ \/ cmd = "read" /\ pc = "fetched" /\ sd.buf = a /\ sd.blk = i
            \/ /\ cmd = "write" /\ i # 0 /\ pc \in {"receive", "loop"}
               /\ sd.buf = a /\ sd.blk = i - 1
            \/ /\ cmd = "write" /\ pc = "stored" /\ sd.buf = B /\ sd.blk = i /\ i = len - 1
         /\ sd.blk \in Nat /\ sd.blk < len /\ lba + sd.blk \in 0..(Blocks - 1)
         /\ cmd = "write" => buf[sd.buf] = sent[sd.blk + 1] /\ Stores(sd.blk) /\ Len(sent) = len
<1>1. pc # "idle" /\ cmd \in {"read", "write"}
  BY DEF DiskInv, DiskTypes, Place, Quiet
<1>2. CASE cmd = "read"
  BY <1>1, <1>2, SizeAssumption DEF DiskInv, DiskTypes, Place, ReadPc, ReadInv
<1>3. CASE cmd = "write"
  BY <1>1, <1>3, SizeAssumption DEF DiskInv, DiskTypes, Place, WritePc, WriteInv, B
<1> QED BY <1>1, <1>2, <1>3

(* The invariant holds after CardDone: the card's transfer ends.           *)
LEMMA CardDoneKeeps == ASSUME DiskInv, CardDone, LaterReadsWork PROVE DiskInv'
<1>0. sd.st = "run"
  BY DEF CardDone
<1>1. CASE /\ cmd = "read" /\ sd' = [sd EXCEPT !.st = "ok"] /\ UNCHANGED card
           /\ buf' = [buf EXCEPT ![a] = card[lba + i]]
  <2>1. pc = "fetched" /\ sd.buf = a /\ sd.blk = i /\ lba + i \in 0..(Blocks - 1) /\ a \in {0, 1}
    BY <1>1, <1>0, CardRuns DEF DiskInv, DiskTypes
  <2>2. sd' \in Transfer /\ sd'.st = "ok" /\ sd'.buf = a /\ sd'.blk = i
    BY <1>1, <2>1, HasEnded DEF DiskInv, DiskTypes
  <2>3. buf' \in [0..1 -> Data] /\ buf'[a] = card[lba + i] /\ buf'[1 - a] = buf[1 - a]
    <3>1. card[lba + i] \in Data /\ buf \in [0..1 -> Data]
      BY <2>1 DEF DiskInv, DiskTypes
    <3>2. buf' = [buf EXCEPT ![a] = card[lba + i]]
      BY <1>1
    <3> QED BY <2>1, <3>1, <3>2, Filled
  <2>4. DiskTypes' /\ Place'
    BY <1>1, <2>1, <2>2, <2>3 DEF DiskInv, DiskTypes, Place, ReadPc, WritePc, command, CardDone
  <2>5. ReadInv' /\ WriteInv'
    BY <1>1, <2>1, <2>2, <2>3
    DEF DiskInv, Place, DiskTypes, ReadPc, WritePc, ReadInv, WriteInv, GotFirst, B, command, CardDone
  <2> QED BY <2>4, <2>5 DEF DiskInv
<1>2. CASE /\ cmd = "write" /\ sd' = [sd EXCEPT !.st = "ok"] /\ UNCHANGED buf
           /\ card' = [card EXCEPT ![lba + sd.blk] = sent[sd.blk + 1]]
  <2>1. sd' \in Transfer /\ sd'.st = "ok" /\ sd'.buf = sd.buf /\ sd'.blk = sd.blk
    BY <1>2, HasEnded DEF DiskInv, DiskTypes
  <2>2. /\ pc \in {"receive", "loop", "stored"} /\ lba + sd.blk \in 0..(Blocks - 1)
        /\ sd.blk \in Nat /\ sd.blk < len /\ Len(sent) = len /\ Stores(sd.blk)
    BY <1>2, <1>0, CardRuns
  <2>4. lba \in Nat /\ len \in Nat /\ lba + len <= Blocks
    BY <2>2, SizeAssumption DEF DiskInv, DiskTypes, Place, ReadPc, WritePc
  <2>a. card \in [0..(Blocks - 1) -> Data] /\ sent \in Seq(Data) /\ i \in Nat
    BY DEF DiskInv, DiskTypes
  <2>b. PICK n \in Nat : n = sd.blk
    BY <2>2
  <2>c. n < len /\ Stores(n) /\ card' = [card EXCEPT ![lba + n] = sent[n + 1]]
    BY <1>2, <2>2, <2>b
  <2>3. card' \in [0..(Blocks - 1) -> Data] /\ \A k \in 0..n : card'[lba + k] = sent[k + 1]
    <3>1. lba + n < Blocks /\ n < Len(sent)
      BY <2>2, <2>4, <2>c, SizeAssumption
    <3>2. \A k \in 0..(n - 1) : card[lba + k] = sent[k + 1]
      BY <2>c DEF Stores
    <3>3. card' = [card EXCEPT ![lba + n] = sent[n + 1]]
      BY <2>c
    <3>4. sent[n + 1] \in Data /\ lba + n \in 0..(Blocks - 1)
      BY <2>4, <2>a, <3>1, SizeAssumption
    <3>5. ASSUME NEW k \in 0..n PROVE card'[lba + k] = sent[k + 1]
      <4>1. lba + k \in 0..(Blocks - 1) /\ (lba + k = lba + n => k = n)
        BY <2>4, <3>1, SizeAssumption
      <4>2. k # n => card[lba + k] = sent[k + 1]
        BY <3>2
      <4> QED BY <2>a, <3>3, <3>4, <4>1, <4>2
    <3> QED BY <2>a, <3>3, <3>4, <3>5
  <2>5. lba' = lba /\ len' = len /\ sent' = sent /\ i' = i
    BY DEF CardDone, command
  <2>6. DiskTypes' /\ Place'
    BY <1>2, <2>1, <2>2, <2>3 DEF DiskInv, DiskTypes, Place, ReadPc, WritePc, command, CardDone
  <2>7. ReadInv'
    BY <1>2, <2>2, <1>0, CardRuns DEF DiskInv, Place, ReadPc, WritePc, ReadInv, command, CardDone
  <2>8. CASE pc = "stored"
    <3>1. sd.buf = B /\ sd.blk = i /\ i = len - 1 /\ link.st # "run"
      BY <1>2, <2>8, <1>0, CardRuns DEF DiskInv, WriteInv
    <3>2. Stores(i)' /\ Stores(len)'
      <4>1. n = i /\ n = len - 1
        BY <2>b, <3>1
      <4> QED BY <2>3, <2>4, <2>5, <2>a, <4>1 DEF Stores
    <3>3. WriteInv'
      BY <1>2, <2>1, <2>8, <3>1, <3>2 DEF WriteInv, B, command, CardDone
    <3> QED BY <2>6, <2>7, <3>3 DEF DiskInv
  <2>9. CASE pc # "stored"
    <3>1. i # 0 /\ pc \in {"receive", "loop"} /\ sd.buf = a /\ sd.blk = i - 1
      BY <1>2, <2>9, <1>0, CardRuns
    <3>2. Stores(i)' /\ Stores(i - 1)'
      <4>1. n = i - 1
        BY <2>b, <3>1
      <4> QED BY <2>3, <2>4, <2>5, <2>a, <4>1 DEF Stores
    <3>3. WriteInv'
      BY <1>2, <2>1, <3>1, <3>2 DEF DiskInv, WriteInv, B, command, CardDone
    <3> QED BY <2>6, <2>7, <3>3 DEF DiskInv
  <2> QED BY <2>8, <2>9
<1>3. CASE CardFault \in May /\ sd' = [sd EXCEPT !.st = "bad"] /\ UNCHANGED <<card, buf>>
  <2>1. sd' \in Transfer /\ sd'.st = "bad" /\ sd'.buf = sd.buf /\ sd'.blk = sd.blk
    BY <1>3, HasEnded DEF DiskInv, DiskTypes
  <2>2. cmd = "read" => sd.blk = 0
    BY <1>3 DEF CardFault, LaterReadsWork
  <2>3. DiskTypes' /\ Place'
    BY <1>3, <2>1, <1>0, CardRuns DEF DiskInv, DiskTypes, Place, ReadPc, WritePc, command, CardDone
  <2>4. ReadInv'
    BY <1>3, <2>1, <2>2, <1>0, CardRuns
    DEF DiskInv, Place, DiskTypes, ReadPc, WritePc, ReadInv, GotFirst, B, command, CardDone
  <2>5. WriteInv'
    BY <1>3, <2>1, <1>0, CardRuns
    DEF DiskInv, Place, DiskTypes, ReadPc, WritePc, WriteInv, Stores, B, command, CardDone
  <2> QED BY <2>3, <2>4, <2>5 DEF DiskInv
<1>4. cmd = "read" => sd.buf = a /\ sd.blk = i
  BY <1>0, CardRuns
<1>5. cmd = "write" => buf[sd.buf] = sent[sd.blk + 1]
  BY <1>0, CardRuns
<1>6. cmd \in {"read", "write"}
  BY <1>0, CardRuns
<1> QED BY <1>1, <1>2, <1>3, <1>4, <1>5, <1>6 DEF CardDone

(* Where a transfer of the link is under way, unless the command has failed. *)
LEMMA LinkRuns ==
  ASSUME DiskInv, link.st = "run"
  PROVE  /\ pc # "idle" /\ cmd \in {"read", "write"} /\ link.buf \in {0, 1}
         /\ cmd = "read" => pc \in {"fetch", "fetched", "drain", "final", "end"}
         /\ cmd = "write" => pc \in {"loop", "received", "end"}
<1>1. pc # "idle" /\ cmd \in {"read", "write"} /\ link.buf \in {0, 1}
  BY DEF DiskInv, DiskTypes, Place, Quiet, Transfer
<1> QED BY <1>1 DEF DiskInv, DiskTypes, Place, ReadPc, WritePc, ReadInv, WriteInv

(* The invariant holds after LinkDone: the link's transfer ends.           *)
LEMMA LinkDoneKeeps == ASSUME DiskInv, LinkDone PROVE DiskInv'
<1>0. link.st = "run"
  BY DEF LinkDone
<1>1. CASE /\ cmd = "read" /\ HostReady /\ link' = [link EXCEPT !.st = "ok"]
           /\ got' = Append(got, buf[link.buf]) /\ UNCHANGED <<buf, arrived>>
  <2>1. link' \in Transfer /\ link'.st = "ok" /\ link'.buf = link.buf
    BY <1>1, HasEnded DEF DiskInv, DiskTypes
  <2>2. pc \in {"fetch", "fetched", "drain", "final", "end"} /\ buf[link.buf] \in Data
    BY <1>1, <1>0, LinkRuns DEF DiskInv, DiskTypes
  <2>3. /\ got' \in Seq(Data) /\ Len(got') = Len(got) + 1 /\ got'[Len(got) + 1] = buf[link.buf]
        /\ \A k \in 1..Len(got) : got'[k] = got[k]
    BY <1>1, <2>2 DEF DiskInv, DiskTypes
  <2>4. DiskTypes' /\ Place'
    <3>1. DiskTypes'
      BY <1>1, <2>1, <2>3 DEF DiskInv, DiskTypes, command, LinkDone
    <3>2. Place'
      BY <1>1, <2>1, <1>0, LinkRuns DEF DiskInv, Place, ReadPc, WritePc, command, LinkDone
    <3> QED BY <3>1, <3>2
  <2>5. WriteInv'
    BY <1>0, <1>1, <2>2 DEF WriteInv, command, LinkDone
  <2>6. CASE pc \in {"fetch", "fetched", "drain"}
    <3>1. i # 0 /\ i \in Nat /\ lba \in Nat /\ link.buf = B /\ GotFirst(i - 1) /\ buf[B] = card[lba + i - 1]
      BY <1>0, <2>6 DEF DiskInv, DiskTypes, ReadInv
    <3>2. GotFirst(i)'
      BY <1>1, <2>3, <3>1 DEF GotFirst, command, LinkDone
    <3> QED BY <1>1, <2>1, <2>4, <2>5, <2>6, <3>1, <3>2 DEF DiskInv, ReadInv, B, command, LinkDone
  <2>7. CASE pc = "final"
    <3>1. i = len - 1 /\ i \in Nat /\ len \in Nat /\ lba \in Nat /\ link.buf = a
          /\ GotFirst(i) /\ buf[a] = card[lba + i]
      BY <1>0, <2>7 DEF DiskInv, DiskTypes, ReadInv
    <3>2. GotFirst(len)'
      BY <1>1, <2>3, <3>1 DEF GotFirst, command, LinkDone
    <3> QED BY <1>1, <2>1, <2>4, <2>5, <2>7, <3>1, <3>2 DEF DiskInv, ReadInv, B, command, LinkDone
  <2>8. CASE pc = "end"
    <3>1. ~ret
      BY <1>0, <1>1, <2>8 DEF DiskInv, DiskTypes, ReadInv
    <3> QED BY <1>1, <2>4, <2>5, <2>8, <3>1, CardRuns DEF DiskInv, ReadInv, command, LinkDone
  <2> QED BY <2>2, <2>6, <2>7, <2>8
<1>2. CASE /\ cmd = "write" /\ HostReady /\ link' = [link EXCEPT !.st = "ok"] /\ UNCHANGED got
           /\ buf' = [buf EXCEPT ![link.buf] = sent[arrived + 1]] /\ arrived' = arrived + 1
  <2>1. link' \in Transfer /\ link'.st = "ok" /\ link'.buf = link.buf
    BY <1>2, HasEnded DEF DiskInv, DiskTypes
  <2>2. pc \in {"loop", "received", "end"} /\ link.buf \in {0, 1} /\ sent[arrived + 1] \in Data
    BY <1>2, <1>0, LinkRuns DEF DiskInv, DiskTypes, Place, HostReady
  <2>3. /\ buf' \in [0..1 -> Data] /\ buf'[link.buf] = sent[arrived + 1]
        /\ buf'[1 - link.buf] = buf[1 - link.buf]
    BY <1>2, <2>2, Filled DEF DiskInv, DiskTypes
  <2>4. DiskTypes' /\ Place'
    <3>1. DiskTypes'
      BY <1>2, <2>1, <2>3 DEF DiskInv, DiskTypes, command, LinkDone
    <3>2. Place'
      BY <1>2, <2>1, <1>0, LinkRuns DEF DiskInv, Place, ReadPc, WritePc, command, LinkDone
    <3> QED BY <3>1, <3>2
  <2>5. ReadInv'
    BY <1>2, <2>2 DEF ReadInv, command, LinkDone
  <2>6. WriteInv'
    BY <1>0, <1>2, <2>1, <2>2, <2>3 DEF DiskInv, DiskTypes, WriteInv, Stores, B, command, LinkDone
  <2> QED BY <2>4, <2>5, <2>6 DEF DiskInv
<1>3. CASE link' = [link EXCEPT !.st = "bad"] /\ UNCHANGED <<buf, got, arrived>>
  <2>1. link' \in Transfer /\ link'.st = "bad" /\ link'.buf = link.buf
    BY <1>3, HasEnded DEF DiskInv, DiskTypes
  <2>2. DiskTypes' /\ Place'
    BY <1>3, <2>1, <1>0, LinkRuns DEF DiskInv, DiskTypes, Place, ReadPc, WritePc, command, LinkDone
  <2>3. ReadInv'
    BY <1>3, <2>1, <1>0, LinkRuns DEF DiskInv, ReadInv, GotFirst, B, command, LinkDone
  <2>4. WriteInv'
    BY <1>3, <2>1, <1>0, LinkRuns DEF DiskInv, WriteInv, Stores, B, command, LinkDone
  <2> QED BY <2>2, <2>3, <2>4 DEF DiskInv
<1> QED BY <1>1, <1>2, <1>3, <1>0, LinkRuns DEF LinkDone

(* Every step of the whole keeps the invariant: a step of the disk by its   *)
(* lemma, any other changes nothing of the disk.                           *)
LEMMA DiskStepKeeps ==
  ASSUME DiskInv, [Next]_usbVars, LaterReadsWork
  PROVE  DiskInv'
<1>1. ASSUME UNCHANGED diskVars PROVE DiskInv'
  BY <1>1 DEF DiskInv, DiskTypes, Place, ReadInv, WriteInv, GotFirst, Stores, B, diskVars
<1>2. CASE DiskCommand
  BY <1>2, AskKeeps DEF DiskCommand
<1>3. CASE DiskStep
  BY <1>3, FetchKeeps, FetchedKeeps, DrainKeeps, SendKeeps, FinalKeeps, ReceiveKeeps, LoopKeeps,
     ReceivedKeeps, PutKeeps, StoredKeeps, AnswerKeeps, AnsweredKeeps
  DEF DiskStep, Service, Read_10, Write_10
<1>4. CASE CardStep
  BY <1>4, CardDoneKeeps DEF CardStep
<1>5. CASE LinkStep
  BY <1>5, LinkDoneKeeps DEF LinkStep
<1>6. CASE CamStep \/ CableOutOfDisk \/ CameraKey \/ PictureKey \/ PowerOff \/ UNCHANGED usbVars
  BY <1>1, <1>6 DEF CamStep, InCamera, CableOutOfDisk, CameraKey, PictureKey, PowerOff, usbVars
<1> QED BY <1>2, <1>3, <1>4, <1>5, <1>6 DEF Next

(* What Read_10 and Write_10 have done when they return without an error.  *)
LEMMA CommandDone ==
  ASSUME DiskInv, pc = "end", ret
  PROVE  Disk!Whole /\ (cmd = "read" => got = Disk!Wanted) /\ (cmd = "write" => Disk!Wanted = sent)
<1>1. lba \in Nat /\ len \in Nat /\ cmd \in {"read", "write"} /\ got \in Seq(Data) /\ sent \in Seq(Data)
  BY DEF DiskInv, DiskTypes, Place
<1>2. CASE cmd = "read"
  <2>1. lba + len <= Blocks /\ Len(got) = len /\ \A k \in 1..len : got[k] = card[lba + k - 1]
    BY <1>2 DEF DiskInv, ReadInv, GotFirst
  <2> QED BY <1>1, <1>2, <2>1 DEF Disk!Whole, Disk!Wanted
<1>3. CASE cmd = "write"
  <2>1. lba + len <= Blocks /\ Len(sent) = len /\ \A k \in 0..(len - 1) : card[lba + k] = sent[k + 1]
    BY <1>3 DEF DiskInv, Place, WriteInv, Stores
  <2>2. ASSUME NEW k \in 1..len PROVE card[lba + k - 1] = sent[k]
    <3>1. k - 1 \in 0..(len - 1) /\ lba + (k - 1) = lba + k - 1 /\ (k - 1) + 1 = k
      BY <1>1
    <3> QED BY <2>1, <3>1
  <2> QED BY <1>1, <1>3, <2>1, <2>2 DEF Disk!Whole, Disk!Wanted
<1> QED BY <1>1, <1>2, <1>3

(* Every step is one of the block device's, or none of its business: the   *)
(* card's transfer of a write puts a block, the link's of a read delivers  *)
(* one, and what is answered good has been done.                           *)
LEMMA DiskStepIsAbstract ==
  ASSUME DiskInv, [Next]_usbVars
  PROVE  [Disk!Next]_(Disk!abstractVars)
<1> USE DEF Disk!abstractVars
<1>1. CASE DiskCommand
  <2>1. PICK c \in {"read", "write"}, from \in 0..(Blocks - 1), n \in 1..MaxLen : Ask(c, from, n)
    BY <1>1 DEF DiskCommand
  <2>2. n \in Nat \ {0} /\ from \in Nat /\ \A k \in 1..n : Blocks + from + k - 1 \in Data
    BY SizeAssumption DEF Data, Junk
  <2>3. sent' \in Seq(Data)
    BY <2>1, <2>2 DEF Ask
  <2>4. status = "none"
    BY <2>1 DEF Ask, DiskInv, Place
  <2>5. Disk!Ask
    BY <2>1, <2>2, <2>3, <2>4 DEF Disk!Ask, Ask
  <2> QED BY <2>5 DEF Disk!Next
<1>2. CASE Service /\ ~Answer
  BY <1>2 DEF Service, Read_10, Write_10, Fetch, Fetched, Drain, Send, Final, Receive, Loop, Received,
              Put, Stored, WaitFor, command
<1>3. CASE Answer
  <2>1. pc = "end" /\ cmd # "none" /\ status = "none"
    BY <1>3 DEF Answer, DiskInv, Place
  <2>2. CASE status' = "bad"
    <3>1. Disk!Bad
      BY <1>3, <2>1, <2>2 DEF Disk!Bad, Answer, command
    <3> QED BY <3>1 DEF Disk!Next
  <2>3. CASE status' # "bad"
    <3>1. ret /\ status' = "good"
      BY <1>3, <2>3 DEF Answer
    <3>2. Disk!Good
      BY <1>3, <2>1, <3>1, CommandDone DEF Disk!Good, Answer, command
    <3> QED BY <3>2 DEF Disk!Next
  <2> QED BY <2>2, <2>3
<1>4. CASE Answered
  BY <1>4 DEF Answered, Disk!Done, Disk!Next
<1>5. CASE CardStep
  <2>1. CardDone /\ sd.st = "run"
    BY <1>5 DEF CardStep, CardDone
  <2>2. CASE UNCHANGED card
    BY <2>1, <2>2 DEF CardDone, command
  <2>3. CASE card' # card
    <3>1. cmd = "write" /\ card' = [card EXCEPT ![lba + sd.blk] = sent[sd.blk + 1]]
      BY <2>1, <2>3, CardRuns DEF CardDone
    <3>2. PICK n \in Nat : n = sd.blk
      BY <2>1, CardRuns
    <3>3. n < len /\ len \in Nat /\ lba \in Nat /\ Disk!Whole /\ status = "none"
      BY <2>1, <3>1, <3>2, CardRuns DEF DiskInv, DiskTypes, Place, ReadPc, WritePc, Disk!Whole
    <3>4. n + 1 \in 1..len /\ lba + (n + 1) - 1 = lba + n
      BY <3>3
    <3>5. card' = [card EXCEPT ![lba + (n + 1) - 1] = sent[n + 1]]
      BY <3>1, <3>2, <3>4
    <3>6. Disk!Put
      BY <2>1, <3>1, <3>3, <3>4, <3>5 DEF Disk!Put, CardDone, command
    <3> QED BY <3>6 DEF Disk!Next
  <2> QED BY <2>2, <2>3
<1>6. CASE LinkStep
  <2>1. LinkDone /\ link.st = "run"
    BY <1>6 DEF LinkStep, LinkDone
  <2>2. CASE UNCHANGED got
    BY <2>1, <2>2 DEF LinkDone, command
  <2>3. CASE got' # got
    <3>1. cmd = "read" /\ Len(got) < len /\ got' = Append(got, buf[link.buf])
      BY <2>1, <2>3 DEF LinkDone, HostReady
    <3>2. buf[link.buf] \in Data
      BY <2>1, LinkRuns DEF DiskInv, DiskTypes
    <3>3. Disk!Deliver
      BY <2>1, <3>1, <3>2 DEF Disk!Deliver, LinkDone, command
    <3> QED BY <3>3 DEF Disk!Next
  <2> QED BY <2>2, <2>3
<1>7. CASE CamStep \/ CableOutOfDisk \/ CameraKey \/ PictureKey \/ PowerOff \/ UNCHANGED usbVars
  BY <1>7 DEF CamStep, InCamera, CableOutOfDisk, CameraKey, PictureKey, PowerOff, usbVars, diskVars
<1> QED BY <1>1, <1>2, <1>3, <1>4, <1>5, <1>6, <1>7 DEF Next, DiskStep

(* With two buffers and transfers that overlap, the camera is a disk:      *)
(* however long the commands are and wherever calls and transfers fail,    *)
(* what is answered good is right, when the card delivers every block of a *)
(* command after the first (ap_usb.c does not look at that error).         *)
THEOREM DiskIsBlockDevice == ASSUME LaterReadsWork PROVE FairSpec => ImplementsBlockDevice
<1>1. Init => DiskInv /\ Disk!Init
  <2>1. DiskInit => Disk!Init
    BY SizeAssumption DEF DiskInit, Disk!Init, Data, Junk
  <2> QED BY <2>1, DiskInitKeeps DEF Init
<1>2. DiskInv /\ [Next]_usbVars => DiskInv'
  BY DiskStepKeeps
<1>3. DiskInv /\ [Next]_usbVars => [Disk!Next]_(Disk!abstractVars)
  BY DiskStepIsAbstract
<1> QED BY <1>1, <1>2, <1>3, PTL DEF FairSpec, ImplementsBlockDevice, Disk!Spec

-----------------------------------------------------------------------------
(* The web camera.                                                         *)

(* The number of video buffers the code has: the reason why one ISOTaskMsg *)
(* is enough.                                                              *)
TwoBuffers == NBuf <= 2

CamTypes ==
  /\ main \in {"out", "entered", "starting", "askMic", "startingMic", "on", "askStop", "stopping",
               "stoppingMic", "exit", "off"}
  /\ alive \in BOOLEAN /\ webcam \in BOOLEAN /\ ack \in BOOLEAN
  /\ request \in {"none", "START", "STOP"}
  /\ frameQ \in Seq(Buffers)
  /\ encoding \in Buffers \cup {None} /\ sending \in Buffers \cup {None}
  /\ isosend \in Buffers \cup {None}
  /\ camQ \in Nat /\ audioMsgs \in Nat
  /\ camQ > 0 => isosend # None

(* What main's place says of the tasks it has asked.                       *)
CamPhase ==
  /\ alive <=> main \notin {"out", "off"}
  /\ webcam <=> main \in {"askMic", "startingMic", "on"}
  /\ request = "START" => main = "starting" /\ ~ack
  /\ request = "STOP" => main = "stopping" /\ ~ack
  /\ main \in {"out", "entered", "starting"} =>
       /\ encoding = None /\ sending = None /\ camQ = 0
       /\ frameQ = IF main = "starting" /\ ack THEN [k \in Buffers |-> k] ELSE <<>>

(* Nobody has a buffer that another has, as long as no message was written *)
(* over.                                                                   *)
OneEach ==
  /\ camQ \in {0, 1}
  /\ \A j, k \in 1..Len(frameQ) : frameQ[j] = frameQ[k] => j = k
  /\ \A k \in 1..Len(frameQ) :
       /\ frameQ[k] # encoding /\ frameQ[k] # sending
       /\ camQ = 1 => frameQ[k] # isosend
  /\ encoding # None => encoding # sending /\ (camQ = 1 => encoding # isosend)
  /\ sending # None /\ camQ = 1 => sending # isosend
  /\ camQ = 1 => isosend # None

(* While the camera is on each buffer is somewhere.                        *)
NoneLost ==
  webcam => \A b \in Buffers : \/ \E k \in 1..Len(frameQ) : frameQ[k] = b
                               \/ encoding = b \/ sending = b \/ (camQ = 1 /\ isosend = b)

CamInv == CamTypes /\ CamPhase /\ OneEach /\ NoneLost

(* Whatever is written over, as many buffers go round as there are.        *)
Places == Len(frameQ) + Here(encoding # None) + camQ + Here(sending # None)

Rounds == CamTypes /\ CamPhase /\ Places <= NBuf /\ (webcam => Places = NBuf)

RoundInv == Rounds /\ overtaken \in BOOLEAN /\ (~overtaken => CamInv)

(* The buffers as the code counts them.                                    *)
LEMMA SomeBuffers == NBuf \in Nat \ {0} /\ None \notin Buffers
BY LengthAssumption DEF Buffers, None

(* The smaller of two counts is a count.                                   *)
LEMMA MinOfTwo == ASSUME NEW m \in Nat, NEW n \in Nat PROVE Min({m, n}) \in Nat
<1>1. CASE m <= n
  <2>1. m \in {m, n} /\ \A y \in {m, n} : m =< y
    BY <1>1
  <2> QED BY <2>1 DEF Min
<1>2. CASE n <= m
  <2>1. n \in {m, n} /\ \A y \in {m, n} : n =< y
    BY <1>2
  <2> QED BY <2>1 DEF Min
<1> QED BY <1>1, <1>2

(* The invariant holds at first: nobody has been asked for anything.       *)
LEMMA CamInitKeeps == ASSUME CamInit PROVE CamInv
<1>1. CamTypes
  <2>1. frameQ \in Seq(Buffers) /\ audioMsgs \in Nat /\ camQ = 0
    BY DEF CamInit
  <2>2. encoding = None /\ sending = None /\ isosend = None
    BY DEF CamInit
  <2>3. camQ > 0 => isosend # None
    BY <2>1
  <2> QED BY <2>1, <2>2, <2>3 DEF CamInit, CamTypes
<1>2. CamPhase /\ OneEach /\ NoneLost
  BY DEF CamInit, CamPhase, OneEach, NoneLost, None
<1> QED BY <1>1, <1>2 DEF CamInv

(* The steps of the main task keep the invariant.                          *)
LEMMA CamMainKeeps == ASSUME CamInv, CamEntrance \/ CamMain \/ ClearStatus PROVE CamInv'
<1> USE DEF camMain, camState, camVideo, camAudio, camUsb, Go
<1>1. ASSUME UNCHANGED <<frameQ, camVideo, camQ, sending>>, webcam' => webcam
      PROVE  OneEach' /\ NoneLost'
  BY <1>1 DEF CamInv, OneEach, NoneLost
<1>2. CASE CamEntrance
  BY <1>1, <1>2 DEF CamEntrance, CamInv, CamTypes, CamPhase
<1>3. CASE AskState("entered", "starting", "START")
  BY <1>1, <1>3 DEF AskState, CamInv, CamTypes, CamPhase
<1>8. CASE AskState("askStop", "stopping", "STOP")
  BY <1>1, <1>8 DEF AskState, CamInv, CamTypes, CamPhase
<1>4. CASE ClearStatus
  BY <1>1, <1>4 DEF ClearStatus, CamInv, CamTypes, CamPhase
<1>5. CASE \/ AskAudio("askMic", "startingMic", "START") \/ AudioAcked("startingMic", "on", "START")
           \/ ack /\ AskAudio("stopping", "stoppingMic", "STOPING")
           \/ AudioAcked("stoppingMic", "exit", "STOP")
  <2>1. /\ UNCHANGED <<webcam, alive, camState, frameQ, camVideo, camQ, camUsb, audioMsgs>>
        /\ \/ main = "askMic" /\ main' = "startingMic"
           \/ main = "startingMic" /\ main' = "on"
           \/ main = "stopping" /\ main' = "stoppingMic" /\ ack
           \/ main = "stoppingMic" /\ main' = "exit"
    <3>1. CASE AskAudio("askMic", "startingMic", "START")
      BY <3>1 DEF AskAudio
    <3>2. CASE AudioAcked("startingMic", "on", "START") \/ AudioAcked("stoppingMic", "exit", "STOP")
      BY <3>2 DEF AudioAcked
    <3>3. CASE ack /\ AskAudio("stopping", "stoppingMic", "STOPING")
      BY <3>3 DEF AskAudio
    <3> QED BY <1>5, <3>1, <3>2, <3>3
  <2>2. CamTypes'
    BY <2>1 DEF CamInv, CamTypes
  <2>3. CamPhase'
    BY <2>1 DEF CamInv, CamPhase
  <2> QED BY <1>1, <2>1, <2>2, <2>3 DEF CamInv
<1>6. CASE SetStatus
  <2>1. main = "starting" /\ main' = "askMic" /\ webcam' = TRUE /\ ack
        /\ UNCHANGED <<alive, camState, frameQ, camVideo, camQ, camUsb, audioMsgs>>
    BY <1>6 DEF SetStatus
  <2>2. frameQ = [k \in 1..NBuf |-> k] /\ encoding = None /\ sending = None /\ camQ = 0
    BY <2>1 DEF CamInv, CamPhase, Buffers
  <2>3. CamTypes' /\ CamPhase' /\ OneEach'
    BY <2>1 DEF CamInv, CamTypes, CamPhase, OneEach
  <2>4. Len(frameQ) = NBuf /\ \A k \in 1..NBuf : frameQ[k] = k
    BY <2>2, SomeBuffers
  <2>5. NoneLost'
    BY <2>1, <2>2, <2>4 DEF NoneLost, Buffers
  <2> QED BY <2>3, <2>5 DEF CamInv
<1>7. CASE CamExit
  <2>1. /\ main = "exit" /\ main' = "off" /\ alive' = FALSE /\ camQ' = 0 /\ sending' = None /\ audioMsgs' = 0
        /\ UNCHANGED <<webcam, camState, frameQ, camVideo>>
    BY <1>7 DEF CamExit
  <2>2. ~webcam /\ request \notin {"START", "STOP"}
    BY <2>1 DEF CamInv, CamPhase
  <2>3. CamTypes'
    <3>1. UNCHANGED <<webcam, ack, request, frameQ, encoding, isosend>>
      BY <2>1
    <3>2. sending' \in Buffers \cup {None} /\ camQ' \in Nat /\ audioMsgs' \in Nat
      BY <2>1
    <3>3. main' \in {"exit", "off"} /\ alive' \in BOOLEAN
      BY <2>1
    <3>4. CamTypes
      BY DEF CamInv
    <3>5. ~(camQ' > 0)
      BY <2>1
    <3> QED BY <3>1, <3>2, <3>3, <3>4, <3>5 DEF CamTypes
  <2>5. CamPhase'
    <3>1. request' = request /\ webcam' = webcam
      BY <2>1
    <3> QED BY <2>1, <2>2, <3>1 DEF CamPhase
  <2>4. OneEach' /\ NoneLost'
    BY <2>1, <2>2, SomeBuffers DEF CamInv, CamTypes, OneEach, NoneLost
  <2> QED BY <2>3, <2>4, <2>5 DEF CamInv
<1> QED BY <1>2, <1>3, <1>4, <1>5, <1>6, <1>7, <1>8 DEF CamMain

(* The state task keeps it: when it fills the queue nobody has a buffer.   *)
LEMMA WebcamRequestKeeps == ASSUME CamInv, WebcamRequest PROVE CamInv'
<1> USE DEF camMain, camState, camVideo, camAudio, camUsb
<1>1. CASE request = "START"
  <2>1. main = "starting" /\ encoding = None /\ sending = None /\ camQ = 0 /\ ~webcam
    BY <1>1 DEF CamInv, CamPhase
  <2>2. frameQ' = [k \in 1..NBuf |-> k]
    BY <1>1, SomeBuffers DEF WebcamRequest, Flushed, Buffers
  <2>3. frameQ' \in Seq(Buffers) /\ Len(frameQ') = NBuf /\ \A k \in 1..NBuf : frameQ'[k] = k
    BY <2>2, SomeBuffers DEF Buffers
  <2>4. OneEach' /\ NoneLost'
    <3>1. encoding' = None /\ sending' = None /\ camQ' = 0 /\ ~webcam'
      BY <2>1 DEF WebcamRequest
    <3>2. \A k \in 1..Len(frameQ') : frameQ'[k] = k /\ k # None
      BY <2>3, SomeBuffers DEF None
    <3> QED BY <3>1, <3>2 DEF OneEach, NoneLost
  <2>5. CamTypes'
    BY <2>3 DEF WebcamRequest, CamInv, CamTypes
  <2>6. CamPhase'
    BY <2>1, <2>2 DEF WebcamRequest, CamInv, CamPhase, Buffers
  <2> QED BY <2>4, <2>5, <2>6 DEF CamInv
<1>2. CASE request = "STOP"
  <2>1. main = "stopping" /\ ~webcam
    BY <1>2 DEF CamInv, CamPhase
  <2>2. frameQ' = <<>>
    BY <1>2 DEF WebcamRequest, Flushed
  <2>3. OneEach' /\ NoneLost'
    <3>1. UNCHANGED <<webcam, encoding, isosend, camQ, sending>> /\ Len(frameQ') = 0
      BY <2>2 DEF WebcamRequest
    <3> QED BY <2>1, <3>1 DEF CamInv, OneEach, NoneLost
  <2>4. CamTypes'
    <3>1. frameQ' \in Seq(Buffers)
      BY <2>2
    <3>2. UNCHANGED <<main, alive, webcam, encoding, sending, isosend, camQ, audioMsgs>>
      BY DEF WebcamRequest
    <3> QED BY <3>1, <3>2 DEF WebcamRequest, CamInv, CamTypes
  <2>5. CamPhase'
    <3>1. UNCHANGED <<webcam, main, alive>> /\ request' = "none"
      BY DEF WebcamRequest
    <3> QED BY <2>1, <3>1 DEF CamInv, CamPhase
  <2> QED BY <2>3, <2>4, <2>5 DEF CamInv
<1> QED BY <1>1, <1>2 DEF WebcamRequest, CamInv, CamTypes

(* The video task keeps it.  With two buffers, while one is encoded into   *)
(* and one is sent, none waits to be sent.                                 *)
LEMMA VideoTaskKeeps == ASSUME CamInv, VideoTask, ~overtaken', TwoBuffers PROVE CamInv'
<1> USE DEF camMain, camState, camVideo, camAudio, camUsb
<1>1. CASE TakeFrame /\ webcam /\ frameQ # <<>>
  <2>1. /\ encoding = None /\ encoding' = Head(frameQ) /\ frameQ' = Tail(frameQ)
        /\ UNCHANGED <<camMain, alive, camState, isosend, camQ, camUsb, audioMsgs>>
    BY <1>1 DEF TakeFrame
  <2>2. /\ frameQ \in Seq(Buffers) /\ frameQ # <<>> /\ Head(frameQ) = frameQ[1] /\ frameQ[1] \in Buffers
        /\ frameQ' \in Seq(Buffers) /\ Len(frameQ') = Len(frameQ) - 1 /\ 1 \in 1..Len(frameQ)
        /\ \A k \in 1..Len(frameQ') : frameQ'[k] = frameQ[k + 1] /\ k + 1 \in 1..Len(frameQ)
    BY <1>1, <2>1 DEF CamInv, CamTypes
  <2>3. CamTypes' /\ CamPhase'
    BY <1>1, <2>1, <2>2 DEF CamInv, CamTypes, CamPhase
  <2>4. OneEach'
    BY <2>1, <2>2, SomeBuffers DEF CamInv, CamTypes, OneEach
  <2>5. NoneLost'
    <3> SUFFICES ASSUME NEW b \in Buffers
                 PROVE  \/ \E k \in 1..Len(frameQ') : frameQ'[k] = b
                        \/ encoding' = b \/ sending = b \/ (camQ = 1 /\ isosend = b)
      BY <2>1 DEF NoneLost
    <3>1. CASE \E k \in 1..Len(frameQ) : frameQ[k] = b
      <4>1. PICK k \in 1..Len(frameQ) : frameQ[k] = b
        BY <3>1
      <4>2. CASE k = 1
        BY <2>1, <2>2, <4>1, <4>2
      <4>3. CASE k # 1
        <5>1. k - 1 \in 1..Len(frameQ') /\ (k - 1) + 1 = k
          BY <2>2, <4>3
        <5>2. frameQ'[k - 1] = b
          BY <2>2, <4>1, <5>1
        <5> QED BY <5>1, <5>2
      <4> QED BY <4>2, <4>3
    <3>2. encoding # b
      BY <2>1, SomeBuffers
    <3> QED BY <1>1, <3>1, <3>2 DEF CamInv, NoneLost
  <2> QED BY <2>3, <2>4, <2>5 DEF CamInv
<1>2. CASE TakeFrame /\ ~(webcam /\ frameQ # <<>>)
  BY <1>2 DEF TakeFrame, CamInv, CamTypes, CamPhase, OneEach, NoneLost
<1>3. CASE FrameReady /\ webcam
  <2>1. /\ encoding # None /\ encoding' = None /\ isosend' = encoding /\ camQ' = camQ + 1
        /\ ~(camQ > 0 /\ sending = None)
        /\ UNCHANGED <<camMain, alive, camState, frameQ, camUsb, audioMsgs>>
    BY <1>3 DEF FrameReady, StillWebcam
  <2>2. camQ = 0
    <3> SUFFICES ASSUME camQ = 1 PROVE FALSE
      BY DEF CamInv, OneEach
    <3>0. sending # None
      BY <2>1
    <3>1. {encoding, sending, isosend} \subseteq Buffers
      BY <2>1, <3>0 DEF CamInv, CamTypes, OneEach
    <3>2. encoding # sending /\ encoding # isosend /\ sending # isosend
      BY <2>1, <3>0 DEF CamInv, OneEach
    <3> QED BY <3>1, <3>2, SomeBuffers DEF TwoBuffers, Buffers
  <2> QED BY <1>3, <2>1, <2>2, SomeBuffers DEF CamInv, CamTypes, CamPhase, OneEach, NoneLost
<1>4. CASE FrameReady /\ ~webcam
  <2>1. encoding # None /\ encoding' = None
        /\ UNCHANGED <<isosend, camQ, camMain, alive, camState, frameQ, camUsb, audioMsgs>>
    BY <1>4 DEF FrameReady, StillWebcam
  <2> QED BY <1>4, <2>1, SomeBuffers DEF CamInv, CamTypes, CamPhase, OneEach, NoneLost
<1> QED BY <1>1, <1>2, <1>3, <1>4 DEF VideoTask

(* The USB task keeps it: there is room for the buffer that comes back.    *)
LEMMA UsbTaskKeeps == ASSUME CamInv, UsbTask, TwoBuffers PROVE CamInv'
<1> USE DEF camMain, camState, camVideo, camAudio, camUsb
<1>1. CASE SendStart
  <2>1. /\ sending = None /\ camQ = 1 /\ camQ' = 0 /\ sending' = isosend
        /\ UNCHANGED <<camMain, alive, camState, frameQ, camVideo, audioMsgs>>
    BY <1>1 DEF SendStart, CamInv, CamTypes, OneEach
  <2>2. OneEach' /\ NoneLost'
    <3>1. OneEach'
      BY <2>1 DEF CamInv, OneEach
    <3>2. NoneLost'
      <4>1. UNCHANGED <<webcam, encoding, isosend, frameQ>>
        BY <2>1
      <4> QED BY <2>1, <4>1, SomeBuffers DEF CamInv, NoneLost
    <3> QED BY <3>1, <3>2
  <2>3. CamTypes'
    BY <2>1 DEF CamInv, CamTypes
  <2>4. CamPhase'
    BY <2>1 DEF CamInv, CamPhase
  <2> QED BY <2>2, <2>3, <2>4 DEF CamInv
<1>2. CASE SendEnd
  <2>1. /\ alive /\ sending # None /\ sending' = None /\ Back
        /\ UNCHANGED <<camMain, alive, camState, camVideo, camQ, audioMsgs>>
    BY <1>2 DEF SendEnd
  <2>2. sending \in Buffers /\ frameQ \in Seq(Buffers) /\ Len(frameQ) \in Nat
        /\ \A k \in 1..Len(frameQ) : frameQ[k] \in 1..NBuf /\ frameQ[k] # sending
    <3>1. sending \in Buffers /\ frameQ \in Seq(Buffers)
      BY <2>1 DEF CamInv, CamTypes
    <3>2. \A k \in 1..Len(frameQ) : frameQ[k] # sending
      BY DEF CamInv, OneEach
    <3>3. Len(frameQ) \in Nat /\ \A k \in 1..Len(frameQ) : frameQ[k] \in Buffers
      BY <3>1
    <3> QED BY <3>1, <3>2, <3>3 DEF Buffers
  <2>3. Len(frameQ) < NBuf
    <3>1. CASE NBuf = 1
      <4>1. Len(frameQ) >= 1 => 1 \in 1..Len(frameQ)
        BY <2>2
      <4> QED BY <2>2, <3>1, <4>1 DEF Buffers
    <3>2. CASE NBuf = 2
      <4>1. Len(frameQ) >= 2 => 1 \in 1..Len(frameQ) /\ 2 \in 1..Len(frameQ)
        BY <2>2
      <4>2. 1 \in 1..Len(frameQ) /\ 2 \in 1..Len(frameQ) => frameQ[1] # frameQ[2]
        BY DEF CamInv, OneEach
      <4> QED BY <2>2, <3>2, <4>1, <4>2 DEF Buffers
    <3> QED BY <3>1, <3>2, SomeBuffers DEF TwoBuffers
  <2>4. /\ frameQ' \in Seq(Buffers) /\ Len(frameQ') = Len(frameQ) + 1
        /\ frameQ'[Len(frameQ) + 1] = sending /\ \A k \in 1..Len(frameQ) : frameQ'[k] = frameQ[k]
    BY <2>1, <2>2, <2>3 DEF Back
  <2>5. main \notin {"out", "entered", "starting"}
    BY <2>1 DEF CamInv, CamPhase
  <2>6. CamTypes' /\ CamPhase'
    BY <2>1, <2>4, <2>5 DEF CamInv, CamTypes, CamPhase
  <2>7. OneEach'
    <3>1. \A k \in 1..Len(frameQ') : k \in 1..Len(frameQ) \/ k = Len(frameQ) + 1
      BY <2>2, <2>4
    <3>2. sending # encoding /\ (camQ = 1 => sending # isosend)
      BY <2>1 DEF CamInv, OneEach
    <3>3. \A k \in 1..Len(frameQ') : frameQ'[k] # None /\ frameQ'[k] # encoding
                                     /\ (camQ = 1 => frameQ'[k] # isosend)
      BY <2>2, <2>4, <3>1, <3>2, SomeBuffers DEF CamInv, OneEach, Buffers
    <3>4. \A j, k \in 1..Len(frameQ') : frameQ'[j] = frameQ'[k] => j = k
      BY <2>2, <2>4, <3>1 DEF CamInv, OneEach
    <3> QED BY <2>1, <3>3, <3>4 DEF CamInv, OneEach
  <2>8. NoneLost'
    <3> SUFFICES ASSUME NEW b \in Buffers, webcam
                 PROVE  \/ \E k \in 1..Len(frameQ') : frameQ'[k] = b
                        \/ encoding = b \/ None = b \/ (camQ = 1 /\ isosend = b)
      BY <2>1 DEF NoneLost
    <3>1. Len(frameQ) + 1 \in 1..Len(frameQ') /\ \A k \in 1..Len(frameQ) : k \in 1..Len(frameQ')
      BY <2>2, <2>4
    <3> QED BY <2>4, <3>1 DEF CamInv, NoneLost
  <2> QED BY <2>6, <2>7, <2>8 DEF CamInv
<1> QED BY <1>1, <1>2 DEF UsbTask

(* What the audio tasks do to their queue.                                 *)
LEMMA AudioCount ==
  ASSUME CamTypes, SwitchCsiFrame \/ HostAlt \/ MicDone \/ AudioTask \/ UsbAudioTask
  PROVE  audioMsgs' \in Nat
<1> USE DEF camAudio
<1>1. CASE SwitchCsiFrame \/ HostAlt \/ MicDone
  BY <1>1 DEF SwitchCsiFrame, HostAlt, MicDone, CamTypes
<1>2. CASE UsbAudioTask
  BY <1>2 DEF UsbAudioTask, CamTypes
<1>3. CASE AudioTask
  <2>1. audioMsgs + 1 \in Nat /\ UsbAudQ \in Nat
    BY LengthAssumption DEF CamTypes
  <2>2. audioMsgs' = audioMsgs \/ audioMsgs' = Min({audioMsgs + 1, UsbAudQ})
    BY <1>3 DEF AudioTask, MicBuffer, MicStart, MicStoping, MicStop
  <2> QED BY <2>1, <2>2, MinOfTwo DEF CamTypes
<1> QED BY <1>1, <1>2, <1>3

(* The sensor, the host, the microphone and the audio tasks keep it: they  *)
(* have no video buffers.                                                  *)
LEMMA OthersKeep ==
  ASSUME CamInv, SwitchCsiFrame \/ HostAlt \/ MicDone \/ AudioTask \/ UsbAudioTask
  PROVE  CamInv'
<1> USE DEF camMain, camState, camVideo, camAudio, camUsb
<1>1. UNCHANGED <<camMain, alive, camState, frameQ, encoding, isosend, camQ, sending>>
  BY DEF SwitchCsiFrame, HostAlt, MicDone, AudioTask, UsbAudioTask
<1>2. audioMsgs' \in Nat
  BY AudioCount DEF CamInv
<1> QED BY <1>1, <1>2 DEF CamInv, CamTypes, CamPhase, OneEach, NoneLost

(* Every step of the whole keeps the invariant.                            *)
LEMMA CamStepKeeps == ASSUME CamInv, [Next]_usbVars, ~overtaken', TwoBuffers PROVE CamInv'
<1>1. CASE CamStep
  BY <1>1, CamMainKeeps, WebcamRequestKeeps, VideoTaskKeeps, UsbTaskKeeps, OthersKeep
  DEF CamStep, CamNext
<1>2. CASE ~CamStep
  <2>1. UNCHANGED camVars
    BY <1>2 DEF Next, DiskCommand, DiskStep, CardStep, LinkStep, InDisk, CableOutOfDisk, CameraKey,
                PictureKey, PowerOff, usbVars
  <2> QED BY <2>1 DEF CamInv, CamTypes, CamPhase, OneEach, NoneLost, camVars, camMain, camState,
                      camVideo, camUsb, camAudio
<1> QED BY <1>1, <1>2

(* A buffer that is nowhere twice is in the queue once at most.            *)
LEMMA CountOne ==
  ASSUME CamInv, NEW b \in Buffers
  PROVE  Cardinality({k \in DOMAIN frameQ : frameQ[k] = b}) =
           Here(\E k \in 1..Len(frameQ) : frameQ[k] = b)
<1>0. DOMAIN frameQ = 1..Len(frameQ)
  BY DEF CamInv, CamTypes
<1>1. CASE \E k \in 1..Len(frameQ) : frameQ[k] = b
  <2>1. PICK k \in 1..Len(frameQ) : frameQ[k] = b
    BY <1>1
  <2>2. {j \in DOMAIN frameQ : frameQ[j] = b} = {k}
    BY <1>0, <2>1 DEF CamInv, OneEach
  <2> QED BY <1>1, <2>2, FS_Singleton DEF Here
<1>2. CASE ~\E k \in 1..Len(frameQ) : frameQ[k] = b
  <2>1. {j \in DOMAIN frameQ : frameQ[j] = b} = {}
    BY <1>0, <1>2
  <2> QED BY <1>2, <2>1, FS_EmptySet DEF Here
<1> QED BY <1>1, <1>2

(* What the invariant says of the owners of a buffer.                      *)
LEMMA CamInvOwners ==
  ASSUME CamInv, NEW b \in Buffers
  PROVE  Owners(b) <= 1 /\ (main \in {"askMic", "startingMic", "on"} => Owners(b) = 1)
<1>1. (IF isosend = b THEN camQ ELSE 0) = Here(camQ = 1 /\ isosend = b)
  BY DEF CamInv, CamTypes, OneEach, Here
<1>2. Owners(b) = Here(\E k \in 1..Len(frameQ) : frameQ[k] = b) + Here(encoding = b)
                    + Here(camQ = 1 /\ isosend = b) + Here(sending = b)
  BY <1>1, CountOne DEF Owners
<1>3. b # None
  BY SomeBuffers
<1>4. main \in {"askMic", "startingMic", "on"} => webcam
  BY DEF CamInv, CamPhase
<1> QED BY <1>2, <1>3, <1>4 DEF CamInv, OneEach, NoneLost, Here

(* The number of places is kept by every step.                             *)
LEMMA RoundsInit == ASSUME CamInit PROVE Rounds
<1>1. CamTypes /\ CamPhase
  BY CamInitKeeps DEF CamInv
<1>2. Places = 0 /\ ~webcam
  BY DEF CamInit, Places, Here
<1> QED BY <1>1, <1>2, SomeBuffers DEF Rounds

LEMMA RoundMain == ASSUME Rounds, CamEntrance \/ CamMain \/ ClearStatus PROVE Rounds'
<1> USE DEF camMain, camState, camVideo, camAudio, camUsb, Go
<1>1. ASSUME UNCHANGED <<frameQ, camVideo, camQ, sending>>, webcam' => webcam
      PROVE  Places' <= NBuf /\ (webcam' => Places' = NBuf)
  BY <1>1 DEF Rounds, Places
<1>2. CASE CamEntrance
  BY <1>1, <1>2 DEF CamEntrance, Rounds, CamTypes, CamPhase
<1>7. CASE ClearStatus
  BY <1>1, <1>7 DEF ClearStatus, Rounds, CamTypes, CamPhase
<1>3. CASE AskState("entered", "starting", "START")
  BY <1>1, <1>3 DEF AskState, Rounds, CamTypes, CamPhase
<1>8. CASE AskState("askStop", "stopping", "STOP")
  BY <1>1, <1>8 DEF AskState, Rounds, CamTypes, CamPhase
<1>4. CASE \/ AskAudio("askMic", "startingMic", "START") \/ AudioAcked("startingMic", "on", "START")
           \/ ack /\ AskAudio("stopping", "stoppingMic", "STOPING")
           \/ AudioAcked("stoppingMic", "exit", "STOP")
  <2>1. /\ UNCHANGED <<webcam, alive, camState, frameQ, camVideo, camQ, camUsb, audioMsgs>>
        /\ \/ main = "askMic" /\ main' = "startingMic"
           \/ main = "startingMic" /\ main' = "on"
           \/ main = "stopping" /\ main' = "stoppingMic" /\ ack
           \/ main = "stoppingMic" /\ main' = "exit"
    BY <1>4 DEF AskAudio, AudioAcked
  <2>2. CamTypes'
    BY <2>1 DEF Rounds, CamTypes
  <2>3. CamPhase'
    BY <2>1 DEF Rounds, CamPhase
  <2> QED BY <1>1, <2>1, <2>2, <2>3 DEF Rounds
<1>5. CASE SetStatus
  <2>1. main = "starting" /\ main' = "askMic" /\ webcam' = TRUE /\ ack
        /\ UNCHANGED <<alive, camState, frameQ, camVideo, camQ, camUsb, audioMsgs>>
    BY <1>5 DEF SetStatus
  <2>2. frameQ = [k \in 1..NBuf |-> k] /\ encoding = None /\ sending = None /\ camQ = 0
    BY <2>1 DEF Rounds, CamPhase, Buffers
  <2>3. CamTypes' /\ CamPhase'
    BY <2>1 DEF Rounds, CamTypes, CamPhase
  <2>4. Len(frameQ) = NBuf
    BY <2>2, SomeBuffers
  <2>5. Places' = NBuf
    BY <2>1, <2>2, <2>4, SomeBuffers DEF Places, Here
  <2> QED BY <2>3, <2>5, SomeBuffers DEF Rounds
<1>6. CASE CamExit
  <2>1. /\ main = "exit" /\ main' = "off" /\ alive' = FALSE /\ camQ' = 0 /\ sending' = None /\ audioMsgs' = 0
        /\ UNCHANGED <<webcam, camState, frameQ, camVideo>>
    BY <1>6 DEF CamExit
  <2>2. ~webcam /\ request \notin {"START", "STOP"}
    BY <2>1 DEF Rounds, CamPhase
  <2>3. CamTypes'
    <3>1. UNCHANGED <<webcam, ack, request, frameQ, encoding, isosend>>
      BY <2>1
    <3>2. sending' \in Buffers \cup {None} /\ camQ' \in Nat /\ audioMsgs' \in Nat /\ ~(camQ' > 0)
      BY <2>1
    <3>3. main' \in {"exit", "off"} /\ alive' \in BOOLEAN
      BY <2>1
    <3> QED BY <3>1, <3>2, <3>3 DEF Rounds, CamTypes
  <2>4. CamPhase'
    BY <2>1, <2>2 DEF CamPhase
  <2>5. Places' <= NBuf
    <3>1. Len(frameQ) \in Nat /\ camQ \in Nat
      BY DEF Rounds, CamTypes
    <3>2. Places' = Len(frameQ) + Here(encoding # None)
      BY <2>1, <3>1 DEF Places, Here
    <3>3. Len(frameQ) + Here(encoding # None) + camQ + Here(sending # None) <= NBuf
      BY DEF Rounds, Places
    <3>4. Here(encoding # None) \in {0, 1} /\ Here(sending # None) \in {0, 1}
      BY DEF Here
    <3>5. Len(frameQ) + Here(encoding # None) <= NBuf
      BY <3>1, <3>3, <3>4, SomeBuffers
    <3> QED BY <3>2, <3>5
  <2> QED BY <2>1, <2>2, <2>3, <2>4, <2>5 DEF Rounds
<1> QED BY <1>2, <1>3, <1>4, <1>5, <1>6, <1>7, <1>8 DEF CamMain

LEMMA RoundRequest == ASSUME Rounds, WebcamRequest PROVE Rounds'
<1> USE DEF camMain, camState, camVideo, camAudio, camUsb
<1>1. ~webcam /\ webcam' = webcam
  BY DEF Rounds, CamPhase, CamTypes, WebcamRequest
<1>2. CASE request = "START"
  <2>1. main = "starting" /\ encoding = None /\ sending = None /\ camQ = 0
    BY <1>2 DEF Rounds, CamPhase
  <2>2. frameQ' = [k \in 1..NBuf |-> k]
    BY <1>2, SomeBuffers DEF WebcamRequest, Flushed, Buffers
  <2>3. frameQ' \in Seq(Buffers) /\ Len(frameQ') = NBuf
    BY <2>2, SomeBuffers DEF Buffers
  <2>4. Places' = NBuf
    BY <2>1, <2>3, SomeBuffers DEF WebcamRequest, Places, Here
  <2>5. CamTypes'
    BY <2>3 DEF WebcamRequest, Rounds, CamTypes
  <2>6. CamPhase'
    BY <2>1, <2>2 DEF WebcamRequest, Rounds, CamPhase, Buffers
  <2> QED BY <2>4, <2>5, <2>6, SomeBuffers DEF Rounds
<1>3. CASE request = "STOP"
  <2>1. main = "stopping" /\ frameQ' = <<>>
    BY <1>3 DEF WebcamRequest, Flushed, Rounds, CamPhase
  <2>2. frameQ' \in Seq(Buffers) /\ Len(frameQ') = 0
    BY <2>1
  <2>3. UNCHANGED <<main, alive, webcam, encoding, sending, isosend, camQ, audioMsgs>>
        /\ request' = "none" /\ ack' \in BOOLEAN
    BY DEF WebcamRequest
  <2>4. CamTypes'
    BY <2>2, <2>3 DEF Rounds, CamTypes
  <2>5. CamPhase'
    BY <2>1, <2>3 DEF Rounds, CamPhase
  <2>6. Places' <= NBuf
    <3>1. Len(frameQ) \in Nat /\ camQ \in Nat
      BY DEF Rounds, CamTypes
    <3>2. Len(frameQ) + Here(encoding # None) + camQ + Here(sending # None) <= NBuf
      BY DEF Rounds, Places
    <3>3. Here(encoding # None) \in {0, 1} /\ Here(sending # None) \in {0, 1}
      BY DEF Here
    <3>4. Places' = 0 + Here(encoding # None) + camQ + Here(sending # None)
      BY <2>2, <2>3 DEF Places, Here
    <3> QED BY <3>1, <3>2, <3>3, <3>4, SomeBuffers
  <2> QED BY <1>1, <2>4, <2>5, <2>6 DEF Rounds
<1> QED BY <1>2, <1>3 DEF WebcamRequest, Rounds, CamTypes

LEMMA RoundBuffers == ASSUME Rounds, VideoTask \/ UsbTask PROVE Rounds'
<1> USE DEF camMain, camState, camVideo, camAudio, camUsb
<1>1. /\ frameQ \in Seq(Buffers) /\ Len(frameQ) \in Nat /\ camQ \in Nat /\ NBuf \in Nat
      /\ Places <= NBuf /\ (webcam => Places = NBuf)
  BY SomeBuffers DEF Rounds, CamTypes
<1>2. CASE TakeFrame /\ webcam /\ frameQ # <<>>
  <2>1. /\ encoding = None /\ encoding' = Head(frameQ) /\ frameQ' = Tail(frameQ)
        /\ UNCHANGED <<camMain, alive, camState, isosend, camQ, camUsb, audioMsgs>>
    BY <1>2 DEF TakeFrame
  <2>2. /\ frameQ' \in Seq(Buffers) /\ Len(frameQ') = Len(frameQ) - 1
        /\ encoding' \in Buffers /\ encoding' # None
    BY <1>1, <1>2, <2>1, SomeBuffers
  <2>3. Places' = Places
    BY <1>1, <2>1, <2>2 DEF Places, Here
  <2>4. CamTypes' /\ CamPhase'
    BY <1>2, <2>1, <2>2 DEF Rounds, CamTypes, CamPhase
  <2> QED BY <1>1, <2>1, <2>3, <2>4 DEF Rounds
<1>3. CASE TakeFrame /\ ~(webcam /\ frameQ # <<>>)
  BY <1>3 DEF TakeFrame, Rounds, CamTypes, CamPhase, Places
<1>4. CASE FrameReady
  <2>1. /\ encoding # None /\ encoding' = None
        /\ UNCHANGED <<camMain, alive, camState, frameQ, camUsb, audioMsgs>>
    BY <1>4 DEF FrameReady
  <2>2. isosend' \in {isosend, encoding} /\ camQ' = camQ + Here(webcam)
    BY <1>1, <1>4 DEF FrameReady, StillWebcam, Here
  <2>3. Places' = Places - 1 + Here(webcam) /\ camQ' \in Nat
    <3>1. Here(webcam) \in {0, 1} /\ Here(sending # None) \in {0, 1}
      BY DEF Here
    <3>2. Here(encoding # None) = 1 /\ Here(encoding' # None) = 0
      BY <2>1 DEF Here
    <3>3. Places' = Len(frameQ) + 0 + camQ' + Here(sending # None)
      BY <2>1, <3>2 DEF Places
    <3>4. Places = Len(frameQ) + 1 + camQ + Here(sending # None)
      BY <3>2 DEF Places
    <3> QED BY <1>1, <2>2, <3>1, <3>3, <3>4
  <2>4. CamTypes' /\ CamPhase'
    <3>1. encoding \in Buffers /\ encoding # None
      BY <2>1 DEF Rounds, CamTypes
    <3>2. camQ' > 0 => isosend' # None
      <4>1. CASE webcam
        BY <1>4, <3>1, <4>1 DEF FrameReady, StillWebcam
      <4>2. CASE ~webcam
        BY <1>4, <4>2 DEF FrameReady, StillWebcam, Rounds, CamTypes
      <4> QED BY <4>1, <4>2
    <3>3. CamTypes'
      BY <2>1, <2>2, <2>3, <3>1, <3>2 DEF Rounds, CamTypes
    <3>4. main \notin {"out", "entered", "starting"}
      BY <2>1 DEF Rounds, CamPhase
    <3>5. CamPhase'
      BY <2>1, <3>4 DEF Rounds, CamPhase
    <3> QED BY <3>3, <3>5
  <2>5. Places' <= NBuf /\ (webcam' => Places' = NBuf)
    <3>1. Places \in Int
      BY <1>1 DEF Places, Here
    <3> QED BY <1>1, <2>1, <2>3, <3>1 DEF Here
  <2> QED BY <2>4, <2>5 DEF Rounds
<1>5. CASE SendStart
  <2>1. /\ alive /\ sending = None /\ camQ > 0 /\ camQ' = camQ - 1 /\ sending' = isosend
        /\ UNCHANGED <<camMain, alive, camState, frameQ, camVideo, audioMsgs>>
    BY <1>5 DEF SendStart
  <2>2. CamTypes' /\ CamPhase'
    BY <1>1, <2>1 DEF Rounds, CamTypes, CamPhase
  <2>3. isosend # None
    BY <2>1 DEF Rounds, CamTypes
  <2>4. Places' = Places
    BY <1>1, <2>1, <2>3 DEF Places, Here
  <2> QED BY <1>1, <2>1, <2>2, <2>4 DEF Rounds
<1>6. CASE SendEnd
  <2>1. /\ alive /\ sending # None /\ sending' = None /\ Back
        /\ UNCHANGED <<camMain, alive, camState, camVideo, camQ, audioMsgs>>
    BY <1>6 DEF SendEnd
  <2>2. Len(frameQ) < NBuf /\ sending \in Buffers
    BY <1>1, <2>1 DEF Places, Here, Rounds, CamTypes
  <2>3. frameQ' \in Seq(Buffers) /\ Len(frameQ') = Len(frameQ) + 1
    BY <1>1, <2>1, <2>2 DEF Back
  <2>4. Places' = Places
    BY <1>1, <2>1, <2>3 DEF Places, Here
  <2>5. main \notin {"out", "entered", "starting"}
    BY <2>1 DEF Rounds, CamPhase
  <2>6. CamTypes' /\ CamPhase'
    BY <2>1, <2>3, <2>5 DEF Rounds, CamTypes, CamPhase
  <2> QED BY <1>1, <2>1, <2>4, <2>6 DEF Rounds
<1> QED BY <1>2, <1>3, <1>4, <1>5, <1>6 DEF VideoTask, UsbTask

LEMMA RoundOthers ==
  ASSUME Rounds, SwitchCsiFrame \/ HostAlt \/ MicDone \/ AudioTask \/ UsbAudioTask
  PROVE  Rounds'
<1>1. UNCHANGED <<camMain, alive, camState, frameQ, encoding, isosend, camQ, sending>>
  BY DEF SwitchCsiFrame, HostAlt, MicDone, AudioTask, UsbAudioTask, camMain, camState, camVideo,
         camAudio, camUsb
<1>2. audioMsgs' \in Nat
  BY AudioCount DEF Rounds
<1> QED BY <1>1, <1>2 DEF Rounds, CamTypes, CamPhase, Places, camMain, camState

LEMMA RoundStepKeeps == ASSUME Rounds, [Next]_usbVars PROVE Rounds'
<1>1. CASE CamStep
  BY <1>1, RoundMain, RoundRequest, RoundBuffers, RoundOthers DEF CamStep, CamNext
<1>2. CASE ~CamStep
  <2>1. UNCHANGED camVars
    BY <1>2 DEF Next, DiskCommand, DiskStep, CardStep, LinkStep, InDisk, CableOutOfDisk, CameraKey,
                PictureKey, PowerOff, usbVars
  <2> QED BY <2>1 DEF Rounds, CamTypes, CamPhase, Places, camVars, camMain, camState,
                      camVideo, camUsb, camAudio
<1> QED BY <1>1, <1>2

(* Once a message was written over that stays on record.                   *)
LEMMA OvertakenStays ==
  ASSUME overtaken \in BOOLEAN, [Next]_usbVars
  PROVE  overtaken' \in BOOLEAN /\ (overtaken => overtaken')
<1> USE DEF camMain, camState, camVideo, camAudio, camUsb, camVars
<1>1. CASE CamNext
  BY <1>1 DEF CamNext, CamEntrance, CamMain, AskState, SetStatus, AskAudio, AudioAcked, CamExit,
          Go, ClearStatus, WebcamRequest, SwitchCsiFrame, VideoTask, TakeFrame, FrameReady, StillWebcam,
          HostAlt, UsbTask, SendStart, SendEnd, MicDone, AudioTask, UsbAudioTask
<1> QED BY <1>1 DEF Next, CamStep, DiskCommand, DiskStep, CardStep, LinkStep, InDisk,
                    CableOutOfDisk, CameraKey, PictureKey, PowerOff, usbVars

(* No buffer of the web camera has two owners, and none is lost while it   *)
(* is on, with the two buffers the code has and as long as the USB task    *)
(* reads each message before the next; the number of places is kept        *)
(* without that.                                                           *)
THEOREM OwnersAreOne == ASSUME TwoBuffers PROVE FairSpec => []FrameHasOneOwner
<1>1. Init => RoundInv
  BY CamInitKeeps, RoundsInit DEF Init, CamInit, RoundInv
<1>2. RoundInv /\ [Next]_usbVars => RoundInv'
  BY CamStepKeeps, RoundStepKeeps, OvertakenStays DEF RoundInv
<1>3. RoundInv => FrameHasOneOwner
  <2>1. ASSUME RoundInv PROVE main \in {"askMic", "startingMic", "on"} => webcam
    BY <2>1 DEF RoundInv, Rounds, CamPhase
  <2> QED BY <2>1, CamInvOwners DEF RoundInv, Rounds, Places, FrameHasOneOwner
<1> QED BY <1>1, <1>2, <1>3, PTL DEF FairSpec

(* No message goes to a queue of the USB tasks after they were deleted:    *)
(* the video and the audio task post only while they see the web camera    *)
(* on, and then the tasks are there.                                       *)
THEOREM PostsAlwaysReach == FairSpec => PostsReachTasks
<1>1. Init => Rounds
  BY RoundsInit DEF Init
<1>2. Rounds /\ [Next]_usbVars => Rounds'
  BY RoundStepKeeps
<1>3. Rounds /\ [Next]_usbVars => [(camQ' > camQ \/ audioMsgs' > audioMsgs) => alive]_camVars
  <2> SUFFICES ASSUME Rounds, [Next]_usbVars, ~alive
               PROVE  ~(camQ' > camQ) /\ ~(audioMsgs' > audioMsgs)
    OBVIOUS
  <2>1. ~webcam /\ camQ \in Nat /\ audioMsgs \in Nat
    BY DEF Rounds, CamTypes, CamPhase
  <2>2. camQ' \in {0, camQ} /\ (audioMsgs' \in {0, audioMsgs} \/ audioMsgs' = audioMsgs - 1)
    <3> USE DEF camMain, camState, camVideo, camAudio, camUsb, camVars
    <3>1. CASE UNCHANGED camVars
      BY <3>1
    <3>2. CASE CamNext
      BY <2>1, <3>2 DEF CamNext, CamEntrance, CamMain, AskState, SetStatus, AskAudio, AudioAcked, CamExit,
          Go, ClearStatus, WebcamRequest, SwitchCsiFrame, VideoTask, TakeFrame, FrameReady, StillWebcam,
          HostAlt, UsbTask, SendStart, SendEnd, MicDone, AudioTask, MicBuffer, MicStart, MicStoping,
          MicStop, UsbAudioTask, Rounds, CamPhase
    <3> QED BY <3>1, <3>2 DEF Next, CamStep, DiskCommand, DiskStep, CardStep, LinkStep, InDisk,
              CableOutOfDisk, CameraKey, PictureKey, PowerOff, usbVars
  <2> QED BY <2>1, <2>2
<1> QED BY <1>1, <1>2, <1>3, PTL DEF FairSpec, PostsReachTasks

=============================================================================
