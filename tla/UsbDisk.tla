------------------------------ MODULE UsbDisk ------------------------------
(***************************************************************************)
(* The camera as a disk (application/task_usb/src/ap_usb.c): Read_10 and   *)
(* Write_10 move one block at a time through two buffers A and B, so that  *)
(* the card and the link work at the same time.  A transfer is started by  *)
(* one call and waited for by a later one; it ends by itself, well or not. *)
(*                                                                         *)
(* The card driver, the link driver and the SCSI service that reads the    *)
(* sense code are libraries: the card moves the blocks of a command in     *)
(* order, a buffer holds Junk while it is filled, and the answer to a      *)
(* failed command ends what is still moving.  May names the calls and      *)
(* transfers that may fail.                                                *)
(***************************************************************************)
EXTENDS Integers, Sequences

CONSTANTS Blocks, MaxLen, May

ASSUME SizeAssumption == Blocks \in Nat \ {0} /\ MaxLen \in Nat \ {0}

VARIABLES
  card, cmd, lba, len, sent, status, got,   \* as in BlockDevice
  pc,      \* the call Read_10 or Write_10 makes next
  i,       \* the block of the loop
  a,       \* which buffer USB_RW_Buffer_PTR_A points to
  ret,     \* the last call has returned 0
  buf,     \* the two halves of BUF
  sd,      \* the card's transfer
  link,    \* the link's transfer
  arrived  \* blocks the host has handed over

diskVars == <<card, cmd, lba, len, sent, status, got, pc, i, a, ret, buf, sd, link, arrived>>
command  == <<cmd, lba, len, sent>>

Junk == 2 * Blocks + MaxLen
Data == 0..Junk
Quiet == [st |-> "idle", buf |-> 0, blk |-> 0]
B == 1 - a
LastBlock == i = len - 1

DiskInit ==
  /\ card = [b \in 0..(Blocks - 1) |-> b]
  /\ cmd = "none" /\ lba = 0 /\ len = 0 /\ sent = <<>> /\ status = "none" /\ got = <<>>
  /\ pc = "idle" /\ i = 0 /\ a = 0 /\ ret = TRUE /\ buf = [b \in 0..1 |-> Junk]
  /\ sd = Quiet /\ link = Quiet /\ arrived = 0

(* The SCSI service reads a command of the host and calls Read_10 or       *)
(* Write_10, which check the range and open the card.                      *)
Ask(c, from, n) ==
  /\ pc = "idle" /\ cmd = "none"
  /\ cmd' = c /\ lba' = from /\ len' = n
  /\ sent' = IF c = "write" THEN [k \in 1..n |-> Blocks + from + k - 1] ELSE <<>>
  /\ i' = 0 /\ a' = 0 /\ buf' = [b \in 0..1 |-> Junk] /\ sd' = Quiet /\ link' = Quiet
  /\ got' = <<>> /\ arrived' = 0
  /\ \/ from + n > Blocks /\ pc' = "end" /\ ret' = FALSE
     \/ from + n <= Blocks /\ pc' = (IF c = "read" THEN "fetch" ELSE "receive")
        /\ ret' = TRUE
     \/ from + n <= Blocks /\ "command" \in May /\ pc' = "end" /\ ret' = FALSE
  /\ UNCHANGED <<card, status>>

(* A transfer that goes into a buffer makes what was there unreadable.     *)
Filling(b) == buf' = [buf EXCEPT ![b] = Junk]
Going(b) == [st |-> "run", buf |-> b, blk |-> i]

StartFails(next) ==
  /\ "start" \in May /\ ret' = FALSE /\ pc' = next
  /\ UNCHANGED buf

(* The wait of the code: until the transfer has ended; an error leaves the *)
(* loop.                                                                   *)
Ended(t) == t.st \in {"ok", "bad"}
WaitFor(t, next) ==
  /\ Ended(t) /\ ret' = (t.st = "ok") /\ pc' = IF t.st = "ok" THEN next ELSE "end"
  /\ UNCHANGED <<card, command, status, got, i, a, buf, sd, link, arrived>>

(* Variant: the buffers keep their roles.                                  *)
SwapForgotten == a' = a
Swap == a' = B
NextBlock == i' = i + 1

(* Read_10: the card fills A while the link empties B.                     *)
Fetch ==
  /\ pc = "fetch"
  /\ \/ sd' = Going(a) /\ Filling(a) /\ pc' = "fetched" /\ ret' = TRUE
     \/ StartFails("end") /\ UNCHANGED sd
  /\ UNCHANGED <<card, command, status, got, i, a, link, arrived>>

(* A send of the block before is under way; the mutant waits for it always. *)
AlwaysStaged == TRUE
Staged == i # 0

(* For the first block the card's error is checked; for the others the     *)
(* next wait stores its own result over it.                                *)
Fetched ==
  /\ pc = "fetched"
  /\ IF Staged
     THEN /\ Ended(sd) /\ ret' = (sd.st = "ok") /\ pc' = "drain"
          /\ UNCHANGED <<card, command, status, got, i, a, buf, sd, link, arrived>>
     ELSE WaitFor(sd, "send")

Drain == pc = "drain" /\ WaitFor(link, "send")

Send ==
  /\ pc = "send"
  /\ \/ /\ link' = Going(a) /\ ret' = TRUE /\ UNCHANGED buf
        /\ IF LastBlock THEN pc' = "final" /\ UNCHANGED <<i, a>>
           ELSE pc' = "fetch" /\ Swap /\ NextBlock
     \/ StartFails("end") /\ UNCHANGED <<link, i, a>>
  /\ UNCHANGED <<card, command, status, got, sd, arrived>>

Final == pc = "final" /\ WaitFor(link, "end")

Read_10 == Fetch \/ Fetched \/ Drain \/ Send \/ Final

(* Write_10: the link fills B while the card empties A.  A receive that    *)
(* does not start is noticed by the wait for it.                           *)
Receive ==
  /\ pc = "receive"
  /\ \/ link' = Going(B) /\ Filling(B) /\ pc' = "loop" /\ ret' = TRUE
     \/ StartFails("loop") /\ link' = [Going(B) EXCEPT !.st = "bad"]
  /\ UNCHANGED <<card, command, status, got, i, a, sd, arrived>>

Loop ==
  /\ pc = "loop"
  /\ \/ i # 0 /\ WaitFor(sd, "received")
     \/ /\ i = 0 /\ pc' = (IF ret THEN "received" ELSE "end")
        /\ UNCHANGED <<card, command, status, got, i, a, ret, buf, sd, link, arrived>>

Received == pc = "received" /\ WaitFor(link, "put")

Put ==
  /\ pc = "put"
  /\ \/ /\ sd' = Going(B) /\ ret' = TRUE /\ UNCHANGED buf
        /\ IF LastBlock THEN pc' = "stored" /\ UNCHANGED <<i, a>>
           ELSE pc' = "receive" /\ Swap /\ NextBlock
     \/ StartFails("end") /\ UNCHANGED <<sd, i, a>>
  /\ UNCHANGED <<card, command, status, got, link, arrived>>

Stored == pc = "stored" /\ WaitFor(sd, "end")

Write_10 == Receive \/ Loop \/ Received \/ Put \/ Stored

(* The card is closed; the sense code says whether the command is good.    *)
(* Only Write_10 looks at the result of closing it.                        *)
Answer ==
  /\ pc = "end" /\ pc' = "idle"
  /\ \/ status' = (IF ret THEN "good" ELSE "bad")
     \/ "stop" \in May /\ cmd = "write" /\ status' = "bad"
  /\ sd' = Quiet /\ link' = Quiet
  /\ UNCHANGED <<card, command, got, i, a, ret, buf, arrived>>

Answered ==
  /\ status # "none" /\ status' = "none" /\ cmd' = "none" /\ lba' = 0 /\ len' = 0
  /\ sent' = <<>> /\ got' = <<>> /\ i' = 0 /\ a' = 0 /\ ret' = TRUE /\ arrived' = 0
  /\ buf' = [b \in 0..1 |-> Junk]
  /\ UNCHANGED <<card, pc, sd, link>>

(* The card's transfer ends.                                               *)
CardFault == IF cmd = "write" THEN "write" ELSE IF sd.blk = 0 THEN "first read" ELSE "later read"

CardDone ==
  /\ sd.st = "run"
  /\ \/ /\ sd' = [sd EXCEPT !.st = "ok"]
        /\ IF cmd = "read"
           THEN buf' = [buf EXCEPT ![sd.buf] = card[lba + sd.blk]] /\ UNCHANGED card
           ELSE card' = [card EXCEPT ![lba + sd.blk] = buf[sd.buf]] /\ UNCHANGED buf
     \/ /\ CardFault \in May /\ sd' = [sd EXCEPT !.st = "bad"]
        /\ UNCHANGED <<card, buf>>
  /\ UNCHANGED <<command, status, got, pc, i, a, ret, link, arrived>>

(* The link's transfer ends: the host takes or hands over a block, the     *)
(* link fails, or the host, which has all it asked for, lets it time out.  *)
HostReady == IF cmd = "read" THEN Len(got) < len ELSE arrived < len

LinkDone ==
  /\ link.st = "run"
  /\ \/ /\ HostReady /\ link' = [link EXCEPT !.st = "ok"]
        /\ IF cmd = "read"
           THEN got' = Append(got, buf[link.buf]) /\ UNCHANGED <<buf, arrived>>
           ELSE /\ buf' = [buf EXCEPT ![link.buf] = sent[arrived + 1]]
                /\ arrived' = arrived + 1 /\ UNCHANGED got
     \/ /\ HostReady /\ "link" \in May /\ link' = [link EXCEPT !.st = "bad"]
        /\ UNCHANGED <<buf, got, arrived>>
     \/ /\ ~HostReady /\ link' = [link EXCEPT !.st = "bad"]
        /\ UNCHANGED <<buf, got, arrived>>
  /\ UNCHANGED <<card, command, status, pc, i, a, ret, sd>>

Service == Read_10 \/ Write_10 \/ Answer
DiskNext ==
  \/ \E c \in {"read", "write"}, from \in 0..(Blocks - 1), n \in 1..MaxLen : Ask(c, from, n)
  \/ Service \/ Answered \/ CardDone \/ LinkDone

DiskSpec == DiskInit /\ [][DiskNext]_diskVars

(***************************************************************************)
(* Properties                                                              *)
(***************************************************************************)

Disk == INSTANCE BlockDevice

(* Ping-pong buffers, transfers that overlap and the four ways out of the  *)
(* loops together are a disk: what is answered good is right.  (With       *)
(* "later read" in May this is false, see GoodReadIsRight.)                *)
ImplementsBlockDevice == Disk!Spec

(* A block the card could not deliver is not handed to the host as good.   *)
GoodReadIsRight == (status = "good" /\ cmd = "read") => got = Disk!Wanted

=============================================================================
