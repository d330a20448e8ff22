---------------------------- MODULE BlockDevice ----------------------------
(***************************************************************************)
(* What the host may rely on when the camera is its disk: a command that   *)
(* is answered "good" has delivered the blocks it asked for as they are on *)
(* the card, or has put the blocks it sent on the card.  A write that is   *)
(* not answered "good" may have put any of its blocks there.               *)
(***************************************************************************)
EXTENDS Integers, Sequences

CONSTANTS Blocks, Data

VARIABLES
  card,   \* Block -> Data
  cmd,    \* "none", "read" or "write"
  lba, len, sent,  \* the command, and for a write the blocks the host sends
  status, \* "none" while it runs, then "good" or "bad"
  got     \* what the host has received

abstractVars == <<card, cmd, lba, len, sent, status, got>>

Whole == lba + len <= Blocks
Wanted == [k \in 1..len |-> card[lba + k - 1]]

Init ==
  /\ card \in [0..(Blocks - 1) -> Data] /\ cmd = "none" /\ lba = 0 /\ len = 0
  /\ sent = <<>> /\ status = "none" /\ got = <<>>

Ask ==
  /\ cmd = "none" /\ cmd' \in {"read", "write"} /\ lba' \in Nat /\ len' \in Nat \ {0}
  /\ sent' \in Seq(Data) /\ status' = "none" /\ got' = <<>> /\ UNCHANGED card

Put ==
  /\ cmd = "write" /\ status = "none" /\ Whole
  /\ \E k \in 1..len : card' = [card EXCEPT ![lba + k - 1] = sent[k]]
  /\ UNCHANGED <<cmd, lba, len, sent, status, got>>

(* The host receives something; whether it is right counts when the        *)
(* command is answered.                                                    *)
Deliver ==
  /\ cmd = "read" /\ Len(got) < len /\ \E d \in Data : got' = Append(got, d)
  /\ UNCHANGED <<card, cmd, lba, len, sent, status>>

Good ==
  /\ cmd # "none" /\ status = "none" /\ Whole /\ status' = "good"
  /\ cmd = "read" => got = Wanted
  /\ cmd = "write" => Wanted = sent
  /\ UNCHANGED <<card, cmd, lba, len, sent, got>>

Bad ==
  /\ cmd # "none" /\ status = "none" /\ status' = "bad"
  /\ UNCHANGED <<card, cmd, lba, len, sent, got>>

Done ==
  /\ status # "none" /\ cmd' = "none" /\ lba' = 0 /\ len' = 0 /\ sent' = <<>>
  /\ status' = "none" /\ got' = <<>> /\ UNCHANGED card

Next == Ask \/ Put \/ Deliver \/ Good \/ Bad \/ Done

Spec == Init /\ [][Next]_abstractVars
=============================================================================
