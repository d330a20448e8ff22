----------------------------- MODULE AppendFile -----------------------------
(***************************************************************************)
(* What the AVI packer promises: the words it accepts reach the file in    *)
(* order, the file is complete when it is reported closed, and after a     *)
(* failure it is left alone.  A word is the offset it is meant for.        *)
(***************************************************************************)
EXTENDS Naturals, Sequences

VARIABLES accepted, file, state

logVars == <<accepted, file, state>>

Init == accepted \in Nat /\ file = <<>> /\ state = "open"

(* The file grows to some prefix of what has been accepted.                *)
Extended ==
  \E n \in Len(file)..accepted : file' = [i \in 1..n |-> i - 1]

Accept == state # "closed" /\ accepted' >= accepted /\ UNCHANGED <<file, state>>

Write == state = "open" /\ Extended /\ UNCHANGED <<accepted, state>>

Break ==
  /\ state = "open" /\ state' = "broken"
  /\ Extended /\ UNCHANGED accepted

CloseFile ==
  /\ state = "open" /\ state' = "closed"
  /\ Len(file) = accepted /\ UNCHANGED <<accepted, file>>

Next == Accept \/ Write \/ Break \/ CloseFile

Spec == Init /\ [][Next]_logVars
=============================================================================
