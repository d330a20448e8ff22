---------------------------- MODULE MCStartUp -----------------------------
(* Every date of the years the file accepts, up to where 12 bits of days   *)
(* run over; and dates a user may write that are real, that only a leap    *)
(* year has, and that no month has.                                        *)
EXTENDS StartUp

Dates ==
  {<<y, m, d>> : y \in 2016..2026, m \in 1..12, d \in 1..31}
    \cup {<<2027, m, d>> : m \in 1..3, d \in 1..31}

MCRunningDates ==
  {d \in Dates : d[3] <= DaysIn(d[1], d[2]) /\ ~(d[1] = 2027 /\ d[2] = 3 /\ d[3] > 18)}

MCRestartDates == {<<2016, 2, 28>>, <<2016, 12, 31>>, <<2025, 2, 28>>, <<2027, 3, 18>>}

MCFileTimes ==
  {<<d, [s |-> 1, m |-> m, h |-> 1]>> : d \in {<<2016, 2, 29>>, <<2017, 2, 29>>, <<2016, 4, 31>>}, m \in {0, 1}}
===========================================================================
