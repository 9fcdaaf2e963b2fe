------------------------------ MODULE MCSystem ------------------------------
(***************************************************************************)
(* Calendar values of base 2 for the three buttons: the last second before *)
(* a day ends, an ordinary time, and a date of another month and year; and *)
(* set_date_rtc takes each of the two years for the other.                 *)
(***************************************************************************)
EXTENDS System

MCWanted == <<7, 2, 56>>
MCYearAs == [y \in 0 .. 1 |-> 1 - y]
=============================================================================
