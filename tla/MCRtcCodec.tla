----------------------------- MODULE MCRtcCodec -----------------------------
(***************************************************************************)
(* Arguments for RtcCodec: the ends of every field, the digits that change *)
(* its number of tens, the ends of the range of years, one above and one   *)
(* below that a uint8_t wraps into it, and the arguments of main.c         *)
(* (24.02.2025 10:50, 7:20 and 15.08.2025, MONDAY = 1 and FRIDAY = 0x101,  *)
(* with TUESDAY = 0x10 and 7).                                             *)
(***************************************************************************)
EXTENDS RtcCodec

T(h, m, s)    == [hour |-> h, minute |-> m, seconds |-> s]
D(d, m, y, w) == [day |-> d, month |-> m, year |-> y, week |-> w]

MCTimes == {T(10, 50, 0), T(7, 20, 0), T(23, 59, 59), T(19, 9, 10), T(20, 0, 9), T(0, 10, 39)}
MCDates == {D(24, 2, 2025, 1), D(15, 8, 2025, 257), D(1, 1, 1980, 7), D(31, 12, 2079, 7),
            D(9, 9, 1999, 16), D(10, 10, 2050, 1), D(31, 12, 1979, 1), D(1, 1, 2080, 1),
            D(30, 11, 2236, 1), D(5, 5, 1780, 1)}
=============================================================================
