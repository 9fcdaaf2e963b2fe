------------------------------- MODULE MCUart -------------------------------
(***************************************************************************)
(* The lines of the run: one of each kind that stm_log tells apart, for a  *)
(* buffer of 4 bytes and lengths modulo 8.                                 *)
(***************************************************************************)
EXTENDS Uart

MCLines == {
  [level |-> 0, prefix |-> 1, body |-> 1],   \* below the current level
  [level |-> 1, prefix |-> 1, body |-> 1],   \* fits
  [level |-> 3, prefix |-> 2, body |-> 4],   \* longer than the buffer
  [level |-> 2, prefix |-> 1, body |-> 7],   \* its length wraps to 0
  [level |-> 2, prefix |-> 1, body |-> 8],   \* its length wraps to 1
  [level |-> 1, prefix |-> 4, body |-> 1]}   \* its prefix does not fit
=============================================================================
