------------------------------ MODULE MCTopWin ------------------------------
(***************************************************************************)
(* TopWin over three words.                                                *)
(***************************************************************************)
EXTENDS TopWin, TLC

CONSTANTS a, b, c
=============================================================================
