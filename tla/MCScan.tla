------------------------------- MODULE MCScan -------------------------------
(***************************************************************************)
(* Scan over two texts.                                                    *)
(***************************************************************************)
EXTENDS Scan, TLC

CONSTANTS a, b
=============================================================================
