------------------------------ MODULE MCReader ------------------------------
(***************************************************************************)
(* Instance of Reader for TLC: three picks, so that two can overlap with a *)
(* third before or after them, and three texts, one of them too short.     *)
(***************************************************************************)
EXTENDS Reader

CONSTANTS none, one, two
=============================================================================
