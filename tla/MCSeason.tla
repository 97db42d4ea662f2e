------------------------------ MODULE MCSeason ------------------------------
(***************************************************************************)
(* Season with three seasons and few blocks.                               *)
(***************************************************************************)
EXTENDS Season
============================================================================
