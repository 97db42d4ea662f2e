----------------------------- MODULE MCRollout -----------------------------
(***************************************************************************)
(* The initial data in two attempts, then two replacements of the gate.    *)
(* The tables of the script are taken as they are: 50 packs, 50 monsters.  *)
(***************************************************************************)
EXTENDS GateReplacement
============================================================================
