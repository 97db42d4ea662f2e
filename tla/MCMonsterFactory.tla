-------------------------- MODULE MCMonsterFactory --------------------------
(***************************************************************************)
(* MonsterFactory on a small registry: the bounds are in the two .cfg.     *)
(***************************************************************************)
EXTENDS MonsterFactory
============================================================================
