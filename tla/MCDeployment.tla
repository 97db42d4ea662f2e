---------------------------- MODULE MCDeployment ----------------------------
(***************************************************************************)
(* Two runs, one after the other or overlapping, over a network the file   *)
(* lists, one it does not and one no update is asked for.                  *)
(***************************************************************************)
EXTENDS Deployment, TLC

RunSymmetry == Permutations(Runs)
============================================================================
