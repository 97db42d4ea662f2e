--------------------------- MODULE MCTokenClient ---------------------------
(***************************************************************************)
(* Two calls that overlap, by two signers who may approve each other, to   *)
(* each other or a contract that may send on; of the two tokens a signer   *)
(* holds only one fits a number.                                           *)
(***************************************************************************)
EXTENDS TokenClient, TLC

SignerSymmetry == Permutations(Signers)
============================================================================
