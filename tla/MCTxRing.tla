----------------------------- MODULE MCTxRing -------------------------------
(***************************************************************************)
(* TxRing for TLC.                                                         *)
(***************************************************************************)
EXTENDS TxRing, TLC

Symmetry == Permutations(Buffers)
=============================================================================
