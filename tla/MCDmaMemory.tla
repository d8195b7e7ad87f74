----------------------------- MODULE MCDmaMemory ----------------------------
(* DmaMemory for TLC: addresses and handles are alike.                     *)
EXTENDS DmaMemory, TLC

Places == Permutations(Addresses) \cup Permutations(Handles)
=============================================================================
