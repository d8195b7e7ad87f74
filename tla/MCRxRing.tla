----------------------------- MODULE MCRxRing -------------------------------
(***************************************************************************)
(* RxRing for TLC.                                                         *)
(***************************************************************************)
EXTENDS RxRing

MCFrames == {[id |-> 1, dest |-> "perm_addr", len |-> 64],
             [id |-> 2, dest |-> "group", len |-> 1514]}
=============================================================================
