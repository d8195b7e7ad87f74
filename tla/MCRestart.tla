----------------------------- MODULE MCRestart ------------------------------
(***************************************************************************)
(* Restart for TLC.                                                        *)
(***************************************************************************)
EXTENDS Restart

MCFrames == {[id |-> 1, dest |-> "perm_addr", len |-> 64]}
=============================================================================
