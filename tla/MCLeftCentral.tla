---------------------------- MODULE MCLeftCentral ----------------------------
(***************************************************************************)
(* LeftCentral for TLC: one key on each half, two sequence numbers.        *)
(***************************************************************************)
EXTENDS LeftCentral
=============================================================================
