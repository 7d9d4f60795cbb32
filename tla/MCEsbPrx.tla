------------------------------ MODULE MCEsbPrx ------------------------------
(***************************************************************************)
(* EsbPrx for TLC, with two pipes where pipes matter and one elsewhere.    *)
(***************************************************************************)
EXTENDS EsbPrx
=============================================================================
