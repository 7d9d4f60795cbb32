---------------------------- MODULE MCTimeslotPtx ----------------------------
(***************************************************************************)
(* TimeslotPtx for TLC: two buffers, runs of two slots, two misses to      *)
(* unlock.                                                                 *)
(***************************************************************************)
EXTENDS TimeslotPtx
=============================================================================
