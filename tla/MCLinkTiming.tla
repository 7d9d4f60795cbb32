---------------------------- MODULE MCLinkTiming ----------------------------
(***************************************************************************)
(* LinkTiming for TLC: hints whose windows touch, leave gaps, and start at *)
(* once or later than MaxWait allows.                                      *)
(***************************************************************************)
EXTENDS LinkTiming

MCHints ==
  {[delay |-> d, period |-> p[1], window |-> p[2]] :
     d \in {0, 2, 6}, p \in {<<1, 1>>, <<3, 1>>, <<3, 3>>, <<4, 2>>}}
=============================================================================
