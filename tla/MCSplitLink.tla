----------------------------- MODULE MCSplitLink -----------------------------
(***************************************************************************)
(* SplitLink for TLC: one right key, and the frames of a neighbouring      *)
(* keyboard: one on another pipe, one of another device on the same pipe.  *)
(***************************************************************************)
EXTENDS SplitLink

StrangerFrame(pipe, device) ==
  [pipe |-> pipe,
   frame |-> encode_frame(device, 0, {}, Snapshot(RightKeys, 0))]

MCStrangers == {StrangerFrame(0, 0), StrangerFrame(1, 1)}
=============================================================================
