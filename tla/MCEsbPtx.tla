----------------------------- MODULE MCEsbPtx -----------------------------
(***************************************************************************)
(* EsbPtx for TLC.  The configurations choose ticks so that the order of   *)
(* the events is that of real settings: with the default configuration     *)
(* (500 us, 120 us) CC[1] = 260 us and CC[0] = 360 us, a 32-byte packet    *)
(* takes about 210 us, so CC[1] < CC[0] < CC[1] + packet.                  *)
(***************************************************************************)
EXTENDS EsbPtx
=============================================================================
