---------------------------- MODULE MCTimeslotPrx ----------------------------
(***************************************************************************)
(* TimeslotPrx for TLC: one pipe, two packets that are repeated at will,   *)
(* two buffers, and three bounds on what is combined with what.            *)
(***************************************************************************)
EXTENDS TimeslotPrx, FiniteSets

\* The second packet comes to the inline engine, in sessions without trouble.
SecondPacketBound ==
  \A p \in Pipes :
    sent[p] > 0 => ~driver /\ ~last[p].valid /\ lapses \subseteq {"unhinted"}

\* A session that gets its driver in a slot is the last one, as its inline
\* engine keeps its phase, and of the faults only its drop is combined with it.
LateDriverBound ==
  "late_driver" \in lapses =>
    (owned => phase # "Idle") /\ lapses \subseteq {"late_driver", "drop"}

\* Not all faults at once
LapsesBound == Cardinality(lapses) <= 2

Bound == SecondPacketBound /\ LateDriverBound /\ LapsesBound
=============================================================================
