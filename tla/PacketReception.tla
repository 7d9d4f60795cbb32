--------------------------- MODULE PacketReception ---------------------------
(***************************************************************************)
(* What a PRX promises the peers of its pipes and its application.  A peer *)
(* sends packets, numbered in order, each as often as it likes.  The PRX   *)
(* accepts a packet that it has not accepted before, none after a later    *)
(* one; what it accepts it may hand to the application, once, at once if   *)
(* no ACK is asked for and after the ACK otherwise; it acknowledges to a   *)
(* peer only a packet it has accepted.  A packet that is accepted and not  *)
(* handed out may be given up for a later one, by a stop within its ACK.   *)
(***************************************************************************)
EXTENDS Integers

CONSTANT Pipes

VARIABLES
  sent,            \* per pipe: the packet the peer sends
  accepted,        \* the last packet accepted
  got,             \* the last packet handed to the application
  heard            \* the last packet the peer has heard an ACK for

vars == <<sent, accepted, got, heard>>

Init == sent = [p \in Pipes |-> -1] /\ accepted = sent /\ got = sent /\ heard = sent

Send(p) ==
  /\ sent' = [sent EXCEPT ![p] = @ + 1]
  /\ UNCHANGED <<accepted, got, heard>>

New(p) ==
  /\ accepted[p] < sent[p]
  /\ accepted' = [accepted EXCEPT ![p] = sent[p]]
  /\ UNCHANGED <<sent, heard>>

Accept(p) == New(p) /\ UNCHANGED got

\* A packet that asks for no ACK
AcceptNoAck(p) == New(p) /\ got' = [got EXCEPT ![p] = sent[p]]

HandOver(p) ==
  /\ got[p] < accepted[p]
  /\ got' = [got EXCEPT ![p] = accepted[p]]
  /\ UNCHANGED <<sent, accepted, heard>>

\* The ACK of a packet, sent for the first time or for a repeat of it
HearAck(p) ==
  /\ accepted[p] = sent[p]
  /\ heard' = [heard EXCEPT ![p] = sent[p]]
  /\ UNCHANGED <<sent, accepted, got>>

Next ==
  \E p \in Pipes : Send(p) \/ Accept(p) \/ AcceptNoAck(p) \/ HandOver(p) \/ HearAck(p)

Spec == Init /\ [][Next]_vars
=============================================================================
