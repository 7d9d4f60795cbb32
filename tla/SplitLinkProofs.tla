--------------------------- MODULE SplitLinkProofs ---------------------------
(***************************************************************************)
(* Proofs about SplitLink: the split link of the keyboard implements       *)
(* SnapshotDelivery (its safety part), applies a snapshot once, holds what *)
(* it has confirmed, releases no key of a right half that lives, and is in *)
(* sync once it rests.                                                     *)
(***************************************************************************)
EXTENDS SplitLink, SequenceTheorems, TLAPS

USE TransportAssumption, RightAssumption, LeftAssumption, SplitAssumption

-----------------------------------------------------------------------------
(* The inductive invariant                                                 *)

Rows == SUBSET RightKeys

RightFrame ==
  [size : {TRANSPORT_HEADER_LEN + SNAPSHOT_PAYLOAD_LEN}, version : {TRANSPORT_VERSION},
   device : {RIGHT_DEVICE_ID}, sequence : SeqNumber, flags : SUBSET {"retransmit"},
   payload_len : {SNAPSHOT_PAYLOAD_LEN},
   payload : [len : {SNAPSHOT_PAYLOAD_LEN}, msg : {"snapshot"}, rows : Rows,
              version : Nat \ {0}]]

Event == [pipe : Pipes, frame : RightFrame \cup {s.frame : s \in Strangers}]

FromRight(e) == e.pipe = RIGHT_PIPE /\ e.frame.device = RIGHT_DEVICE_ID

SnapType ==
  [sequence : SeqNumber,
   payload : [len : {SNAPSHOT_PAYLOAD_LEN}, msg : {"snapshot"}, rows : Rows,
              version : Nat \ {0}]]

\* The fields the link works with hold values of their kind.
LinkType ==
  /\ mrows \in Rows /\ sequence \in SeqNumber
  /\ rpc \in {"check", "idle", "hold", "send", "delay", "off"}
  /\ events \in Seq(Event)
  /\ DOMAIN ack_ext = Pipes
  /\ tracker \in [Devices -> SeqNumber \cup {NoSeq}]
  /\ written \in Nat /\ confirmed \in Nat /\ queued_top \in Nat
  /\ applied \in Nat /\ lost \in Nat
  /\ seen \in BOOLEAN

\* What the main task sends is the last snapshot taken.
Latest ==
  rpc \in {"send", "delay"} => snap \in SnapType /\ snap.payload.version = written

\* The snapshots on their way are in order, between applied and queued_top.
InOrder ==
  /\ applied <= queued_top /\ queued_top <= written /\ confirmed <= queued_top
  /\ \A i \in 1 .. Len(events) : FromRight(events[i]) =>
       /\ events[i].frame \in RightFrame
       /\ applied <= events[i].frame.payload.version
       /\ events[i].frame.payload.version <= queued_top
  /\ \A i, j \in 1 .. Len(events) :
       i < j /\ FromRight(events[i]) /\ FromRight(events[j])
       => events[i].frame.payload.version <= events[j].frame.payload.version

\* An answer that matches the snapshot being sent means that it was queued.
Answered(e) == AckMatches(e, RIGHT_DEVICE_ID, snap.sequence) => queued_top = written

Answers ==
  rpc = "send" => /\ heard # Silence => Answered(heard)
                  /\ seen => Answered(ack_ext[RIGHT_PIPE])

LinkInv == LinkType /\ Latest /\ InOrder /\ Answers

-----------------------------------------------------------------------------
(* Frames                                                                  *)

\* What the right half sends is a frame of its own with the last snapshot.
LEMMA FrameIsRight ==
  ASSUME LinkInv, rpc = "send"
  PROVE  /\ Frame \in RightFrame /\ Frame.device = RIGHT_DEVICE_ID
         /\ Frame.payload.version = written /\ Frame.sequence = snap.sequence
<1>1. snap \in SnapType /\ snap.payload.version = written
  BY DEF LinkInv, Latest
<1> QED
  BY <1>1 DEF Frame, encode_frame, RightFrame, SnapType, TRANSPORT_HEADER_LEN,
     TRANSPORT_VERSION, SNAPSHOT_PAYLOAD_LEN, RIGHT_DEVICE_ID

\* A frame of another keyboard does not come from the right half.
LEMMA StrangerIsEvent ==
  ASSUME NEW s \in Strangers
  PROVE  [pipe |-> s.pipe, frame |-> s.frame] \in Event
         /\ ~FromRight([pipe |-> s.pipe, frame |-> s.frame])
BY DEF Event, FromRight

\* An empty extension matches no snapshot.
LEMMA NoAckMatches ==
  ASSUME NEW d, NEW q
  PROVE  ~AckMatches(NoAck, d, q)
BY DEF AckMatches, AckDecodes, NoAck

-----------------------------------------------------------------------------
(* The invariant holds                                                     *)

\* The halves start with nothing on its way.
LEMMA LinkInvInit == Init => LinkInv
<1> SUFFICES ASSUME Init PROVE LinkInv
  OBVIOUS
<1> USE DEF Init, RightInit, LeftInit
<1>1. LinkType
  <2>1. tracker \in [Devices -> SeqNumber \cup {NoSeq}]
    BY DEF EmptyTracker
  <2>2. sequence \in SeqNumber
    BY DEF SeqNumber
  <2>3. events \in Seq(Event) /\ DOMAIN ack_ext = Pipes
    OBVIOUS
  <2> QED
    BY <2>1, <2>2, <2>3 DEF LinkType, Rows
<1>2. Latest /\ Answers
  BY DEF Latest, Answers
<1>3. InOrder
  BY DEF InOrder
<1> QED
  BY <1>1, <1>2, <1>3 DEF LinkInv

\* Appending an event of the right half keeps the order when it is the newest.
LEMMA InOrderAppend ==
  ASSUME InOrder, LinkType, NEW e \in Event, written' = written,
         applied' = applied, confirmed' = confirmed,
         events' = Append(events, e),
         \/ ~FromRight(e) /\ queued_top' = queued_top
         \/ /\ FromRight(e) /\ e.frame \in RightFrame
            /\ e.frame.payload.version = written /\ queued_top' = written
  PROVE  InOrder'
<1>1. events \in Seq(Event) /\ queued_top \in Nat /\ written \in Nat /\ applied \in Nat
      /\ confirmed \in Nat
  BY DEF LinkType
<1>2. /\ Len(events') = Len(events) + 1 /\ Len(events) \in Nat
      /\ \A i \in 1 .. Len(events) : events'[i] = events[i]
      /\ events'[Len(events) + 1] = e
  BY <1>1
<1>3. queued_top <= queued_top' /\ queued_top' <= written
  BY <1>1 DEF InOrder
<1>4. ASSUME NEW i \in 1 .. Len(events'), FromRight(events'[i])
      PROVE  /\ events'[i].frame \in RightFrame
             /\ applied <= events'[i].frame.payload.version
             /\ events'[i].frame.payload.version <= queued_top'
  <2>1. CASE i \in 1 .. Len(events)
    <3>1. /\ events[i].frame \in RightFrame
          /\ applied <= events[i].frame.payload.version
          /\ events[i].frame.payload.version <= queued_top
      BY <1>2, <1>4, <2>1 DEF InOrder
    <3>2. events[i].frame.payload.version \in Nat
      BY <3>1 DEF RightFrame
    <3> QED
      BY <1>1, <1>2, <1>3, <2>1, <3>1, <3>2
  <2>2. CASE i = Len(events) + 1
    BY <1>1, <1>2, <1>4, <2>2 DEF InOrder
  <2> QED
    BY <1>2, <2>1, <2>2
<1>5. ASSUME NEW i \in 1 .. Len(events'), NEW j \in 1 .. Len(events'), i < j,
             FromRight(events'[i]), FromRight(events'[j])
      PROVE  events'[i].frame.payload.version <= events'[j].frame.payload.version
  <2>1. i \in 1 .. Len(events)
    BY <1>2, <1>5
  <2>2. CASE j \in 1 .. Len(events)
    BY <1>2, <1>5, <2>1, <2>2 DEF InOrder
  <2>3. CASE j = Len(events) + 1
    <3>1. events'[i].frame.payload.version <= queued_top
      BY <1>2, <1>5, <2>1 DEF InOrder
    <3>2. events'[i].frame.payload.version \in Nat
      BY <1>2, <1>4, <1>5, <2>1 DEF RightFrame
    <3> QED
      BY <1>1, <1>2, <1>5, <2>3, <3>1, <3>2 DEF InOrder
  <2> QED
    BY <1>2, <2>2, <2>3
<1> QED
  BY <1>1, <1>3, <1>4, <1>5 DEF InOrder

\* What the RADIO callback does with a packet keeps the order and the types.
LEMMA NewPacketKeeps ==
  ASSUME LinkInv, NEW p, NEW f, [pipe |-> p, frame |-> f] \in Event,
         NewPacket(p, f), UNCHANGED rightVars,
         FromRight([pipe |-> p, frame |-> f])
           => f \in RightFrame /\ f.payload.version = written
  PROVE  /\ InOrder'
         /\ events' \in Seq(Event) /\ queued_top' \in Nat /\ DOMAIN ack_ext' = Pipes
         /\ UNCHANGED <<tracker, applied>>
<1> DEFINE e == [pipe |-> p, frame |-> f]
<1>1. LinkType /\ InOrder
  BY DEF LinkInv
<1>2. UNCHANGED <<written, confirmed, tracker, applied>>
  BY DEF NewPacket, rightVars
<1>3. CASE CanPush
  <2>1. events' = Append(events, e)
    BY <1>3 DEF NewPacket
  <2>2. \/ ~FromRight(e) /\ queued_top' = queued_top
        \/ FromRight(e) /\ queued_top' = written
    BY <1>3 DEF NewPacket, FromRight
  <2>3. InOrder'
    BY <1>1, <1>2, <2>1, <2>2, InOrderAppend
  <2>4. events' \in Seq(Event)
    BY <1>1, <2>1 DEF LinkType
  <2>5. queued_top' \in Nat
    BY <1>1, <2>2 DEF LinkType
  <2>6. DOMAIN ack_ext' = Pipes
    BY <1>1 DEF NewPacket, LinkType
  <2> QED
    BY <1>2, <2>3, <2>4, <2>5, <2>6
<1>4. CASE ~CanPush
  <2>1. UNCHANGED <<events, queued_top>>
    BY <1>4 DEF NewPacket
  <2>2. InOrder'
    BY <1>1, <1>2, <2>1 DEF InOrder
  <2>3. DOMAIN ack_ext' = Pipes
    BY <1>1 DEF NewPacket, LinkType
  <2> QED
    BY <1>1, <1>2, <2>1, <2>2, <2>3 DEF LinkType
<1> QED
  BY <1>3, <1>4

\* Taking the oldest event keeps the order, if applied stays behind the others.
LEMMA InOrderTail ==
  ASSUME InOrder, LinkType, events # <<>>, events' = Tail(events),
         UNCHANGED <<written, confirmed, queued_top>>,
         \/ UNCHANGED applied
         \/ FromRight(Head(events)) /\ applied' = Head(events).frame.payload.version
  PROVE  InOrder' /\ applied' \in Nat /\ applied <= applied'
<1>1. /\ events \in Seq(Event) /\ queued_top \in Nat /\ written \in Nat
      /\ applied \in Nat /\ confirmed \in Nat
  BY DEF LinkType
<1>2. /\ Len(events) \in Nat \ {0} /\ Len(events') = Len(events) - 1
      /\ \A i \in 1 .. Len(events') : events'[i] = events[i + 1]
      /\ Head(events) = events[1]
  BY <1>1
<1>3. applied' \in Nat /\ applied <= applied' /\ applied' <= queued_top
  <2>1. CASE UNCHANGED applied
    BY <1>1, <2>1 DEF InOrder
  <2>2. CASE FromRight(events[1]) /\ applied' = events[1].frame.payload.version
    <3>1. /\ events[1].frame \in RightFrame /\ applied <= applied'
          /\ applied' <= queued_top
      BY <1>2, <2>2 DEF InOrder
    <3> QED
      BY <2>2, <3>1 DEF RightFrame
  <2> QED
    BY <1>2, <2>1, <2>2
<1>4. ASSUME NEW i \in 1 .. Len(events'), FromRight(events'[i])
      PROVE  /\ events'[i].frame \in RightFrame
             /\ applied' <= events'[i].frame.payload.version
             /\ events'[i].frame.payload.version <= queued_top
  <2>1. i + 1 \in 1 .. Len(events) /\ 1 \in 1 .. Len(events) /\ 1 < i + 1
        /\ events'[i] = events[i + 1]
    BY <1>2
  <2>2. FromRight(events[i + 1])
    BY <1>4, <2>1
  <2>3. /\ events[i + 1].frame \in RightFrame
        /\ applied <= events[i + 1].frame.payload.version
        /\ events[i + 1].frame.payload.version <= queued_top
    BY <2>1, <2>2 DEF InOrder
  <2>4. CASE UNCHANGED applied
    BY <2>1, <2>3, <2>4
  <2>5. CASE FromRight(events[1]) /\ applied' = events[1].frame.payload.version
    <3>1. events[1].frame.payload.version <= events[i + 1].frame.payload.version
      BY <2>1, <2>2, <2>5 DEF InOrder
    <3> QED
      BY <2>1, <2>3, <2>5, <3>1
  <2> QED
    BY <1>2, <2>4, <2>5
<1>5. ASSUME NEW i \in 1 .. Len(events'), NEW j \in 1 .. Len(events'), i < j,
             FromRight(events'[i]), FromRight(events'[j])
      PROVE  events'[i].frame.payload.version <= events'[j].frame.payload.version
  <2>1. i + 1 \in 1 .. Len(events) /\ j + 1 \in 1 .. Len(events) /\ i + 1 < j + 1
    BY <1>2, <1>5
  <2>2. events'[i] = events[i + 1] /\ events'[j] = events[j + 1]
    BY <1>2
  <2> QED
    BY <1>5, <2>1, <2>2 DEF InOrder
<1>6. written' = written /\ confirmed' = confirmed /\ queued_top' = queued_top
  OBVIOUS
<1>7. queued_top <= written /\ confirmed <= queued_top
  BY DEF InOrder
<1> QED
  BY <1>3, <1>4, <1>5, <1>6, <1>7 DEF InOrder

\* Only frames of the right half are accepted.
LEMMA AcceptedIsRight ==
  ASSUME NEW t, NEW e, accept_bound_frame(Bindings, t, e.pipe, e.frame) = "new"
  PROVE  FromRight(e)
<1>1. /\ e.pipe \in BoundPipes /\ Bindings[e.pipe] = e.frame.device
      /\ e.frame.device \in Devices
  BY DEF accept_bound_frame, BindingAccepts
<1>2. e.frame.device # NoDevice
  BY <1>1
<1>3. e.pipe = RIGHT_PIPE /\ e.frame.device = RIGHT_DEVICE_ID
  BY <1>1, <1>2 DEF Bindings, bind, EmptyBindings
<1> QED
  BY <1>3 DEF FromRight

\* The step of prx_task that takes an event
LEMMA EventKeeps ==
  ASSUME LinkInv, EventNew \/ EventDropped
  PROVE  /\ UNCHANGED rightVars /\ UNCHANGED <<seen, heard, lost>> => LinkInv'
         /\ applied <= applied'
         /\ EventNew => FromRight(Head(events))
                        /\ applied' = Head(events).frame.payload.version
<1>1. LinkType /\ InOrder /\ Latest /\ Answers
  BY DEF LinkInv
<1>2. /\ events # <<>> /\ events' = Tail(events)
      /\ UNCHANGED <<ack_ext, queued_top>>
      /\ EventDropped => UNCHANGED <<tracker, applied>>
  BY DEF EventNew, EventDropped, PopEvent
<1>3. ASSUME EventNew
      PROVE  /\ FromRight(Head(events)) /\ Head(events).frame \in RightFrame
             /\ applied' = Head(events).frame.payload.version
             /\ tracker' \in [Devices -> SeqNumber \cup {NoSeq}]
  <2>1. FromRight(Head(events))
    BY <1>3, AcceptedIsRight DEF EventNew, NextEvent
  <2>2. Head(events).frame \in RightFrame
    <3>1. Head(events) = events[1] /\ 1 \in 1 .. Len(events)
      BY <1>1, <1>2 DEF LinkType
    <3> QED
      BY <1>1, <2>1, <3>1 DEF InOrder
  <2>3. applied' = Head(events).frame.payload.version
    BY <1>3, <2>2 DEF EventNew, NextEvent, IsSnapshot, RightFrame
  <2>4. tracker' = [tracker EXCEPT ![RIGHT_DEVICE_ID] = Head(events).frame.sequence]
    BY <1>3, <2>1 DEF EventNew, NextEvent, Track, FromRight
  <2>5. Head(events).frame.sequence \in SeqNumber
    BY <2>2 DEF RightFrame
  <2> QED
    BY <1>1, <2>1, <2>2, <2>3, <2>4, <2>5 DEF LinkType
<1>4. UNCHANGED <<written, confirmed>> => InOrder' /\ applied' \in Nat /\ applied <= applied'
  BY <1>1, <1>2, <1>3, InOrderTail
<1>5. ASSUME UNCHANGED rightVars, UNCHANGED <<seen, heard, lost>>
      PROVE  LinkInv'
  <2>1. UNCHANGED <<mrows, sequence, snap, rpc, written, confirmed>>
    BY <1>5 DEF rightVars
  <2>2. events' \in Seq(Event)
    BY <1>1, <1>2 DEF LinkType
  <2>3. tracker' \in [Devices -> SeqNumber \cup {NoSeq}]
    BY <1>1, <1>2, <1>3 DEF LinkType
  <2>4. InOrder' /\ applied' \in Nat
    BY <1>4, <2>1
  <2>5. LinkType'
    BY <1>1, <1>2, <1>5, <2>1, <2>2, <2>3, <2>4 DEF LinkType
  <2>6. Latest'
    BY <1>1, <2>1 DEF Latest
  <2>7. Answers'
    BY <1>1, <1>2, <1>5, <2>1 DEF Answers, Answered
  <2> QED
    BY <2>4, <2>5, <2>6, <2>7 DEF LinkInv
<1>6. applied <= applied'
  <2>1. CASE EventDropped
    BY <1>1, <1>2, <2>1 DEF LinkType
  <2>2. CASE EventNew
    <3>1. Head(events) = events[1] /\ 1 \in 1 .. Len(events)
      BY <1>1, <1>2 DEF LinkType
    <3> QED
      BY <1>1, <1>3, <2>2, <3>1 DEF InOrder
  <2> QED
    BY <2>1, <2>2
<1> QED
  BY <1>3, <1>5, <1>6

\* A step that leaves the way of a snapshot alone
LEMMA QuietKeeps ==
  ASSUME LinkInv, UNCHANGED <<sequence, snap, written, confirmed>>,
         UNCHANGED <<events, ack_ext, tracker, applied, queued_top, lost>>,
         mrows' \in Rows, rpc' \in {"check", "idle", "hold", "send", "delay", "off"},
         seen' \in BOOLEAN,
         rpc' = "delay" => rpc \in {"send", "delay"},
         rpc' = "send" => \/ rpc = "send" /\ seen' = seen /\ heard' = heard
                          \/ rpc = "delay" /\ seen' = FALSE /\ heard' = Silence
  PROVE  LinkInv'
<1>1. LinkType /\ InOrder /\ Latest /\ Answers
  BY DEF LinkInv
<1>2. LinkType'
  BY <1>1 DEF LinkType
<1>3. InOrder'
  BY <1>1 DEF InOrder
<1>4. Latest'
  BY <1>1 DEF Latest
<1>5. Answers'
  BY <1>1 DEF Answers, Answered
<1> QED
  BY <1>2, <1>3, <1>4, <1>5 DEF LinkInv

\* Every step of the halves and of the radio keeps the invariant.
LEMMA LinkInvNext == LinkInv /\ [Next]_vars => LinkInv'
<1> SUFFICES ASSUME LinkInv, [Next]_vars PROVE LinkInv'
  OBVIOUS
<1> USE DEF rightVars, leftVars, linkVars, sessionVars
<1>0. LinkType /\ InOrder /\ Latest /\ Answers
  BY DEF LinkInv
<1>1. ASSUME NEW rows \in SUBSET RightKeys, RightScan(rows) PROVE LinkInv'
  BY <1>0, <1>1, QuietKeeps DEF RightScan, ScanChange, Rows, LinkType
<1>2. CASE RightRests
  BY <1>0, <1>2, QuietKeeps DEF RightRests, WaitForChange, LinkType
<1>3. CASE RightWakes
  BY <1>0, <1>3, QuietKeeps DEF RightWakes, ChangeSeen, KeepaliveFires, Supersede, LinkType
<1>4. CASE RightSends /\ Retry
  BY <1>0, <1>4, QuietKeeps DEF RightSends, Retry, TakeSnapshot, LinkType
<1>5. CASE RightSends /\ TakeSnapshot
  <2>1. snap' \in SnapType /\ snap'.payload.version = written + 1
    BY <1>0, <1>5 DEF TakeSnapshot, Snapshot, SnapType, LinkType
  <2>2. sequence' \in SeqNumber
    BY <1>0, <1>5 DEF TakeSnapshot, NextSeq, SeqNumber, LinkType
  <2>3. LinkType'
    <3>1. /\ UNCHANGED <<mrows, confirmed, events, ack_ext, tracker, queued_top,
                         applied, lost>>
          /\ written' = written + 1 /\ rpc' = "send" /\ seen' = FALSE
      BY <1>5 DEF RightSends, TakeSnapshot
    <3>2. written' \in Nat
      BY <1>0, <3>1 DEF LinkType
    <3>3. seen' \in BOOLEAN
      BY <3>1
    <3> QED
      BY <1>0, <2>2, <3>1, <3>2, <3>3 DEF LinkType
  <2>4. InOrder'
    BY <1>0, <1>5 DEF RightSends, TakeSnapshot, InOrder, LinkType
  <2>5. Latest' /\ Answers'
    BY <1>5, <2>1 DEF RightSends, TakeSnapshot, Latest, Answers
  <2> QED
    BY <2>3, <2>4, <2>5 DEF LinkInv
<1>6. CASE SlotRefused
  BY <1>0, <1>6, QuietKeeps DEF SlotRefused, SendError, LinkType
<1>7. CASE SlotEnds
  <2>1. CASE heard # Silence /\ AckMatches(heard, RIGHT_DEVICE_ID, snap.sequence)
    <3>1. SendAcked /\ UNCHANGED <<leftVars, seen, lost, heard>>
      BY <1>7, <2>1 DEF SlotEnds
    <3>2. rpc = "send" /\ snap.payload.version = written /\ queued_top = written
      BY <1>0, <2>1, <3>1 DEF SendAcked, Latest, Answers, Answered
    <3>3. LinkType' /\ Latest' /\ Answers'
      BY <1>0, <3>1, <3>2 DEF SendAcked, LinkType, Latest, Answers
    <3>4. InOrder'
      BY <1>0, <3>1, <3>2 DEF SendAcked, InOrder, LinkType
    <3> QED
      BY <3>3, <3>4 DEF LinkInv
  <2>2. CASE ~(heard # Silence /\ AckMatches(heard, RIGHT_DEVICE_ID, snap.sequence))
    BY <1>0, <1>7, <2>2, QuietKeeps DEF SlotEnds, SendMiss, LinkType
  <2> QED
    BY <2>1, <2>2
<1>8. CASE TransmissionLost
  BY <1>0, <1>8, QuietKeeps DEF TransmissionLost, LinkType
<1>9. ASSUME NEW ack_heard \in BOOLEAN, Received(ack_heard) PROVE LinkInv'
  <2>1. /\ rpc = "send" /\ UNCHANGED rightVars /\ lost' = lost /\ seen' = TRUE
        /\ heard' \in {ack_ext'[RIGHT_PIPE], Silence}
    BY <1>9 DEF Received, OnAir, ack_extension_for_pipe
  <2>2. CASE seen
    <3>1. UNCHANGED leftVars
      BY <1>9, <2>2 DEF Received
    <3>2. LinkType' /\ InOrder' /\ Latest'
      BY <1>0, <2>1, <3>1 DEF LinkType, InOrder, Latest
    <3>3. Answers'
      BY <1>0, <2>1, <2>2, <3>1 DEF Answers, Answered
    <3> QED
      BY <3>2, <3>3 DEF LinkInv
  <2>3. CASE ~seen
    <3>1. NewPacket(RIGHT_PIPE, Frame)
      BY <1>9, <2>3 DEF Received
    <3> DEFINE e == [pipe |-> RIGHT_PIPE, frame |-> Frame]
    <3>2. Frame \in RightFrame /\ Frame.device = RIGHT_DEVICE_ID
          /\ Frame.payload.version = written
      BY <2>1, FrameIsRight
    <3>3. e \in Event /\ FromRight(e)
      BY <3>2 DEF Event, FromRight
    <3>4. /\ InOrder' /\ events' \in Seq(Event) /\ queued_top' \in Nat
          /\ DOMAIN ack_ext' = Pipes /\ UNCHANGED <<tracker, applied>>
      BY <2>1, <3>1, <3>2, <3>3, NewPacketKeeps
    <3>5. LinkType'
      BY <1>0, <2>1, <3>4 DEF LinkType
    <3>6. Latest'
      BY <1>0, <2>1 DEF Latest
    <3>7. CASE CanPush
      <4>1. queued_top' = written
        BY <3>1, <3>2, <3>7 DEF NewPacket
      <4>2. Answers'
        BY <2>1, <4>1 DEF Answers, Answered
      <4> QED
        BY <3>4, <3>5, <3>6, <4>2 DEF LinkInv
    <3>8. CASE ~CanPush
      <4>1. ack_ext'[RIGHT_PIPE] = NoAck
        BY <1>0, <3>1, <3>8 DEF NewPacket, right_transport_ack_extension, LinkType
      <4>2. Answers'
        BY <2>1, <4>1, NoAckMatches DEF Answers, Answered
      <4> QED
        BY <3>4, <3>5, <3>6, <4>2 DEF LinkInv
    <3> QED
      BY <3>7, <3>8
  <2> QED
    BY <2>2, <2>3
<1>10. ASSUME NEW s \in Strangers, StrangerReceived(s) PROVE LinkInv'
  <2> DEFINE e == [pipe |-> s.pipe, frame |-> s.frame]
  <2>1. NewPacket(s.pipe, s.frame) /\ UNCHANGED rightVars /\ lost' = lost
        /\ heard' = heard /\ seen' = (seen /\ s.pipe # RIGHT_PIPE)
    BY <1>10 DEF StrangerReceived
  <2>2. e \in Event /\ ~FromRight(e)
    BY StrangerIsEvent
  <2>3. /\ InOrder' /\ events' \in Seq(Event) /\ queued_top' \in Nat
        /\ DOMAIN ack_ext' = Pipes /\ UNCHANGED <<tracker, applied>>
    BY <2>1, <2>2, NewPacketKeeps
  <2>4. seen' \in BOOLEAN
    BY <1>0, <2>1 DEF LinkType
  <2>5. LinkType'
    BY <1>0, <2>1, <2>3, <2>4 DEF LinkType
  <2>6. Latest'
    BY <1>0, <2>1 DEF Latest
  <2>7. queued_top' = queued_top
    BY <2>1, <2>2 DEF NewPacket, FromRight
  <2>8. seen' => seen /\ ack_ext'[RIGHT_PIPE] = ack_ext[RIGHT_PIPE]
    BY <1>0, <2>1 DEF NewPacket, LinkType
  <2>9. Answers'
    BY <1>0, <2>1, <2>7, <2>8 DEF Answers, Answered
  <2> QED
    BY <2>3, <2>5, <2>6, <2>9 DEF LinkInv
<1>11. CASE PrxTask
  BY <1>11, EventKeeps DEF PrxTask
<1>12. CASE LinkLossTask
  BY <1>0, <1>12, QuietKeeps DEF LinkLossTask, LinkLossPoll, LinkType
<1>13. CASE Tick
  BY <1>0, <1>13, QuietKeeps DEF Tick, LeftTick, LinkType
<1>14. CASE LeftResets
  <2>1. /\ UNCHANGED rightVars /\ UNCHANGED <<applied, queued_top, heard>>
        /\ events' = <<>> /\ lost' = queued_top /\ seen' = FALSE
        /\ DOMAIN ack_ext' = Pipes
        /\ tracker' \in [Devices -> SeqNumber \cup {NoSeq}]
    BY <1>14 DEF LeftResets, LeftRestart, EmptyTracker
  <2>2. LinkType'
    <3>1. events' \in Seq(Event)
      BY <2>1
    <3> QED
      BY <1>0, <2>1, <3>1 DEF LinkType
  <2>3. InOrder'
    BY <1>0, <2>1 DEF InOrder
  <2>4. Latest' /\ Answers'
    BY <1>0, <2>1 DEF Latest, Answers, Answered
  <2> QED
    BY <2>2, <2>3, <2>4 DEF LinkInv
<1>15. CASE RightDies
  BY <1>0, <1>15, QuietKeeps DEF RightDies, LinkType
<1>16. CASE UNCHANGED vars
  BY <1>0, <1>16, QuietKeeps DEF vars, LinkType
<1>17. CASE RightSends
  BY <1>4, <1>5, <1>17 DEF RightSends
<1> QED
  BY <1>1, <1>2, <1>3, <1>6, <1>7, <1>8, <1>9, <1>10, <1>11, <1>12, <1>13, <1>14,
     <1>15, <1>16, <1>17 DEF Next

\* LinkInv holds in every reachable state.
THEOREM SplitLinkInvariant == Spec => []LinkInv
<1>1. Init => LinkInv
  BY LinkInvInit
<1>2. LinkInv /\ [Next]_vars => LinkInv'
  BY LinkInvNext
<1> QED
  BY <1>1, <1>2, PTL DEF Spec

-----------------------------------------------------------------------------
(* The split link implements SnapshotDelivery                              *)

\* The initial states implement those of SnapshotDelivery.
LEMMA DeliveryInit == Init => Delivery!Init
BY DEF Init, RightInit, LeftInit, Delivery!Init

\* Every step of the link is a step of SnapshotDelivery or leaves it alone.
LEMMA DeliveryStep ==
  LinkInv /\ [Next]_vars => [Delivery!Next]_(Delivery!vars)
<1> SUFFICES ASSUME LinkInv, [Next]_vars
             PROVE  Delivery!Next \/ UNCHANGED <<written, queued_top, applied, confirmed, lost>>
  BY DEF Delivery!vars
<1> USE DEF rightVars, leftVars, linkVars, sessionVars
<1> DEFINE Same == UNCHANGED <<written, queued_top, applied, confirmed, lost>>
<1>0. LinkType /\ InOrder /\ Latest /\ Answers
  BY DEF LinkInv
<1>1. ASSUME NEW rows \in SUBSET RightKeys, RightScan(rows) PROVE Same
  BY <1>1 DEF RightScan, ScanChange
<1>2. CASE RightRests \/ RightWakes
  BY <1>2 DEF RightRests, WaitForChange, RightWakes, ChangeSeen, KeepaliveFires, Supersede
<1>3. CASE RightSends
  <2>1. CASE Retry
    BY <1>3, <2>1 DEF RightSends, Retry
  <2>2. CASE TakeSnapshot
    <3>1. Delivery!Take
      BY <1>3, <2>2 DEF RightSends, TakeSnapshot, Delivery!Take
    <3> QED
      BY <3>1 DEF Delivery!Next
  <2> QED
    BY <1>3, <2>1, <2>2 DEF RightSends
<1>4. CASE SlotRefused \/ TransmissionLost
  BY <1>4 DEF SlotRefused, SendError, TransmissionLost
<1>5. CASE SlotEnds
  <2>1. CASE heard # Silence /\ AckMatches(heard, RIGHT_DEVICE_ID, snap.sequence)
    <3>1. /\ rpc = "send" /\ confirmed' = snap.payload.version
          /\ UNCHANGED <<written, queued_top, applied, lost>>
      BY <1>5, <2>1 DEF SlotEnds, SendAcked
    <3>2. snap.payload.version = written /\ queued_top = written
      BY <1>0, <2>1, <3>1 DEF Latest, Answers, Answered
    <3>3. confirmed' \in confirmed + 1 .. queued_top \/ confirmed' = confirmed
      BY <1>0, <3>1, <3>2 DEF InOrder, LinkType
    <3>4. Delivery!Confirm \/ Same
      BY <3>1, <3>3 DEF Delivery!Confirm
    <3> QED
      BY <3>4 DEF Delivery!Next
  <2>2. CASE ~(heard # Silence /\ AckMatches(heard, RIGHT_DEVICE_ID, snap.sequence))
    BY <1>5, <2>2 DEF SlotEnds, SendMiss
  <2> QED
    BY <2>1, <2>2
<1>6. ASSUME NEW ack_heard \in BOOLEAN, Received(ack_heard)
      PROVE  Delivery!Next \/ Same
  <2>1. CASE seen
    BY <1>6, <2>1 DEF Received
  <2>2. CASE ~seen
    <3>1. rpc = "send" /\ NewPacket(RIGHT_PIPE, Frame)
      BY <1>6, <2>2 DEF Received, OnAir
    <3>2. Frame.payload.version = written
      BY <3>1, FrameIsRight
    <3>3. queued_top' \in {written, queued_top} /\ UNCHANGED <<written, applied, confirmed, lost>>
      BY <1>6, <3>1, <3>2 DEF Received, NewPacket
    <3>4. queued_top' \in queued_top + 1 .. written \/ queued_top' = queued_top
      BY <1>0, <3>3 DEF InOrder, LinkType
    <3>5. Delivery!Queue \/ Same
      BY <3>3, <3>4 DEF Delivery!Queue
    <3> QED
      BY <3>5 DEF Delivery!Next
  <2> QED
    BY <2>1, <2>2
<1>7. ASSUME NEW s \in Strangers, StrangerReceived(s) PROVE Same
  BY <1>7 DEF StrangerReceived, NewPacket
<1>8. CASE PrxTask
  <2>1. UNCHANGED <<written, queued_top, confirmed, lost>>
    BY <1>8 DEF PrxTask, EventNew, EventDropped
  <2>2. CASE EventDropped
    BY <2>1, <2>2 DEF EventDropped
  <2>3. CASE EventNew
    <3>1. LinkInv'
      BY <1>8, EventKeeps DEF PrxTask
    <3>2. applied <= applied' /\ applied' <= queued_top /\ applied' \in Nat
      BY <2>1, <2>3, <3>1, EventKeeps DEF LinkInv, InOrder, LinkType
    <3>3. applied' \in applied + 1 .. queued_top \/ applied' = applied
      BY <1>0, <3>2 DEF LinkType
    <3>4. Delivery!Apply \/ Same
      BY <2>1, <3>3 DEF Delivery!Apply
    <3> QED
      BY <3>4 DEF Delivery!Next
  <2> QED
    BY <1>8, <2>2, <2>3 DEF PrxTask
<1>9. CASE LinkLossTask \/ Tick
  BY <1>9 DEF LinkLossTask, LinkLossPoll, Tick, LeftTick
<1>10. CASE LeftResets
  <2>1. Delivery!Crash
    BY <1>10 DEF LeftResets, LeftRestart, Delivery!Crash
  <2> QED
    BY <2>1 DEF Delivery!Next
<1>11. CASE RightDies
  BY <1>11 DEF RightDies
<1>12. CASE UNCHANGED vars
  BY <1>12 DEF vars
<1> QED
  BY <1>1, <1>2, <1>3, <1>4, <1>5, <1>6, <1>7, <1>8, <1>9, <1>10, <1>11, <1>12 DEF Next

\* The link implements the safety part of SnapshotDelivery: whatever packets,
\* ACKs and slots are lost, repeated or superseded, and whatever strangers send,
\* snapshots are queued, applied and confirmed in the order they were taken.
THEOREM SplitDeliverySafe == Spec => DeliverySafe
<1>1. Init => Delivery!Init
  BY DeliveryInit
<1>2. LinkInv /\ [Next]_vars => [Delivery!Next]_(Delivery!vars)
  BY DeliveryStep
<1> QED
  BY <1>1, <1>2, SplitLinkInvariant, PTL DEF Spec, DeliverySafe

-----------------------------------------------------------------------------
(* Applied once.  Frames of the same snapshot carry the same sequence      *)
(* number, and the tracker holds that of the last snapshot applied, unless *)
(* a reset of the left half has cleared it.                                *)

SameNumber ==
  /\ \A i \in 1 .. Len(events) : FromRight(events[i]) =>
       /\ applied > lost /\ events[i].frame.payload.version = applied
          => events[i].frame.sequence = tracker[RIGHT_DEVICE_ID]
       /\ rpc \in {"send", "delay"} /\ events[i].frame.payload.version = written
          => events[i].frame.sequence = snap.sequence
  /\ \A i, j \in 1 .. Len(events) :
       /\ FromRight(events[i]) /\ FromRight(events[j])
       /\ events[i].frame.payload.version = events[j].frame.payload.version
       => events[i].frame.sequence = events[j].frame.sequence
  /\ rpc \in {"send", "delay"} /\ applied > lost /\ applied = written
     => tracker[RIGHT_DEVICE_ID] = snap.sequence

\* No two frames with one sequence number at first.
LEMMA SameNumberInit == Init => SameNumber
BY DEF Init, RightInit, LeftInit, SameNumber

\* A step after which the right half sends no other snapshot than before
LEMMA SameNumberQuiet ==
  ASSUME SameNumber, UNCHANGED <<written, events, tracker, applied, lost>>,
         rpc' \in {"send", "delay"} => rpc \in {"send", "delay"} /\ snap' = snap
  PROVE  SameNumber'
BY DEF SameNumber

\* The RADIO callback queues a packet, or drops it.
LEMMA SameNumberPacket ==
  ASSUME LinkInv, SameNumber, NEW p, NEW f, [pipe |-> p, frame |-> f] \in Event,
         NewPacket(p, f), UNCHANGED rightVars, lost' = lost,
         FromRight([pipe |-> p, frame |-> f])
           => rpc = "send" /\ f.payload.version = written /\ f.sequence = snap.sequence
  PROVE  SameNumber'
<1> DEFINE e == [pipe |-> p, frame |-> f]
<1>1. LinkType /\ InOrder
  BY DEF LinkInv
<1>2. UNCHANGED <<written, rpc, snap, tracker, applied, lost>>
  BY DEF NewPacket, rightVars
<1>3. CASE ~CanPush
  BY <1>2, <1>3 DEF NewPacket, SameNumber
<1>4. CASE CanPush
  <2>1. events \in Seq(Event) /\ events' = Append(events, e)
    BY <1>1, <1>4 DEF NewPacket, LinkType
  <2>2. /\ Len(events') = Len(events) + 1 /\ Len(events) \in Nat
        /\ \A i \in 1 .. Len(events) : events'[i] = events[i]
        /\ events'[Len(events) + 1] = e
    BY <2>1
  <2>3. ASSUME NEW i \in 1 .. Len(events'), FromRight(events'[i])
        PROVE  /\ applied > lost /\ events'[i].frame.payload.version = applied
                  => events'[i].frame.sequence = tracker[RIGHT_DEVICE_ID]
               /\ rpc \in {"send", "delay"} /\ events'[i].frame.payload.version = written
                  => events'[i].frame.sequence = snap.sequence
    <3>1. CASE i \in 1 .. Len(events)
      BY <2>2, <2>3, <3>1 DEF SameNumber
    <3>2. CASE i = Len(events) + 1
      <4>1. events'[i] = e /\ FromRight(e)
        BY <2>2, <2>3, <3>2
      <4>2. rpc = "send" /\ e.frame.payload.version = written /\ e.frame.sequence = snap.sequence
        BY <4>1
      <4> QED
        BY <4>1, <4>2 DEF SameNumber
    <3> QED
      BY <2>2, <3>1, <3>2
  <2>4. ASSUME NEW i \in 1 .. Len(events'), NEW j \in 1 .. Len(events'),
               FromRight(events'[i]), FromRight(events'[j]),
               events'[i].frame.payload.version = events'[j].frame.payload.version
        PROVE  events'[i].frame.sequence = events'[j].frame.sequence
    <3>1. CASE i \in 1 .. Len(events) /\ j \in 1 .. Len(events)
      BY <2>2, <2>4, <3>1 DEF SameNumber
    <3>2. CASE i = Len(events) + 1 \/ j = Len(events) + 1
      <4>1. FromRight(e)
        BY <2>2, <2>4, <3>2
      <4>2. rpc = "send" /\ e.frame.payload.version = written /\ e.frame.sequence = snap.sequence
        BY <4>1
      <4>3. /\ events'[i].frame.payload.version = written
            /\ events'[j].frame.payload.version = written
        BY <2>2, <2>4, <3>2, <4>2
      <4> QED
        BY <2>3, <2>4, <4>2, <4>3
    <3> QED
      BY <2>2, <3>1, <3>2
  <2> QED
    BY <1>2, <2>3, <2>4 DEF SameNumber
<1> QED
  BY <1>3, <1>4

\* What prx_task makes of the oldest event of the right half
LEMMA AcceptedSequence ==
  ASSUME LinkInv, EventNew
  PROVE  /\ Head(events).frame.sequence # tracker[RIGHT_DEVICE_ID]
         /\ tracker'[RIGHT_DEVICE_ID] = Head(events).frame.sequence
<1>1. FromRight(Head(events))
  BY EventKeeps
<1>2. /\ accept_bound_frame(Bindings, tracker, Head(events).pipe, Head(events).frame) = "new"
      /\ tracker' = Track(tracker, Head(events).frame.device, Head(events).frame.sequence)
  BY DEF EventNew, NextEvent
<1>3. DOMAIN tracker = Devices
  BY DEF LinkInv, LinkType
<1> QED
  BY <1>1, <1>2, <1>3 DEF accept_bound_frame, IsDuplicate, Track, FromRight

\* prx_task keeps a sequence number to one snapshot.
LEMMA SameNumberEvent ==
  ASSUME LinkInv, SameNumber, EventNew \/ EventDropped, UNCHANGED rightVars, lost' = lost
  PROVE  SameNumber'
<1>1. LinkType /\ InOrder
  BY DEF LinkInv
<1>2. /\ events # <<>> /\ events' = Tail(events)
      /\ EventDropped => UNCHANGED <<tracker, applied>>
      /\ UNCHANGED <<written, rpc, snap>>
  BY DEF EventNew, EventDropped, PopEvent, rightVars
<1>3. /\ events \in Seq(Event)
      /\ Len(events) \in Nat \ {0} /\ Len(events') = Len(events) - 1
      /\ \A i \in 1 .. Len(events') : i + 1 \in 1 .. Len(events) /\ events'[i] = events[i + 1]
      /\ Head(events) = events[1] /\ 1 \in 1 .. Len(events)
  BY <1>1, <1>2 DEF LinkType
<1>4. CASE EventDropped
  BY <1>2, <1>3, <1>4 DEF SameNumber
<1>5. CASE EventNew
  <2>1. /\ FromRight(events[1]) /\ applied' = events[1].frame.payload.version
        /\ tracker'[RIGHT_DEVICE_ID] = events[1].frame.sequence
    BY <1>3, <1>5, EventKeeps, AcceptedSequence
  <2>2. ASSUME NEW i \in 1 .. Len(events'), FromRight(events'[i]),
               events'[i].frame.payload.version = applied'
        PROVE  events'[i].frame.sequence = tracker'[RIGHT_DEVICE_ID]
    <3>1. i + 1 \in 1 .. Len(events) /\ events'[i] = events[i + 1]
      BY <1>3
    <3> QED
      BY <1>3, <2>1, <2>2, <3>1 DEF SameNumber
  <2>3. rpc \in {"send", "delay"} /\ applied' = written
        => tracker'[RIGHT_DEVICE_ID] = snap.sequence
    BY <1>3, <2>1 DEF SameNumber
  <2>4. ASSUME NEW i \in 1 .. Len(events'), FromRight(events'[i]),
               rpc \in {"send", "delay"}, events'[i].frame.payload.version = written
        PROVE  events'[i].frame.sequence = snap.sequence
    <3>1. i + 1 \in 1 .. Len(events) /\ events'[i] = events[i + 1]
      BY <1>3
    <3> QED
      BY <1>2, <2>4, <3>1 DEF SameNumber
  <2>5. ASSUME NEW i \in 1 .. Len(events'), NEW j \in 1 .. Len(events'),
               FromRight(events'[i]), FromRight(events'[j]),
               events'[i].frame.payload.version = events'[j].frame.payload.version
        PROVE  events'[i].frame.sequence = events'[j].frame.sequence
    <3>1. i + 1 \in 1 .. Len(events) /\ events'[i] = events[i + 1]
      BY <1>3
    <3>2. j + 1 \in 1 .. Len(events) /\ events'[j] = events[j + 1]
      BY <1>3
    <3> QED
      BY <2>5, <3>1, <3>2 DEF SameNumber
  <2> QED
    BY <1>2, <2>2, <2>3, <2>4, <2>5 DEF SameNumber
<1> QED
  BY <1>4, <1>5

\* Every step keeps a sequence number to one snapshot.
LEMMA SameNumberNext == LinkInv /\ SameNumber /\ [Next]_vars => SameNumber'
<1> SUFFICES ASSUME LinkInv, SameNumber, [Next]_vars PROVE SameNumber'
  OBVIOUS
<1> USE DEF rightVars, leftVars, linkVars, sessionVars
<1>0. LinkType /\ InOrder
  BY DEF LinkInv
<1>1. ASSUME NEW rows \in SUBSET RightKeys, RightScan(rows) PROVE SameNumber'
  BY <1>1, SameNumberQuiet DEF RightScan, ScanChange
<1>2. CASE RightRests \/ RightWakes
  BY <1>2, SameNumberQuiet DEF RightRests, WaitForChange, RightWakes, ChangeSeen,
     KeepaliveFires, Supersede
<1>3. CASE RightSends
  <2>1. CASE Retry
    BY <1>3, <2>1, SameNumberQuiet DEF RightSends, Retry
  <2>2. CASE TakeSnapshot
    <3>1. /\ UNCHANGED <<events, tracker, applied, lost>> /\ written' = written + 1
      BY <1>3, <2>2 DEF RightSends, TakeSnapshot
    <3>2. applied # written'
      BY <1>0, <3>1 DEF InOrder, LinkType
    <3>3. ASSUME NEW i \in 1 .. Len(events), FromRight(events[i])
          PROVE  events[i].frame.payload.version # written'
      <4>1. events[i].frame \in RightFrame /\ events[i].frame.payload.version <= queued_top
        BY <1>0, <3>3 DEF InOrder
      <4>2. events[i].frame.payload.version \in Nat
        BY <4>1 DEF RightFrame
      <4> QED
        BY <1>0, <3>1, <4>1, <4>2 DEF InOrder, LinkType
    <3> QED
      BY <3>1, <3>2, <3>3 DEF SameNumber
  <2> QED
    BY <1>3, <2>1, <2>2 DEF RightSends
<1>4. CASE SlotRefused \/ TransmissionLost
  BY <1>4, SameNumberQuiet DEF SlotRefused, SendError, TransmissionLost
<1>5. CASE SlotEnds
  BY <1>5, SameNumberQuiet DEF SlotEnds, SendAcked, SendMiss
<1>6. ASSUME NEW ack_heard \in BOOLEAN, Received(ack_heard) PROVE SameNumber'
  <2>1. CASE seen
    BY <1>6, <2>1, SameNumberQuiet DEF Received
  <2>2. CASE ~seen
    <3>1. /\ rpc = "send" /\ NewPacket(RIGHT_PIPE, Frame)
          /\ UNCHANGED rightVars /\ lost' = lost
      BY <1>6, <2>2 DEF Received, OnAir
    <3>2. /\ Frame \in RightFrame /\ Frame.payload.version = written
          /\ Frame.sequence = snap.sequence
      BY <3>1, FrameIsRight
    <3>3. [pipe |-> RIGHT_PIPE, frame |-> Frame] \in Event
      BY <3>2 DEF Event
    <3> QED
      BY <3>1, <3>2, <3>3, SameNumberPacket
  <2> QED
    BY <2>1, <2>2
<1>7. ASSUME NEW s \in Strangers, StrangerReceived(s) PROVE SameNumber'
  BY <1>7, StrangerIsEvent, SameNumberPacket DEF StrangerReceived
<1>8. CASE PrxTask
  BY <1>8, SameNumberEvent DEF PrxTask
<1>9. CASE LinkLossTask \/ Tick
  BY <1>9, SameNumberQuiet DEF LinkLossTask, LinkLossPoll, Tick, LeftTick
<1>10. CASE LeftResets
  <2>1. events' = <<>> /\ lost' = queued_top /\ applied' = applied
    BY <1>10 DEF LeftResets, LeftRestart
  <2>2. Len(events') = 0 /\ ~(applied' > lost')
    BY <1>0, <2>1 DEF InOrder, LinkType
  <2> QED
    BY <2>2 DEF SameNumber
<1>11. CASE RightDies
  BY <1>11, SameNumberQuiet DEF RightDies
<1>12. CASE UNCHANGED vars
  BY <1>12, SameNumberQuiet DEF vars
<1> QED
  BY <1>1, <1>2, <1>3, <1>4, <1>5, <1>6, <1>7, <1>8, <1>9, <1>10, <1>11, <1>12 DEF Next

\* A frame that prx_task accepts is newer than all before.
LEMMA EventNewAdvances ==
  LinkInv /\ SameNumber /\ EventNew => applied' > applied \/ applied' \in 1 .. lost
<1> SUFFICES ASSUME LinkInv, SameNumber, EventNew, ~(applied' > applied)
             PROVE  applied' \in 1 .. lost
  OBVIOUS
<1>1. LinkType /\ InOrder /\ events # <<>>
  BY DEF LinkInv, EventNew, PopEvent
<1>2. Head(events) = events[1] /\ 1 \in 1 .. Len(events)
  BY <1>1 DEF LinkType
<1>3. /\ FromRight(events[1]) /\ applied' = events[1].frame.payload.version
      /\ applied <= applied' /\ events[1].frame.sequence # tracker[RIGHT_DEVICE_ID]
  BY <1>2, EventKeeps, AcceptedSequence
<1>4. events[1].frame.payload.version \in Nat \ {0}
  BY <1>1, <1>2, <1>3 DEF InOrder, RightFrame
<1>5. applied' = applied
  BY <1>1, <1>3, <1>4 DEF LinkType
<1>6. ~(applied > lost)
  BY <1>2, <1>3, <1>5 DEF SameNumber
<1> QED
  BY <1>1, <1>3, <1>4, <1>5, <1>6 DEF LinkType

\* prx_task accepts no snapshot twice and none after a newer one, but for those
\* a reset of the left half has made it forget: any number of sequence numbers
\* will do, since a frame that is repeated carries the number it had.
THEOREM SplitAppliedOnce == Spec => AppliedOnce
<1>1. Init => SameNumber
  BY SameNumberInit
<1>2. LinkInv /\ SameNumber /\ [Next]_vars => SameNumber'
  BY SameNumberNext
<1>3. LinkInv /\ SameNumber /\ [Next]_vars
      => [EventNew => applied' > applied \/ applied' \in 1 .. lost]_vars
  BY EventNewAdvances
<1> QED
  BY <1>1, <1>2, <1>3, SplitLinkInvariant, PTL DEF Spec, AppliedOnce

-----------------------------------------------------------------------------
(* Confirmed is held.  As long as the sequence numbers do not wrap, the    *)
(* number of a frame tells its snapshot, so that prx_task cannot take the  *)
(* last snapshot queued for one it has seen.                               *)

Numbered ==
  /\ written <= MaxSnapshots
  /\ written < SeqCount => sequence = written
  /\ rpc \in {"send", "delay"} => snap.sequence = written - 1
  /\ \A i \in 1 .. Len(events) :
       FromRight(events[i]) => events[i].frame.sequence = events[i].frame.payload.version - 1
  /\ \/ tracker[RIGHT_DEVICE_ID] = applied - 1
     \/ tracker[RIGHT_DEVICE_ID] = NoSeq /\ applied <= lost

Held ==
  queued_top > lost =>
    \/ queued_top <= applied
    \/ \E i \in 1 .. Len(events) :
         FromRight(events[i]) /\ events[i].frame.payload.version = queued_top

HeldInv == Numbered /\ Held

\* What follows from it: the frame held is one prx_task will accept.
LEMMA HeldIsConfirmed ==
  ASSUME MaxSnapshots <= SeqCount
  PROVE  LinkInv /\ HeldInv => ConfirmedIsHeld
<1> SUFFICES ASSUME LinkInv, HeldInv, confirmed > lost, ~(confirmed <= applied)
             PROVE  \E i \in 1 .. Len(events) :
                      /\ events[i].pipe = RIGHT_PIPE /\ events[i].frame.device = RIGHT_DEVICE_ID
                      /\ events[i].frame.payload.version >= confirmed
                      /\ events[i].frame.sequence # tracker[RIGHT_DEVICE_ID]
  BY DEF ConfirmedIsHeld
<1>1. LinkType /\ InOrder /\ Numbered /\ Held
  BY DEF LinkInv, HeldInv
<1>2. confirmed <= queued_top /\ queued_top > lost /\ ~(queued_top <= applied)
  BY <1>1 DEF InOrder, LinkType
<1>3. PICK i \in 1 .. Len(events) :
        FromRight(events[i]) /\ events[i].frame.payload.version = queued_top
  BY <1>1, <1>2 DEF Held
<1>4. events[i].frame.sequence = queued_top - 1
  BY <1>1, <1>3 DEF Numbered
<1>5. queued_top <= SeqCount /\ NoSeq = SeqCount
  BY <1>1 DEF InOrder, Numbered, LinkType, NoSeq
<1>6. events[i].frame.sequence # tracker[RIGHT_DEVICE_ID]
  BY <1>1, <1>2, <1>4, <1>5 DEF Numbered, LinkType
<1> QED
  BY <1>2, <1>3, <1>6 DEF FromRight

\* Nothing is confirmed at first.
LEMMA HeldInvInit == Init => HeldInv
<1> SUFFICES ASSUME Init PROVE HeldInv
  OBVIOUS
<1>1. tracker[RIGHT_DEVICE_ID] = NoSeq
  BY DEF Init, LeftInit, EmptyTracker
<1> QED
  BY <1>1 DEF Init, RightInit, LeftInit, HeldInv, Numbered, Held

\* A step after which the right half sends no other snapshot than before
LEMMA HeldQuiet ==
  ASSUME HeldInv, UNCHANGED <<written, sequence, events, tracker, applied, queued_top, lost>>,
         rpc' \in {"send", "delay"} => rpc \in {"send", "delay"} /\ snap' = snap
  PROVE  HeldInv'
BY DEF HeldInv, Numbered, Held

\* The RADIO callback queues a packet, or drops it.
LEMMA HeldPacket ==
  ASSUME LinkInv, HeldInv, NEW p, NEW f, [pipe |-> p, frame |-> f] \in Event,
         NewPacket(p, f), UNCHANGED rightVars, lost' = lost,
         FromRight([pipe |-> p, frame |-> f])
           => rpc = "send" /\ f.payload.version = written /\ f.sequence = snap.sequence
  PROVE  HeldInv'
<1> DEFINE e == [pipe |-> p, frame |-> f]
<1>1. LinkType /\ Numbered /\ Held
  BY DEF LinkInv, HeldInv
<1>2. UNCHANGED <<written, sequence, rpc, snap, tracker, applied>>
  BY DEF NewPacket, rightVars
<1>3. CASE ~CanPush
  BY <1>1, <1>2, <1>3 DEF NewPacket, HeldInv, Numbered, Held
<1>4. CASE CanPush
  <2>1. events \in Seq(Event) /\ events' = Append(events, e)
    BY <1>1, <1>4 DEF NewPacket, LinkType
  <2>2. /\ Len(events') = Len(events) + 1 /\ Len(events) \in Nat
        /\ \A i \in 1 .. Len(events) : events'[i] = events[i]
        /\ events'[Len(events) + 1] = e
    BY <2>1
  <2>3. FromRight(e) => e.frame.payload.version = written /\ e.frame.sequence = written - 1
    BY <1>1 DEF Numbered
  <2>4. Numbered'
    <3>1. ASSUME NEW i \in 1 .. Len(events'), FromRight(events'[i])
          PROVE  events'[i].frame.sequence = events'[i].frame.payload.version - 1
      BY <1>1, <2>2, <2>3, <3>1 DEF Numbered
    <3> QED
      BY <1>1, <1>2, <3>1 DEF Numbered
  <2>5. Held'
    <3>1. CASE FromRight(e)
      <4>1. queued_top' = written
        BY <1>4, <2>3, <3>1 DEF NewPacket, FromRight
      <4>2. Len(events) + 1 \in 1 .. Len(events')
        BY <2>2
      <4> QED
        BY <2>2, <2>3, <3>1, <4>1, <4>2 DEF Held
    <3>2. CASE ~FromRight(e)
      <4>1. queued_top' = queued_top
        BY <1>4, <3>2 DEF NewPacket, FromRight
      <4>2. \A i \in 1 .. Len(events) : i \in 1 .. Len(events')
        BY <2>2
      <4> QED
        BY <1>1, <1>2, <2>2, <4>1, <4>2 DEF Held
    <3> QED
      BY <3>1, <3>2
  <2> QED
    BY <2>4, <2>5 DEF HeldInv
<1> QED
  BY <1>3, <1>4

\* A frame of the right half that is refused is a duplicate.
LEMMA DroppedIsDuplicate ==
  ASSUME LinkInv, EventDropped, FromRight(Head(events)), Head(events).frame \in RightFrame
  PROVE  Head(events).frame.sequence = tracker[RIGHT_DEVICE_ID]
<1>1. accept_bound_frame(Bindings, tracker, Head(events).pipe, Head(events).frame) # "new"
  BY DEF EventDropped, NextEvent
<1>2. DecodeOk(Head(events).frame)
  BY DEF DecodeOk, RightFrame, FLAGS_V1_MASK, TRANSPORT_HEADER_LEN, SNAPSHOT_PAYLOAD_LEN
<1>3. BindingAccepts(Bindings, Head(events).pipe, Head(events).frame.device)
  BY DEF BindingAccepts, Bindings, bind, EmptyBindings, FromRight
<1> QED
  BY <1>1, <1>2, <1>3 DEF accept_bound_frame, IsDuplicate, FromRight

\* prx_task loses no confirmed snapshot.
LEMMA HeldEvent ==
  ASSUME MaxSnapshots <= SeqCount, LinkInv, HeldInv, EventNew \/ EventDropped,
         UNCHANGED rightVars, lost' = lost
  PROVE  HeldInv'
<1>1. LinkType /\ InOrder /\ Numbered /\ Held
  BY DEF LinkInv, HeldInv
<1>2. /\ events # <<>> /\ events' = Tail(events)
      /\ EventDropped => UNCHANGED <<tracker, applied>>
      /\ UNCHANGED <<written, sequence, rpc, snap, queued_top>>
  BY DEF EventNew, EventDropped, PopEvent, rightVars
<1>3. /\ events \in Seq(Event)
      /\ Len(events) \in Nat \ {0} /\ Len(events') = Len(events) - 1
      /\ \A i \in 1 .. Len(events') : i + 1 \in 1 .. Len(events) /\ events'[i] = events[i + 1]
      /\ \A i \in 1 .. Len(events) : i # 1 => i - 1 \in 1 .. Len(events')
      /\ \A i \in 1 .. Len(events) : i # 1 => events'[i - 1] = events[i]
      /\ Head(events) = events[1] /\ 1 \in 1 .. Len(events)
  BY <1>1, <1>2 DEF LinkType
<1>4. ASSUME NEW i \in 1 .. Len(events'), FromRight(events'[i])
      PROVE  events'[i].frame.sequence = events'[i].frame.payload.version - 1
  <2>1. i + 1 \in 1 .. Len(events) /\ events'[i] = events[i + 1]
    BY <1>3
  <2> QED
    BY <1>1, <1>4, <2>1 DEF Numbered
<1>5. CASE EventNew
  <2>1. /\ FromRight(events[1]) /\ applied' = events[1].frame.payload.version
        /\ tracker'[RIGHT_DEVICE_ID] = events[1].frame.sequence /\ applied <= applied'
    BY <1>3, <1>5, EventKeeps, AcceptedSequence
  <2>2. tracker'[RIGHT_DEVICE_ID] = applied' - 1
    BY <1>1, <1>3, <2>1 DEF Numbered
  <2>3. Numbered'
    BY <1>1, <1>2, <1>4, <2>2 DEF Numbered
  <2>4. events[1].frame.payload.version \in Nat
    BY <1>1, <1>3, <2>1 DEF InOrder, RightFrame
  <2>5. Held'
    <3>1. CASE queued_top <= applied
      BY <1>1, <1>2, <2>1, <2>4, <3>1 DEF Held, LinkType
    <3>2. ASSUME NEW i \in 1 .. Len(events), FromRight(events[i]),
                 events[i].frame.payload.version = queued_top
          PROVE  Held'
      <4>1. CASE i = 1
        BY <1>1, <1>2, <2>1, <3>2, <4>1 DEF Held, LinkType
      <4>2. CASE i # 1
        BY <1>2, <1>3, <3>2, <4>2 DEF Held
      <4> QED
        BY <4>1, <4>2
    <3>3. CASE ~(queued_top > lost)
      BY <1>2, <3>3 DEF Held
    <3> QED
      BY <1>1, <3>1, <3>2, <3>3 DEF Held
  <2> QED
    BY <2>3, <2>5 DEF HeldInv
<1>6. CASE EventDropped
  <2>1. Numbered'
    BY <1>1, <1>2, <1>4, <1>6 DEF Numbered
  <2>2. Held'
    <3>1. CASE queued_top <= applied
      BY <1>2, <1>6, <3>1 DEF Held
    <3>2. ASSUME queued_top > lost, ~(queued_top <= applied), NEW i \in 1 .. Len(events),
                 FromRight(events[i]), events[i].frame.payload.version = queued_top
          PROVE  Held'
      <4>1. i # 1
        <5> SUFFICES ASSUME i = 1 PROVE FALSE
          OBVIOUS
        <5>1. events[1].frame \in RightFrame
          BY <1>1, <3>2 DEF InOrder
        <5>2. events[1].frame.sequence = tracker[RIGHT_DEVICE_ID]
          BY <1>3, <1>6, <3>2, <5>1, DroppedIsDuplicate
        <5>3. events[1].frame.sequence = queued_top - 1 /\ queued_top - 1 < SeqCount
          BY <1>1, <3>2 DEF Numbered, InOrder, LinkType
        <5> QED
          BY <1>1, <3>2, <5>2, <5>3 DEF Numbered, LinkType, NoSeq
      <4> QED
        BY <1>2, <1>3, <3>2, <4>1 DEF Held
    <3>3. CASE ~(queued_top > lost)
      BY <1>2, <3>3 DEF Held
    <3> QED
      BY <1>1, <3>1, <3>2, <3>3 DEF Held
  <2> QED
    BY <2>1, <2>2 DEF HeldInv
<1> QED
  BY <1>5, <1>6

\* Every step holds what has been confirmed.
LEMMA HeldInvNext ==
  ASSUME MaxSnapshots <= SeqCount
  PROVE  LinkInv /\ HeldInv /\ [Next]_vars => HeldInv'
<1> SUFFICES ASSUME LinkInv, HeldInv, [Next]_vars PROVE HeldInv'
  OBVIOUS
<1> USE DEF rightVars, leftVars, linkVars, sessionVars
<1>0. LinkType /\ InOrder /\ Numbered /\ Held
  BY DEF LinkInv, HeldInv
<1>1. ASSUME NEW rows \in SUBSET RightKeys, RightScan(rows) PROVE HeldInv'
  BY <1>1, HeldQuiet DEF RightScan, ScanChange
<1>2. CASE RightRests \/ RightWakes
  BY <1>2, HeldQuiet DEF RightRests, WaitForChange, RightWakes, ChangeSeen,
     KeepaliveFires, Supersede
<1>3. CASE RightSends
  <2>1. CASE Retry
    BY <1>3, <2>1, HeldQuiet DEF RightSends, Retry
  <2>2. CASE TakeSnapshot
    <3>1. /\ UNCHANGED <<events, tracker, applied, queued_top, lost>>
          /\ written' = written + 1 /\ written < MaxSnapshots
          /\ snap'.sequence = sequence /\ sequence' = NextSeq(sequence)
      BY <1>3, <2>2 DEF RightSends, TakeSnapshot
    <3>2. sequence = written /\ written' <= MaxSnapshots
      BY <1>0, <3>1 DEF Numbered, LinkType
    <3>3. written' < SeqCount => sequence' = written'
      BY <1>0, <3>1, <3>2 DEF NextSeq, LinkType
    <3>4. snap'.sequence = written' - 1
      BY <1>0, <3>1, <3>2 DEF LinkType
    <3> QED
      BY <1>0, <3>1, <3>2, <3>3, <3>4 DEF HeldInv, Numbered, Held
  <2> QED
    BY <1>3, <2>1, <2>2 DEF RightSends
<1>4. CASE SlotRefused \/ TransmissionLost
  BY <1>4, HeldQuiet DEF SlotRefused, SendError, TransmissionLost
<1>5. CASE SlotEnds
  BY <1>5, HeldQuiet DEF SlotEnds, SendAcked, SendMiss
<1>6. ASSUME NEW ack_heard \in BOOLEAN, Received(ack_heard) PROVE HeldInv'
  <2>1. CASE seen
    BY <1>6, <2>1, HeldQuiet DEF Received
  <2>2. CASE ~seen
    <3>1. /\ rpc = "send" /\ NewPacket(RIGHT_PIPE, Frame)
          /\ UNCHANGED rightVars /\ lost' = lost
      BY <1>6, <2>2 DEF Received, OnAir
    <3>2. /\ Frame \in RightFrame /\ Frame.payload.version = written
          /\ Frame.sequence = snap.sequence
      BY <3>1, FrameIsRight
    <3>3. [pipe |-> RIGHT_PIPE, frame |-> Frame] \in Event
      BY <3>2 DEF Event
    <3> QED
      BY <3>1, <3>2, <3>3, HeldPacket
  <2> QED
    BY <2>1, <2>2
<1>7. ASSUME NEW s \in Strangers, StrangerReceived(s) PROVE HeldInv'
  BY <1>7, StrangerIsEvent, HeldPacket DEF StrangerReceived
<1>8. CASE PrxTask
  BY <1>8, HeldEvent DEF PrxTask
<1>9. CASE LinkLossTask \/ Tick
  BY <1>9, HeldQuiet DEF LinkLossTask, LinkLossPoll, Tick, LeftTick
<1>10. CASE LeftResets
  <2>1. /\ events' = <<>> /\ lost' = queued_top /\ UNCHANGED <<applied, queued_top, rightVars>>
        /\ tracker' = EmptyTracker
    BY <1>10 DEF LeftResets, LeftRestart
  <2>2. Len(events') = 0 /\ tracker'[RIGHT_DEVICE_ID] = NoSeq /\ applied' <= lost'
    BY <1>0, <2>1 DEF EmptyTracker, InOrder
  <2>3. Numbered'
    BY <1>0, <2>1, <2>2 DEF Numbered
  <2>4. Held'
    BY <1>0, <2>1 DEF Held, LinkType
  <2> QED
    BY <2>3, <2>4 DEF HeldInv
<1>11. CASE RightDies
  BY <1>11, HeldQuiet DEF RightDies
<1>12. CASE UNCHANGED vars
  BY <1>12, HeldQuiet DEF vars
<1> QED
  BY <1>1, <1>2, <1>3, <1>4, <1>5, <1>6, <1>7, <1>8, <1>9, <1>10, <1>11, <1>12 DEF Next

\* A snapshot whose transport ACK came has been applied, or waits in the queue
\* with a number prx_task will accept, unless a reset of the left half has lost
\* it; provided that the sequence numbers do not wrap (main.rs counts modulo 256).
THEOREM SplitConfirmedIsHeld ==
  ASSUME MaxSnapshots <= SeqCount
  PROVE  Spec => []ConfirmedIsHeld
<1>1. Init => HeldInv
  BY HeldInvInit
<1>2. LinkInv /\ HeldInv /\ [Next]_vars => HeldInv'
  BY HeldInvNext
<1>3. LinkInv /\ HeldInv => ConfirmedIsHeld
  BY HeldIsConfirmed
<1> QED
  BY <1>1, <1>2, <1>3, SplitLinkInvariant, PTL DEF Spec

-----------------------------------------------------------------------------
(* The watchdog is quiet.  The right keys are held for a right half that   *)
(* lives: the time since its last accepted snapshot is at most the wait    *)
(* for the ACK of that one, the keepalive, and the wait for the next ACK.  *)

\* The clocks keep within their bounds.
ClockInv ==
  last_seen \in 0 .. Never /\ mute \in 0 .. MaxMute /\ kage \in 0 .. Keepalive

\* A clean matrix is that of the last snapshot.  The main task rests only on a
\* confirmed one, and the signal of a change ends its rest before time goes on.
RestInv ==
  /\ written > 0 => snap \in SnapType /\ snap.payload.version = written
  /\ ~mdirty => mrows = IF written = 0 THEN {} ELSE snap.payload.rows
  /\ rpc \in {"idle", "hold"} \/ (rpc = "check" /\ ~mdirty) => confirmed = written
  /\ rpc \in {"idle", "hold"} /\ mdirty => mchanged
  /\ rpc = "idle" /\ ~mdirty => mrows = {}
  /\ rpc = "hold" /\ mchanged /\ ~mdirty => kage = 0

\* The left half has seen a frame only since its last reset, and the rows it
\* shows after the last snapshot are those of it, or cleared.
SeenInv ==
  /\ lost <= queued_top
  /\ \A i \in 1 .. Len(events) : FromRight(events[i]) =>
       /\ events[i].frame.payload.version >= lost
       /\ events[i].frame.payload.version = written
          => events[i].frame.payload.rows = snap.payload.rows
  /\ last_seen # Never =>
       /\ applied >= lost /\ written > 0
       /\ applied = written => lrows \in {{}, snap.payload.rows}

\* How long ago the last snapshot was accepted while keys are held
LagInv ==
  last_seen # Never /\ lrows # {} /\ rpc # "off" =>
    /\ last_seen <= MaxMute + Keepalive + MaxMute
    /\ applied >= confirmed =>
         /\ rpc \in {"send", "delay"} /\ applied = written => last_seen <= mute
         /\ rpc \in {"send", "delay", "check"} => last_seen <= MaxMute + Keepalive + mute
         /\ rpc = "hold" => last_seen <= MaxMute + kage
         /\ rpc = "idle" \/ (rpc = "check" /\ ~mdirty) => last_seen <= MaxMute

WatchInv == ClockInv /\ RestInv /\ SeenInv /\ LagInv

\* What holds at first
LEMMA WatchInit == Init => WatchInv
<1> SUFFICES ASSUME Init PROVE WatchInv
  OBVIOUS
<1>1. /\ events = <<>> /\ last_seen = Never /\ lost = 0 /\ queued_top = 0 /\ mute = 0
      /\ kage = 0 /\ mdirty = FALSE /\ mchanged = FALSE /\ mrows = {} /\ rpc = "check"
      /\ written = 0 /\ confirmed = 0
  BY DEF Init, RightInit, LeftInit
<1>2. ClockInv
  BY <1>1 DEF ClockInv
<1>3. RestInv
  BY <1>1 DEF RestInv
<1>4. SeenInv
  BY <1>1 DEF SeenInv
<1>5. LagInv
  BY <1>1 DEF LagInv
<1> QED
  BY <1>2, <1>3, <1>4, <1>5 DEF WatchInv

\* No clock runs past its bound.
LEMMA ClockNext ==
  ASSUME ClockInv, [Next]_vars
  PROVE  ClockInv'
<1> USE DEF rightVars, leftVars, linkVars, ClockInv
<1>1. ASSUME NEW rows \in SUBSET RightKeys, RightScan(rows) PROVE ClockInv'
  BY <1>1 DEF RightScan, ScanChange
<1>2. CASE RightRests \/ RightWakes
  BY <1>2 DEF RightRests, WaitForChange, RightWakes, ChangeSeen, KeepaliveFires, Supersede
<1>3. CASE RightSends
  BY <1>3 DEF RightSends, TakeSnapshot, Retry
<1>4. CASE SlotRefused \/ TransmissionLost \/ RightDies
  BY <1>4 DEF SlotRefused, SendError, TransmissionLost, RightDies
<1>5. CASE SlotEnds
  BY <1>5 DEF SlotEnds, SendAcked, SendMiss
<1>6. ASSUME NEW ack_heard \in BOOLEAN, Received(ack_heard) PROVE ClockInv'
  BY <1>6 DEF Received, NewPacket
<1>7. ASSUME NEW s \in Strangers, StrangerReceived(s) PROVE ClockInv'
  BY <1>7 DEF StrangerReceived, NewPacket
<1>8. CASE PrxTask \/ LinkLossTask
  BY <1>8 DEF PrxTask, EventNew, EventDropped, LinkLossTask, LinkLossPoll
<1>9. CASE Tick
  BY <1>9 DEF Tick, LeftTick, TasksRest, KeepaliveDue
<1>10. CASE LeftResets
  BY <1>10 DEF LeftResets, LeftRestart
<1>11. CASE UNCHANGED vars
  BY <1>11 DEF vars
<1> QED
  BY <1>1, <1>2, <1>3, <1>4, <1>5, <1>6, <1>7, <1>8, <1>9, <1>10, <1>11 DEF Next

\* The main task of the right half rests only on what has been confirmed.
LEMMA RestNext ==
  ASSUME LinkInv, RestInv, [Next]_vars
  PROVE  RestInv'
<1> USE DEF rightVars, leftVars, linkVars
<1>0. LinkType /\ Latest
  BY DEF LinkInv
<1>1. ASSUME NEW rows \in SUBSET RightKeys, RightScan(rows) PROVE RestInv'
  BY <1>1 DEF RightScan, ScanChange, RestInv
<1>2. CASE RightRests
  BY <1>2 DEF RightRests, WaitForChange, RestInv
<1>3. CASE RightWakes
  BY <1>3 DEF RightWakes, ChangeSeen, KeepaliveFires, Supersede, KeepaliveDue, RestInv
<1>4. CASE RightSends
  <2>1. CASE Retry
    BY <1>4, <2>1 DEF RightSends, Retry, RestInv
  <2>2. CASE TakeSnapshot
    <3>1. /\ snap' = [sequence |-> sequence, payload |-> Snapshot(mrows, written + 1)]
          /\ written' = written + 1 /\ rpc' = "send" /\ mrows' = mrows /\ mdirty' = FALSE
      BY <2>2 DEF TakeSnapshot
    <3>2. /\ snap' \in SnapType /\ snap'.payload.version = written'
          /\ snap'.payload.rows = mrows'
      BY <1>0, <3>1 DEF LinkType, SnapType, Snapshot, SNAPSHOT_PAYLOAD_LEN
    <3> QED
      BY <1>0, <3>1, <3>2 DEF RestInv, LinkType
  <2> QED
    BY <1>4, <2>1, <2>2 DEF RightSends
<1>5. CASE SlotRefused
  BY <1>5 DEF SlotRefused, SendError, RestInv
<1>6. CASE SlotEnds
  BY <1>0, <1>6 DEF SlotEnds, SendAcked, SendMiss, RestInv, Latest
<1>7. CASE UNCHANGED rightVars
  BY <1>7 DEF RestInv
<1>8. CASE Tick
  BY <1>8 DEF Tick, TasksRest, RestInv
<1>9. CASE RightDies
  BY <1>9 DEF RightDies, RestInv
<1>10. CASE TransmissionLost \/ PrxTask \/ LinkLossTask \/ LeftResets \/ UNCHANGED vars
  BY <1>7, <1>10 DEF TransmissionLost, PrxTask, LinkLossTask, LeftResets, vars
<1>11. ASSUME NEW ack_heard \in BOOLEAN, Received(ack_heard) PROVE RestInv'
  BY <1>7, <1>11 DEF Received
<1>12. ASSUME NEW s \in Strangers, StrangerReceived(s) PROVE RestInv'
  BY <1>7, <1>12 DEF StrangerReceived
<1> QED
  BY <1>1, <1>2, <1>3, <1>4, <1>5, <1>6, <1>8, <1>9, <1>10, <1>11, <1>12 DEF Next

\* A packet in the queue shows no other rows than its snapshot.
LEMMA SeenPacket ==
  ASSUME LinkInv, SeenInv, NEW p, NEW f, [pipe |-> p, frame |-> f] \in Event,
         NewPacket(p, f), UNCHANGED <<written, snap>>, lost' = lost,
         FromRight([pipe |-> p, frame |-> f])
           => f.payload.version = written /\ f.payload.rows = snap.payload.rows
  PROVE  SeenInv'
<1> DEFINE e == [pipe |-> p, frame |-> f]
<1>1. LinkType /\ InOrder
  BY DEF LinkInv
<1>2. UNCHANGED <<last_seen, applied, lrows>>
  BY DEF NewPacket, rightView
<1>3. queued_top <= written /\ lost <= queued_top /\ queued_top \in Nat /\ written \in Nat
      /\ lost \in Nat
  BY <1>1 DEF InOrder, LinkType, SeenInv
<1>4. (queued_top' = written /\ FromRight(e)) \/ queued_top' = queued_top
  BY DEF NewPacket, FromRight
<1>5. lost' <= queued_top'
  BY <1>3, <1>4
<1>6. ASSUME NEW i \in 1 .. Len(events'), FromRight(events'[i])
      PROVE  /\ events'[i].frame.payload.version >= lost
             /\ events'[i].frame.payload.version = written
                => events'[i].frame.payload.rows = snap.payload.rows
  <2>1. CASE ~CanPush
    BY <1>6, <2>1 DEF NewPacket, SeenInv
  <2>2. CASE CanPush
    <3>1. events \in Seq(Event) /\ events' = Append(events, e)
      BY <1>1, <2>2 DEF NewPacket, LinkType
    <3>2. /\ Len(events') = Len(events) + 1 /\ Len(events) \in Nat
          /\ \A j \in 1 .. Len(events) : events'[j] = events[j]
          /\ events'[Len(events) + 1] = e
      BY <3>1
    <3>3. CASE i = Len(events) + 1
      BY <1>3, <1>6, <3>2, <3>3
    <3>4. CASE i \in 1 .. Len(events)
      BY <1>6, <3>2, <3>4 DEF SeenInv
    <3> QED
      BY <3>2, <3>3, <3>4
  <2> QED
    BY <2>1, <2>2
<1> QED
  BY <1>2, <1>5, <1>6 DEF SeenInv

\* What prx_task shows are the rows of the snapshot it accepts.
LEMMA SeenEvent ==
  ASSUME LinkInv, SeenInv, EventNew \/ EventDropped, UNCHANGED rightVars, lost' = lost
  PROVE  SeenInv'
<1>1. LinkType /\ InOrder
  BY DEF LinkInv
<1>2. /\ events # <<>> /\ events' = Tail(events)
      /\ UNCHANGED <<written, snap, queued_top>>
  BY DEF EventNew, EventDropped, PopEvent, rightVars
<1>3. /\ events \in Seq(Event)
      /\ Len(events) \in Nat \ {0} /\ Len(events') = Len(events) - 1
      /\ \A i \in 1 .. Len(events') : i + 1 \in 1 .. Len(events) /\ events'[i] = events[i + 1]
      /\ Head(events) = events[1] /\ 1 \in 1 .. Len(events)
  BY <1>1, <1>2 DEF LinkType
<1>4. ASSUME NEW i \in 1 .. Len(events'), FromRight(events'[i])
      PROVE  /\ events'[i].frame.payload.version >= lost
             /\ events'[i].frame.payload.version = written
                => events'[i].frame.payload.rows = snap.payload.rows
  <2>1. i + 1 \in 1 .. Len(events) /\ events'[i] = events[i + 1]
    BY <1>3
  <2> QED
    BY <1>4, <2>1 DEF SeenInv
<1>5. CASE EventDropped
  BY <1>2, <1>4, <1>5 DEF EventDropped, SeenInv, rightView
<1>6. CASE EventNew
  <2> DEFINE e == events[1]
  <2>1. FromRight(e) /\ applied' = e.frame.payload.version
    BY <1>3, <1>6, EventKeeps
  <2>2. e.frame \in RightFrame /\ e.frame.payload.version <= queued_top
    BY <1>1, <1>3, <2>1 DEF InOrder
  <2>3. IsSnapshot(e.frame)
    BY <2>2 DEF RightFrame, IsSnapshot
  <2>4. lrows' = e.frame.payload.rows
    BY <1>3, <1>6, <2>3 DEF EventNew, NextEvent, SetRows
  <2>5. e.frame.payload.version \in Nat \ {0}
    BY <2>2 DEF RightFrame
  <2>6. /\ e.frame.payload.version >= lost
        /\ e.frame.payload.version = written => e.frame.payload.rows = snap.payload.rows
    BY <1>3, <2>1 DEF SeenInv
  <2>7. written > 0
    BY <1>1, <2>2, <2>5 DEF InOrder, LinkType
  <2> QED
    BY <1>2, <1>4, <2>1, <2>4, <2>6, <2>7 DEF SeenInv
<1> QED
  BY <1>5, <1>6

\* The left half shows the rows of the last snapshot it has seen.
LEMMA SeenNext ==
  ASSUME LinkInv, ClockInv, RestInv, SeenInv, [Next]_vars
  PROVE  SeenInv'
<1> USE DEF rightVars, leftVars, linkVars, sessionVars, rightView
<1> DEFINE Same == UNCHANGED <<events, last_seen, lrows, applied, queued_top, lost>>
<1>0. LinkType /\ Latest /\ InOrder
  BY DEF LinkInv
<1>1. ASSUME Same, UNCHANGED <<written, snap>> PROVE SeenInv'
  BY <1>1 DEF SeenInv
<1>2. CASE \/ \E rows \in SUBSET RightKeys : RightScan(rows)
           \/ RightRests \/ RightWakes \/ SlotRefused \/ SlotEnds \/ TransmissionLost \/ RightDies
  BY <1>1, <1>2 DEF RightScan, ScanChange, RightRests, WaitForChange, RightWakes, ChangeSeen,
     KeepaliveFires, Supersede, SlotRefused, SendError, SlotEnds, SendAcked, SendMiss,
     TransmissionLost, RightDies
<1>3. CASE RightSends
  <2>1. CASE Retry
    BY <1>1, <1>3, <2>1 DEF RightSends, Retry
  <2>2. CASE TakeSnapshot
    <3>1. Same /\ written' = written + 1
      BY <1>3, <2>2 DEF RightSends, TakeSnapshot
    <3>2. applied # written' /\ written' > 0
      BY <1>0, <3>1 DEF InOrder, LinkType
    <3>3. \A i \in 1 .. Len(events) : FromRight(events[i]) =>
            /\ events[i].frame.payload.version >= lost
            /\ events[i].frame.payload.version # written'
      BY <1>0, <3>1 DEF InOrder, LinkType, RightFrame, SeenInv
    <3> QED
      BY <3>1, <3>2, <3>3 DEF SeenInv
  <2> QED
    BY <1>3, <2>1, <2>2 DEF RightSends
<1>4. ASSUME NEW ack_heard \in BOOLEAN, Received(ack_heard) PROVE SeenInv'
  <2>1. CASE seen
    BY <1>1, <1>4, <2>1 DEF Received
  <2>2. CASE ~seen
    <3>1. /\ rpc = "send" /\ NewPacket(RIGHT_PIPE, Frame)
          /\ UNCHANGED rightVars /\ lost' = lost
      BY <1>4, <2>2 DEF Received, OnAir
    <3>2. /\ Frame \in RightFrame /\ Frame.payload.version = written
          /\ Frame.payload.rows = snap.payload.rows
      BY <3>1, FrameIsRight DEF Frame, encode_frame
    <3>3. [pipe |-> RIGHT_PIPE, frame |-> Frame] \in Event
      BY <3>2 DEF Event
    <3> QED
      BY <3>1, <3>2, <3>3, SeenPacket
  <2> QED
    BY <2>1, <2>2
<1>5. ASSUME NEW s \in Strangers, StrangerReceived(s) PROVE SeenInv'
  BY <1>5, StrangerIsEvent, SeenPacket DEF StrangerReceived
<1>6. CASE PrxTask
  BY <1>6, SeenEvent DEF PrxTask
<1>7. CASE LinkLossTask
  <2>1. /\ UNCHANGED <<events, last_seen, applied, queued_top, lost, written, snap>>
        /\ lrows' \in {lrows, {}}
    BY <1>7 DEF LinkLossTask, LinkLossPoll, clear_right_keys
  <2> QED
    BY <2>1 DEF SeenInv
<1>8. CASE Tick
  <2>1. /\ UNCHANGED <<events, lrows, applied, queued_top, lost, written, snap>>
        /\ last_seen' # Never => last_seen # Never
    BY <1>8 DEF Tick, LeftTick, ClockInv
  <2> QED
    BY <2>1 DEF SeenInv
<1>9. CASE LeftResets
  <2>1. /\ events' = <<>> /\ last_seen' = Never /\ lost' = queued_top
        /\ UNCHANGED <<queued_top>>
    BY <1>9 DEF LeftResets, LeftRestart
  <2>2. Len(events') = 0 /\ lost' <= queued_top'
    BY <1>0, <2>1 DEF LinkType
  <2> QED
    BY <2>1, <2>2 DEF SeenInv
<1>10. CASE UNCHANGED vars
  BY <1>1, <1>10 DEF vars
<1> QED
  BY <1>2, <1>3, <1>4, <1>5, <1>6, <1>7, <1>8, <1>9, <1>10 DEF Next

\* With an empty queue prx_task has applied what the right half takes for
\* delivered, if the left half has seen a frame since its last reset.
LEMMA CaughtUp ==
  ASSUME LinkInv, HeldInv, SeenInv, events = <<>>, last_seen # Never
  PROVE  applied >= confirmed
<1>1. LinkType /\ InOrder /\ Held
  BY DEF LinkInv, HeldInv
<1>2. Len(events) = 0
  OBVIOUS
<1>3. queued_top > lost => queued_top <= applied
  BY <1>1, <1>2 DEF Held
<1>4. applied >= lost
  BY DEF SeenInv
<1> QED
  BY <1>1, <1>3, <1>4 DEF InOrder, LinkType

\* Time goes on.
LEMMA LagTick ==
  ASSUME LinkInv, HeldInv, ClockInv, RestInv, SeenInv, LagInv, Tick
  PROVE  LagInv'
<1> SUFFICES ASSUME last_seen' # Never, lrows' # {}, rpc' # "off" PROVE LagInv'
  BY DEF LagInv
<1>1. LinkType /\ InOrder
  BY DEF LinkInv
<1>2. /\ events = <<>> /\ rpc # "check"
      /\ ~(rpc \in {"idle", "hold"} /\ mchanged)
      /\ UNCHANGED <<lrows, applied, mdirty, rpc, written, confirmed, snap>>
      /\ rpc \in {"send", "delay"} => mute < MaxMute /\ mute' = mute + 1
      /\ kage' = IF rpc = "hold" THEN kage + 1 ELSE kage
      /\ rpc = "hold" => kage < Keepalive
  BY DEF Tick, TasksRest, LeftTick, KeepaliveDue, ClockInv, leftVars, rightView
<1>3. last_seen # Never /\ lrows # {} /\ rpc # "off"
  BY <1>2 DEF Tick, LeftTick, ClockInv
<1>4. applied >= confirmed
  BY <1>2, <1>3, CaughtUp
<1>5. last_seen' <= last_seen + 1 /\ last_seen \in Nat /\ last_seen' \in Nat
      /\ mute \in Nat /\ kage \in Nat
  BY DEF Tick, LeftTick, ClockInv
<1>6. CASE rpc \in {"send", "delay"}
  BY <1>1, <1>2, <1>3, <1>4, <1>5, <1>6 DEF LagInv, LinkType
<1>7. CASE rpc = "hold"
  BY <1>1, <1>2, <1>3, <1>4, <1>5, <1>7 DEF LagInv, LinkType
<1>8. CASE rpc = "idle"
  <2>1. ~mdirty /\ mrows = {} /\ confirmed = written
    BY <1>2, <1>8 DEF RestInv, ClockInv
  <2>2. written > 0 /\ applied = written
    BY <1>1, <1>3, <1>4, <2>1 DEF InOrder, LinkType, SeenInv
  <2>3. snap.payload.rows = {} /\ lrows \in {{}, snap.payload.rows}
    BY <1>1, <1>3, <2>1, <2>2 DEF RestInv, SeenInv, LinkType
  <2> QED
    BY <1>3, <2>3
<1> QED
  BY <1>1, <1>2, <1>3, <1>6, <1>7, <1>8 DEF LinkType

\* The time since the last accepted snapshot is bounded while keys are held.
LEMMA LagNext ==
  ASSUME LinkInv, HeldInv, ClockInv, RestInv, SeenInv, LagInv, ClockInv', [Next]_vars
  PROVE  LagInv'
<1> USE DEF rightVars, leftVars, linkVars, sessionVars, rightView
<1>0. LinkType /\ Latest /\ InOrder
  BY DEF LinkInv
<1>1. applied \in Nat /\ confirmed \in Nat /\ written \in Nat /\ applied <= written
  BY <1>0 DEF LinkType, InOrder
<1>2. ASSUME NEW rows \in SUBSET RightKeys, RightScan(rows) PROVE LagInv'
  BY <1>2 DEF RightScan, ScanChange, LagInv
<1>3. CASE RightRests
  BY <1>3 DEF RightRests, WaitForChange, LagInv, ClockInv
<1>4. CASE RightWakes
  <2>1. CASE ChangeSeen
    BY <1>4, <2>1 DEF RightWakes, ChangeSeen, LagInv, ClockInv, RestInv
  <2>2. CASE KeepaliveFires
    BY <1>4, <2>2 DEF RightWakes, KeepaliveFires, KeepaliveDue, LagInv, ClockInv
  <2>3. CASE Supersede
    BY <1>4, <2>3 DEF RightWakes, Supersede, LagInv, ClockInv
  <2> QED
    BY <1>4, <2>1, <2>2, <2>3 DEF RightWakes
<1>5. CASE RightSends
  <2>1. CASE Retry
    BY <1>5, <2>1 DEF RightSends, Retry, LagInv
  <2>2. CASE TakeSnapshot
    <3>1. applied # written + 1
      BY <1>1
    <3> QED
      BY <1>5, <2>2, <3>1 DEF RightSends, TakeSnapshot, LagInv
  <2> QED
    BY <1>5, <2>1, <2>2 DEF RightSends
<1>6. CASE SlotRefused
  BY <1>6 DEF SlotRefused, SendError, LagInv
<1>7. CASE SlotEnds
  <2>1. CASE SendMiss /\ UNCHANGED mute
    BY <1>7, <2>1 DEF SlotEnds, SendMiss, LagInv, ClockInv
  <2>2. CASE SendAcked /\ mute' = 0
    <3>1. /\ rpc = "send" /\ rpc' = "check" /\ confirmed' = written
          /\ UNCHANGED <<last_seen, lrows, applied, mdirty, written>>
      BY <1>0, <1>7, <2>2 DEF SlotEnds, SendAcked, Latest
    <3>2. confirmed <= written
      BY <1>0 DEF InOrder, LinkType
    <3>3. applied >= confirmed' => applied = written /\ applied >= confirmed
      BY <1>1, <3>1, <3>2
    <3> QED
      BY <2>2, <3>1, <3>3 DEF LagInv, ClockInv
  <2> QED
    BY <1>7, <2>1, <2>2 DEF SlotEnds
<1>8. CASE TransmissionLost
  BY <1>8 DEF TransmissionLost, LagInv
<1>9. ASSUME NEW ack_heard \in BOOLEAN, Received(ack_heard) PROVE LagInv'
  BY <1>9 DEF Received, NewPacket, LagInv
<1>10. ASSUME NEW s \in Strangers, StrangerReceived(s) PROVE LagInv'
  BY <1>10 DEF StrangerReceived, NewPacket, LagInv
<1>11. CASE PrxTask
  <2>1. CASE EventNew
    BY <1>11, <2>1 DEF PrxTask, EventNew, LagInv, ClockInv
  <2>2. CASE EventDropped
    BY <1>11, <2>2 DEF PrxTask, EventDropped, LagInv
  <2> QED
    BY <1>11, <2>1, <2>2 DEF PrxTask
<1>12. CASE LinkLossTask
  BY <1>12 DEF LinkLossTask, LinkLossPoll, clear_right_keys, LagInv
<1>13. CASE Tick
  BY <1>13, LagTick
<1>14. CASE LeftResets
  BY <1>14 DEF LeftResets, LeftRestart, LagInv
<1>15. CASE RightDies
  BY <1>15 DEF RightDies, LagInv
<1>16. CASE UNCHANGED vars
  BY <1>16 DEF vars, LagInv
<1> QED
  BY <1>2, <1>3, <1>4, <1>5, <1>6, <1>7, <1>8, <1>9, <1>10, <1>11, <1>12, <1>13, <1>14,
     <1>15, <1>16 DEF Next

\* The clocks, the rest and the rows shown stay as WatchInv says.
LEMMA WatchInvariant ==
  ASSUME MaxSnapshots <= SeqCount, MaxMute + Keepalive + MaxMute <= Timeout
  PROVE  Spec => [](HeldInv /\ WatchInv)
<1>1. Init => HeldInv /\ WatchInv
  BY HeldInvInit, WatchInit
<1>2. LinkInv /\ (HeldInv /\ WatchInv) /\ [Next]_vars => (HeldInv /\ WatchInv)'
  <2> SUFFICES ASSUME LinkInv, HeldInv, WatchInv, [Next]_vars PROVE (HeldInv /\ WatchInv)'
    OBVIOUS
  <2>1. HeldInv'
    BY HeldInvNext
  <2>2. ClockInv' /\ RestInv' /\ SeenInv'
    BY ClockNext, RestNext, SeenNext DEF WatchInv
  <2>3. LagInv'
    BY <2>2, LagNext DEF WatchInv
  <2> QED
    BY <2>1, <2>2, <2>3 DEF WatchInv
<1> QED
  BY <1>1, <1>2, SplitLinkInvariant, PTL DEF Spec

\* With the lag bounded the watchdog finds no key held over a lost link.
LEMMA WatchQuiet ==
  ASSUME MaxMute + Keepalive + MaxMute <= Timeout
  PROVE  WatchInv => WatchdogQuiet
<1> SUFFICES ASSUME WatchInv, LinkLost, rpc # "off" PROVE lrows = {}
  BY DEF WatchdogQuiet
<1>1. last_seen # Never /\ last_seen > Timeout /\ last_seen \in Nat
  BY DEF LinkLost, WatchInv, ClockInv
<1> QED
  BY <1>1 DEF WatchInv, LagInv

\* The watchdog of link_loss_task releases no key of a right half that lives and
\* hears an ACK within MaxMute ticks, if its timeout covers the wait for an ACK,
\* the keepalive, and the wait for the next ACK.
THEOREM SplitWatchdogQuiet ==
  ASSUME MaxSnapshots <= SeqCount, MaxMute + Keepalive + MaxMute <= Timeout
  PROVE  Spec => []WatchdogQuiet
BY WatchInvariant, WatchQuiet, PTL

-----------------------------------------------------------------------------
(* A link at rest is in sync.                                              *)

\* A left half that has seen no frame since its reset shows no key, and after the
\* last snapshot it shows the rows of that one: the watchdog is quiet.
SyncInv ==
  /\ last_seen = Never => lrows = {}
  /\ last_seen # Never /\ applied = written /\ rpc # "off" => lrows = snap.payload.rows

\* A step that applies, clears and takes no rows
LEMMA SyncFrame ==
  ASSUME SyncInv, UNCHANGED <<last_seen, lrows, applied, written, snap>>,
         rpc' # "off" => rpc # "off"
  PROVE  SyncInv'
BY DEF SyncInv

\* prx_task: what is applied comes with its rows.
LEMMA SyncEvent ==
  ASSUME LinkInv, SeenInv, SyncInv, ClockInv, EventNew \/ EventDropped, UNCHANGED rightVars
  PROVE  SyncInv'
<1>1. LinkType /\ InOrder
  BY DEF LinkInv
<1>2. /\ events # <<>> /\ UNCHANGED <<written, snap, rpc>>
  BY DEF EventNew, EventDropped, PopEvent, rightVars
<1>3. Head(events) = events[1] /\ 1 \in 1 .. Len(events)
  BY <1>1, <1>2 DEF LinkType
<1>4. CASE EventDropped
  BY <1>2, <1>4, SyncFrame DEF EventDropped, rightView
<1>5. CASE EventNew
  <2> DEFINE e == events[1]
  <2>1. FromRight(e) /\ applied' = e.frame.payload.version
    BY <1>3, <1>5, EventKeeps
  <2>2. IsSnapshot(e.frame)
    BY <1>1, <1>3, <2>1 DEF InOrder, RightFrame, IsSnapshot
  <2>3. lrows' = e.frame.payload.rows /\ last_seen' = 0
    BY <1>3, <1>5, <2>2 DEF EventNew, NextEvent, SetRows
  <2>4. e.frame.payload.version = written => e.frame.payload.rows = snap.payload.rows
    BY <1>3, <2>1 DEF SeenInv
  <2>5. Never # 0
    BY LeftAssumption
  <2> QED
    BY <1>2, <2>1, <2>3, <2>4, <2>5 DEF SyncInv
<1> QED
  BY <1>4, <1>5

\* Every step keeps the halves in sync.
LEMMA SyncNext ==
  ASSUME LinkInv, ClockInv, SeenInv, WatchdogQuiet, SyncInv, [Next]_vars
  PROVE  SyncInv'
<1> USE DEF rightVars, leftVars, linkVars, sessionVars, rightView
<1> DEFINE Same == /\ UNCHANGED <<last_seen, lrows, applied, written, snap>>
                   /\ rpc' # "off" => rpc # "off"
<1>0. LinkType /\ InOrder
  BY DEF LinkInv
<1>1. ASSUME Same PROVE SyncInv'
  BY <1>1, SyncFrame
<1>2. CASE \/ \E rows \in SUBSET RightKeys : RightScan(rows)
           \/ RightRests \/ RightWakes \/ SlotRefused \/ SlotEnds \/ TransmissionLost \/ RightDies
  <2>1. UNCHANGED <<last_seen, lrows, applied, written, snap>>
    BY <1>2 DEF RightScan, ScanChange, RightRests, WaitForChange, RightWakes, ChangeSeen,
       KeepaliveFires, Supersede, SlotRefused, SendError, SlotEnds, SendAcked, SendMiss,
       TransmissionLost, RightDies
  <2>2. rpc' # "off" => rpc # "off"
    BY <1>2 DEF RightScan, ScanChange, RightRests, WaitForChange, RightWakes, ChangeSeen,
       KeepaliveFires, KeepaliveDue, Supersede, SlotRefused, SendError, SlotEnds, SendAcked,
       SendMiss, TransmissionLost, RightDies
  <2> QED
    BY <1>1, <2>1, <2>2
<1>3. CASE RightSends
  <2>1. CASE Retry
    <3>1. Same
      BY <1>3, <2>1 DEF RightSends, Retry
    <3> QED
      BY <1>1, <3>1
  <2>2. CASE TakeSnapshot
    <3>1. UNCHANGED <<last_seen, lrows, applied>> /\ written' = written + 1
      BY <1>3, <2>2 DEF RightSends, TakeSnapshot
    <3>2. applied' # written'
      BY <1>0, <3>1 DEF InOrder, LinkType
    <3> QED
      BY <3>1, <3>2 DEF SyncInv
  <2> QED
    BY <1>3, <2>1, <2>2 DEF RightSends
<1>4. ASSUME NEW ack_heard \in BOOLEAN, Received(ack_heard) PROVE SyncInv'
  <2>1. Same
    BY <1>4 DEF Received, NewPacket
  <2> QED
    BY <1>1, <2>1
<1>5. ASSUME NEW s \in Strangers, StrangerReceived(s) PROVE SyncInv'
  <2>1. Same
    BY <1>5 DEF StrangerReceived, NewPacket
  <2> QED
    BY <1>1, <2>1
<1>6. CASE PrxTask
  BY <1>6, SyncEvent DEF PrxTask
<1>7. CASE LinkLossTask
  <2>1. /\ UNCHANGED <<last_seen, applied, written, snap, rpc>>
        /\ lrows' = lrows \/ (LinkLost /\ lrows' = {})
    BY <1>7 DEF LinkLossTask, LinkLossPoll, clear_right_keys
  <2>2. LinkLost /\ rpc # "off" => lrows = {}
    BY DEF WatchdogQuiet
  <2> QED
    BY <2>1, <2>2 DEF SyncInv
<1>8. CASE Tick
  <2>1. /\ UNCHANGED <<lrows, applied, written, snap, rpc>>
        /\ last_seen' = IF last_seen > Timeout THEN last_seen ELSE last_seen + 1
    BY <1>8 DEF Tick, LeftTick
  <2>2. last_seen' = Never <=> last_seen = Never
    BY <2>1, LeftAssumption DEF ClockInv
  <2> QED
    BY <2>1, <2>2 DEF SyncInv
<1>9. CASE LeftResets
  <2>1. last_seen' = Never /\ lrows' = {}
    BY <1>9 DEF LeftResets, LeftRestart
  <2> QED
    BY <2>1 DEF SyncInv
<1>10. CASE UNCHANGED vars
  BY <1>1, <1>10 DEF vars
<1> QED
  BY <1>2, <1>3, <1>4, <1>5, <1>6, <1>7, <1>8, <1>9, <1>10 DEF Next

\* At rest the last snapshot is confirmed, so it has been queued and, the queue
\* being empty, applied: what the left half shows is what the matrix was then,
\* and a clean matrix has not changed since.
LEMMA RestIsInSync ==
  ASSUME LinkInv, HeldInv, RestInv, SeenInv, SyncInv
  PROVE  InSync
<1> SUFFICES ASSUME LinkRests PROVE lrows = mrows \/ (rpc = "hold" /\ last_seen = Never)
  BY DEF InSync
<1>1. LinkType /\ InOrder
  BY DEF LinkInv
<1>2. /\ rpc \in {"idle", "hold"} /\ ~mdirty /\ confirmed = written
      /\ mrows = IF written = 0 THEN {} ELSE snap.payload.rows
      /\ rpc = "idle" => mrows = {}
  BY DEF LinkRests, RestInv
<1>3. CASE last_seen = Never
  BY <1>2, <1>3 DEF SyncInv
<1>4. CASE last_seen # Never
  <2>1. applied = written
    <3>1. applied >= confirmed
      BY <1>4, CaughtUp DEF LinkRests
    <3> QED
      BY <1>1, <1>2, <3>1 DEF InOrder, LinkType
  <2>2. written > 0
    BY <1>4 DEF SeenInv
  <2> QED
    BY <1>2, <1>4, <2>1, <2>2 DEF SyncInv
<1> QED
  BY <1>3, <1>4

\* End to end: a link at rest shows the rows of the right half's matrix on the
\* left half, through lost packets and ACKs, retries, superseded snapshots, full
\* queues, foreign frames and resets of the left half, if the watchdog's timeout
\* covers the longest silence and no sequence number comes twice.
THEOREM SplitInSync ==
  ASSUME MaxSnapshots <= SeqCount, MaxMute + Keepalive + MaxMute <= Timeout
  PROVE  Spec => []InSync
<1>1. Init => SyncInv
  BY DEF Init, RightInit, LeftInit, SyncInv
<1>2. LinkInv /\ (HeldInv /\ WatchInv) /\ SyncInv /\ [Next]_vars => SyncInv'
  BY WatchQuiet, SyncNext DEF WatchInv
<1>3. LinkInv /\ (HeldInv /\ WatchInv) /\ SyncInv => InSync
  BY RestIsInSync DEF WatchInv
<1> QED
  BY <1>1, <1>2, <1>3, SplitLinkInvariant, WatchInvariant, PTL DEF Spec
=============================================================================
