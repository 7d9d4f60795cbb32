-------------------------- MODULE LeftCentralProofs --------------------------
(***************************************************************************)
(* Proofs about LeftCentral: once hid_task rests, the left half and its    *)
(* host hold no key that is up, for all sets of keys, queue lengths and    *)
(* interleavings of the tasks, the RADIO callback and the host; hid_task   *)
(* never blocks on undone work, and held right keys are watched.           *)
(***************************************************************************)
EXTENDS LeftCentral, SequenceTheorems, WellFoundedInduction, TLAPS

USE TransportAssumption, RightAssumption, LeftAssumption, LeftCentralAssumption

-----------------------------------------------------------------------------
(* Types                                                                   *)

Edge == [key : LeftKeys, pressed : BOOLEAN]

KeySets == [left : SUBSET LeftKeys, right : SUBSET RightKeys]

Extension ==
  {NoAck} \cup {encode_transport_ack(RIGHT_DEVICE_ID, q) : q \in InSequences}

\* Queued payloads come from the pipe of the right half.
Event == [pipe : {RIGHT_PIPE}, frame : Frames]

SessionType ==
  /\ events \in Seq(Event) /\ Len(events) <= EventCap
  /\ ack_ext \in [Pipes -> Extension]
  /\ applied = 0 /\ queued_top = 0

TaskType ==
  /\ tracker \in [Devices -> SeqNumber \cup {NoSeq}] /\ last_seen \in 0 .. Never
  /\ lrows \in SUBSET RightKeys /\ ldirty \in BOOLEAN /\ lchanged \in BOOLEAN
  /\ poll_due \in BOOLEAN

HidType ==
  /\ active \in KeySets /\ hpc \in {"wait", "top"} /\ hid_clear \in BOOLEAN
  /\ hid_events \in Seq(Edge) /\ Len(hid_events) <= HidCap
  /\ scanned \in SUBSET LeftKeys /\ edge_lost \in BOOLEAN

HostType ==
  /\ connected \in BOOLEAN /\ notify \in BOOLEAN /\ report_lost \in BOOLEAN
  /\ host \in KeySets

LeftType == SessionType /\ TaskType /\ HidType /\ HostType

-----------------------------------------------------------------------------
(* The queued edges                                                        *)

\* Some of the first n naturals have a greatest one.
LEMMA GreatestIndex ==
  ASSUME NEW n \in Nat, NEW S \in SUBSET (1 .. n), S # {}
  PROVE  \E i \in S : \A j \in S : j <= i
<1> DEFINE T == {n - i : i \in S}
<1>0. \A i \in S : i \in Int /\ n - i \in Nat
  OBVIOUS
<1>1. T \subseteq Nat /\ T # {}
  BY <1>0
<1>2. PICK x \in T : \A y \in T : ~(<<y, x>> \in OpToRel(<, Nat))
  <2> HIDE DEF T
  <2> QED
    BY <1>1, NatLessThanWellFounded, WFMin
<1>3. \A y \in T : ~(y < x)
  <2> TAKE y \in T
  <2>1. x \in Nat /\ y \in Nat
    BY <1>1
  <2> HIDE DEF T
  <2> QED
    BY <1>2, <2>1 DEF OpToRel
<1>4. PICK i \in S : x = n - i
  OBVIOUS
<1>5. ASSUME NEW j \in S
      PROVE  j <= i
  <2>1. n - j \in T
    OBVIOUS
  <2>2. ~(n - j < n - i)
    BY <1>3, <1>4, <2>1
  <2>3. n \in Int /\ i \in Int /\ j \in Int
    BY <1>0
  <2> HIDE DEF T
  <2> QED
    BY <2>2, <2>3
<1> QED
  BY <1>5

\* A key with an edge has a last one.
LEMMA LastEdgeExists ==
  ASSUME hid_events \in Seq(Edge), NEW i \in QueuedEdge
  PROVE  \E j \in QueuedEdge :
           hid_events[j].key = hid_events[i].key /\ LastOfKey(j)
<1> DEFINE S == {j \in QueuedEdge : hid_events[j].key = hid_events[i].key}
<1>1. Len(hid_events) \in Nat
  OBVIOUS
<1>2. S \in SUBSET (1 .. Len(hid_events)) /\ S # {}
  BY DEF QueuedEdge
<1>3. PICK j \in S : \A m \in S : m <= j
  <2> HIDE DEF S
  <2> QED
    BY <1>1, <1>2, GreatestIndex
<1>4. LastOfKey(j)
  BY <1>3 DEF LastOfKey
<1> QED
  BY <1>3, <1>4

\* The keys after the queued edges are keys of the left half.
LEMMA AfterEdgesType ==
  ASSUME NEW left
  PROVE  AfterEdges(left) \in SUBSET LeftKeys
BY DEF AfterEdges

\* No edges, no change.
LEMMA AfterNoEdges ==
  ASSUME NEW left \in SUBSET LeftKeys, hid_events = <<>>
  PROVE  AfterEdges(left) = left
BY DEF AfterEdges, QueuedEdge

\* Fewer keys before the edges give no other keys after them.
LEMMA AfterEdgesMonotonic ==
  ASSUME NEW left, NEW more, left \subseteq more
  PROVE  AfterEdges(left) \subseteq AfterEdges(more)
BY DEF AfterEdges

\* Edges of which none changes a key leave the keys as they are.
LEMMA AfterEdgesSame ==
  ASSUME NEW left \in SUBSET LeftKeys, hid_events \in Seq(Edge), ~EdgesChange(left)
  PROVE  AfterEdges(left) = left
<1>1. \A i \in QueuedEdge : hid_events[i].pressed = (hid_events[i].key \in left)
  <2> TAKE i \in QueuedEdge
  <2>1. hid_events[i] \in Edge
    BY DEF QueuedEdge
  <2> QED
    BY <2>1 DEF EdgesChange, Edge
<1>2. ASSUME NEW k \in LeftKeys, k \in AfterEdges(left)
      PROVE  k \in left
  BY <1>1, <1>2 DEF AfterEdges
<1>3. ASSUME NEW k \in left
      PROVE  k \in AfterEdges(left)
  <2>1. CASE \A i \in QueuedEdge : hid_events[i].key # k
    BY <2>1 DEF AfterEdges
  <2>2. CASE \E i \in QueuedEdge : hid_events[i].key = k
    <3>1. PICK i \in QueuedEdge : hid_events[i].key = k
      BY <2>2
    <3>2. PICK j \in QueuedEdge : hid_events[j].key = k /\ LastOfKey(j)
      BY <3>1, LastEdgeExists
    <3>3. hid_events[j].pressed
      BY <1>1, <1>3, <3>2
    <3> QED
      BY <1>3, <3>2, <3>3 DEF AfterEdges
  <2> QED
    BY <2>1, <2>2
<1> QED
  BY <1>2, <1>3 DEF AfterEdges

\* An edge appended is the last of its key: a press adds its key to the keys
\* after the edges, a release takes it from them.
LEMMA AfterEdgesAppend ==
  ASSUME hid_events \in Seq(Edge), NEW e \in Edge,
         hid_events' = Append(hid_events, e), NEW left \in SUBSET LeftKeys
  PROVE  AfterEdges(left)' \subseteq
           IF e.pressed THEN AfterEdges(left) \cup {e.key}
                        ELSE AfterEdges(left) \ {e.key}
<1> DEFINE n == Len(hid_events)
<1>1. n \in Nat /\ Len(hid_events') = n + 1
  OBVIOUS
<1>2. \A i \in 1 .. n : hid_events'[i] = hid_events[i]
  OBVIOUS
<1>3. hid_events'[n + 1] = e
  OBVIOUS
<1>4. QueuedEdge = 1 .. n /\ QueuedEdge' = 1 .. n + 1
  BY <1>1 DEF QueuedEdge
<1>5. ASSUME NEW k \in AfterEdges(left)', k # e.key
      PROVE  k \in AfterEdges(left)
  <2>1. CASE k \in left /\ \A i \in QueuedEdge' : hid_events'[i].key # k
    BY <1>1, <1>2, <1>4, <2>1 DEF AfterEdges
  <2>2. CASE \E i \in QueuedEdge' :
               hid_events'[i].key = k /\ LastOfKey(i)' /\ hid_events'[i].pressed
    <3>1. PICK i \in 1 .. n + 1 :
            hid_events'[i].key = k /\ LastOfKey(i)' /\ hid_events'[i].pressed
      BY <1>4, <2>2
    <3>2. i \in 1 .. n
      BY <1>1, <1>3, <1>5, <3>1
    <3>3. LastOfKey(i)
      BY <1>1, <1>2, <1>4, <3>1, <3>2 DEF LastOfKey
    <3> QED
      BY <1>2, <1>4, <1>5, <3>1, <3>2, <3>3 DEF AfterEdges
  <2> QED
    BY <1>5, <2>1, <2>2 DEF AfterEdges
<1>6. ASSUME e.key \in AfterEdges(left)'
      PROVE  e.pressed
  <2>1. n + 1 \in QueuedEdge' /\ hid_events'[n + 1].key = e.key
    BY <1>1, <1>3, <1>4
  <2>2. PICK i \in QueuedEdge' :
          hid_events'[i].key = e.key /\ LastOfKey(i)' /\ hid_events'[i].pressed
    BY <1>6, <2>1 DEF AfterEdges
  <2>3. i = n + 1
    BY <1>1, <1>4, <2>1, <2>2 DEF LastOfKey
  <2> QED
    BY <1>3, <2>2, <2>3
<1> QED
  BY <1>5, <1>6

-----------------------------------------------------------------------------
(* The invariant: at every step, not only when hid_task rests.  What       *)
(* hid_task holds is up to date once the queued edges and the rows it was  *)
(* told of are counted in, and the host's keys are among hid_task's.       *)

LeftKeysKnown == edge_lost \/ AfterEdges(active.left) \subseteq scanned

RightKeysKnown == ldirty \/ active.right \subseteq lrows

HostKnows ==
  /\ notify => connected
  /\ ~notify => host = NoKeys
  /\ notify /\ ~report_lost =>
       host.left \subseteq active.left /\ host.right \subseteq active.right

IInv == LeftType /\ LeftKeysKnown /\ RightKeysKnown /\ HostKnows

\* Without a step of the keys, what is known of them stays known.
LEMMA LeftKeysFrame ==
  ASSUME LeftKeysKnown, UNCHANGED <<active, hid_events, scanned, edge_lost>>
  PROVE  LeftKeysKnown'
BY DEF LeftKeysKnown, AfterEdges, QueuedEdge, LastOfKey

LEMMA HostFrame ==
  ASSUME HostKnows, UNCHANGED <<connected, notify, host, report_lost, active>>
  PROVE  HostKnows'
BY DEF HostKnows

\* The fields of a frame of the right half that prx_task looks at.
LEMMA FrameFields ==
  ASSUME NEW f \in Frames
  PROVE  /\ f.device = RIGHT_DEVICE_ID
         /\ f.sequence \in InSequences
         /\ f.payload.rows \in SUBSET RightKeys
         /\ f.payload.version = 0
BY DEF Frames, encode_frame, Snapshot

THEOREM InitIInv == Init => IInv
<1> SUFFICES ASSUME Init
             PROVE  IInv
  OBVIOUS
<1> USE DEF Init, LeftInit
<1>1. SessionType
  BY DEF SessionType, Extension
<1>2. TaskType
  <2>1. EmptyTracker \in [Devices -> SeqNumber \cup {NoSeq}]
    BY DEF EmptyTracker
  <2>2. Never \in 0 .. Never
    OBVIOUS
  <2> QED
    BY <2>1, <2>2 DEF TaskType
<1>3. HidType
  <2>1. NoKeys \in KeySets
    BY DEF KeySets, NoKeys
  <2>2. <<>> \in Seq(Edge) /\ Len(<<>>) <= HidCap
    OBVIOUS
  <2> QED
    BY <2>1, <2>2 DEF HidType
<1>4. HostType
  BY DEF HostType, KeySets, NoKeys
<1>5. LeftKeysKnown
  <2>1. AfterEdges(active.left) = {}
    BY AfterNoEdges DEF NoKeys
  <2> QED
    BY <2>1 DEF LeftKeysKnown
<1>6. RightKeysKnown
  BY DEF RightKeysKnown, NoKeys
<1>7. HostKnows
  BY DEF HostKnows
<1> QED
  BY <1>1, <1>2, <1>3, <1>4, <1>5, <1>6, <1>7 DEF IInv, LeftType

-----------------------------------------------------------------------------
(* What hid_task does between two awaits                                   *)

\* The keys an iteration leaves come from the queued edges and from the rows,
\* or stay; a report is made whenever they may have changed, so the host is
\* told of them or the report is lost.
LEMMA DeliverKnows ==
  ASSUME IInv,
         NEW left \in SUBSET LeftKeys, NEW right \in SUBSET RightKeys,
         NEW changed \in BOOLEAN,
         left \subseteq active.left, ldirty \/ right \subseteq lrows,
         changed \/ (left = active.left /\ right = active.right),
         Deliver(left, right, changed),
         UNCHANGED <<lrows, scanned, edge_lost, connected, notify>>
  PROVE  /\ active' \in KeySets /\ hpc' = "top" /\ hid_events' = <<>> /\ ldirty' = FALSE
         /\ host' \in KeySets /\ report_lost' \in BOOLEAN
         /\ LeftKeysKnown' /\ RightKeysKnown' /\ HostKnows'
<1> DEFINE keys == [left |-> AfterEdges(left),
                    right |-> IF ldirty THEN apply_right_snapshot ELSE right]
           report == changed \/ ldirty \/ EdgesChange(left)
<1>1. LeftType
  BY DEF IInv
<1>2. /\ active' = keys /\ hpc' = "top" /\ hid_events' = <<>> /\ ldirty' = FALSE
      /\ IF report THEN notify_hid(keys) ELSE UNCHANGED <<host, report_lost>>
  BY DEF Deliver
<1>3. keys \in KeySets
  BY <1>1, AfterEdgesType DEF LeftType, TaskType, KeySets, apply_right_snapshot
<1>4. host' \in KeySets /\ report_lost' \in BOOLEAN
  BY <1>1, <1>2, <1>3 DEF LeftType, HostType, notify_hid
<1>5. LeftKeysKnown'
  <2>1. AfterEdges(left) \subseteq AfterEdges(active.left)
    BY AfterEdgesMonotonic
  <2>2. edge_lost \/ active'.left \subseteq scanned
    BY <1>2, <2>1 DEF IInv, LeftKeysKnown
  <2>3. active'.left \in SUBSET LeftKeys
    BY <1>2, <1>3 DEF KeySets
  <2>4. AfterEdges(active.left)' = active'.left
    BY <1>2, <2>3 DEF AfterEdges, QueuedEdge
  <2> QED
    BY <2>2, <2>4 DEF LeftKeysKnown
<1>6. RightKeysKnown'
  BY <1>1, <1>2 DEF RightKeysKnown, apply_right_snapshot, LeftType, TaskType
<1>7. HostKnows'
  <2>1. CASE ~(notify /\ connected)
    BY <1>2, <2>1 DEF IInv, HostKnows, notify_hid
  <2>2. CASE notify /\ connected /\ report
    BY <1>2, <2>2 DEF HostKnows, notify_hid
  <2>3. CASE notify /\ connected /\ ~report
    <3>1. left = active.left /\ right = active.right /\ ~ldirty /\ ~EdgesChange(left)
      BY <2>3
    <3>2. AfterEdges(left) = left
      BY <1>1, <3>1, AfterEdgesSame DEF LeftType, HidType
    <3>3. active'.left = active.left /\ active'.right = active.right
      BY <1>2, <3>1, <3>2
    <3>4. UNCHANGED <<host, report_lost>>
      BY <1>2, <2>3
    <3> QED
      BY <2>3, <3>3, <3>4 DEF IInv, HostKnows
  <2> QED
    BY <2>1, <2>2, <2>3
<1> QED
  BY <1>2, <1>3, <1>4, <1>5, <1>6, <1>7

\* Every iteration of hid_task's loop keeps the invariant.
LEMMA HidTaskIInv ==
  ASSUME IInv, HidTask
  PROVE  IInv'
<1>1. LeftType
  BY DEF IInv
<1> USE DEF sessionVars, rightView, hidVars, bleVars
<1>2. active.left \in SUBSET LeftKeys /\ active.right \in SUBSET RightKeys
  BY <1>1 DEF LeftType, HidType, KeySets
<1>3. ldirty \/ active.right \subseteq lrows
  BY DEF IInv, RightKeysKnown
<1>4. ASSUME UNCHANGED <<sessionVars, tracker, last_seen, lrows, scanned,
                         edge_lost, connected, notify, poll_due, applied, queued_top>>,
             lchanged' \in BOOLEAN, hid_clear' \in BOOLEAN,
             active' \in KeySets, hpc' = "top", hid_events' = <<>>, ldirty' = FALSE,
             host' \in KeySets, report_lost' \in BOOLEAN
      PROVE  LeftType'
  <2>1. SessionType'
    BY <1>1, <1>4 DEF LeftType, SessionType
  <2>2. TaskType'
    BY <1>1, <1>4 DEF LeftType, TaskType
  <2>3. HidType'
    BY <1>1, <1>4 DEF LeftType, HidType
  <2>4. HostType'
    BY <1>1, <1>4 DEF LeftType, HostType
  <2> QED
    BY <2>1, <2>2, <2>3, <2>4 DEF LeftType
<1>5. CASE HidTopClear
  <2>1. Deliver({}, {}, TRUE)
    BY <1>5 DEF HidTopClear
  <2>2. UNCHANGED <<sessionVars, tracker, last_seen, lrows, lchanged, scanned,
                    edge_lost, connected, notify, poll_due, applied, queued_top>>
        /\ hid_clear' = FALSE
    BY <1>5 DEF HidTopClear
  <2>3. lchanged' \in BOOLEAN /\ hid_clear' \in BOOLEAN
    BY <1>1, <2>2 DEF LeftType, TaskType
  <2> QED
    BY <1>4, <2>1, <2>2, <2>3, DeliverKnows DEF IInv
<1>6. CASE HidTopDirty
  <2>1. Deliver(active.left, active.right, TRUE)
    BY <1>6 DEF HidTopDirty
  <2>2. UNCHANGED <<sessionVars, tracker, last_seen, lrows, lchanged, hid_clear,
                    scanned, edge_lost, connected, notify, poll_due, applied, queued_top>>
    BY <1>6 DEF HidTopDirty
  <2>3. lchanged' \in BOOLEAN /\ hid_clear' \in BOOLEAN
    BY <1>1, <2>2 DEF LeftType, TaskType, HidType
  <2> QED
    BY <1>2, <1>3, <1>4, <2>1, <2>2, <2>3, DeliverKnows DEF IInv
<1>7. CASE HidTopWait
  <2>1. LeftType'
    BY <1>1, <1>7 DEF HidTopWait, LeftType, SessionType, TaskType, HidType, HostType
  <2>2. LeftKeysKnown'
    BY <1>7, LeftKeysFrame DEF HidTopWait, IInv
  <2>3. RightKeysKnown' /\ HostKnows'
    BY <1>7, HostFrame DEF HidTopWait, IInv, RightKeysKnown
  <2> QED
    BY <2>1, <2>2, <2>3 DEF IInv
<1>8. CASE HidWake
  <2>1. Deliver(active.left, active.right, FALSE)
    BY <1>8 DEF HidWake
  <2>2. UNCHANGED <<sessionVars, tracker, last_seen, lrows, hid_clear, scanned,
                    edge_lost, connected, notify, poll_due, applied, queued_top>>
        /\ lchanged' = FALSE
    BY <1>8 DEF HidWake
  <2>3. lchanged' \in BOOLEAN /\ hid_clear' \in BOOLEAN
    BY <1>1, <2>2 DEF LeftType, HidType
  <2> QED
    BY <1>2, <1>3, <1>4, <2>1, <2>2, <2>3, DeliverKnows DEF IInv
<1> QED
  BY <1>5, <1>6, <1>7, <1>8 DEF HidTask

-----------------------------------------------------------------------------
(* The other steps                                                         *)

LEMMA ArrivalIInv ==
  ASSUME IInv, NEW f \in Frames, FrameArrives(f)
  PROVE  IInv'
<1> USE DEF FrameArrives, NewPacket, rightView, hidVars, bleVars
<1>1. LeftType
  BY DEF IInv
<1>2. SessionType'
  <2>1. events' \in Seq(Event) /\ Len(events') <= EventCap
    <3> DEFINE e == [pipe |-> RIGHT_PIPE, frame |-> f]
    <3>1. events \in Seq(Event) /\ Len(events) <= EventCap
      BY <1>1 DEF LeftType, SessionType
    <3>2. e \in Event
      BY DEF Event
    <3>3. events' = IF CanPush THEN Append(events, e) ELSE events
      OBVIOUS
    <3> HIDE DEF e
    <3> QED
      BY <3>1, <3>2, <3>3 DEF CanPush
  <2>2. ack_ext' \in [Pipes -> Extension]
    <3>1. right_transport_ack_extension(RIGHT_PIPE, f, CanPush) \in Extension
      BY FrameFields DEF right_transport_ack_extension, Extension
    <3> QED
      BY <1>1, <3>1 DEF LeftType, SessionType
  <2>3. applied' = 0 /\ queued_top' = 0
    BY <1>1, FrameFields DEF LeftType, SessionType
  <2> QED
    BY <2>1, <2>2, <2>3 DEF SessionType
<1>3. TaskType' /\ HidType' /\ HostType'
  BY <1>1 DEF LeftType, TaskType, HidType, HostType
<1>4. LeftKeysKnown' /\ RightKeysKnown' /\ HostKnows'
  BY LeftKeysFrame, HostFrame DEF IInv, RightKeysKnown
<1> QED
  BY <1>2, <1>3, <1>4 DEF IInv, LeftType

LEMMA PrxTaskIInv ==
  ASSUME IInv, PrxTask
  PROVE  IInv'
<1> USE DEF PrxTask, EventNew, EventDropped, PopEvent, NextEvent, hidVars, bleVars
<1>1. LeftType
  BY DEF IInv
<1>2. events \in Seq(Event) /\ events # <<>>
  BY <1>1 DEF LeftType, SessionType
<1>3. Head(events).frame \in Frames /\ events' = Tail(events)
  <2>1. Head(events) \in Event
    BY <1>2
  <2> QED
    BY <2>1 DEF Event
<1>4. events' \in Seq(Event) /\ Len(events') <= EventCap
  BY <1>1, <1>2, <1>3 DEF LeftType, SessionType
<1>5. HidType' /\ HostType'
  BY <1>1 DEF LeftType, HidType, HostType
<1>6. LeftKeysKnown' /\ HostKnows'
  BY LeftKeysFrame, HostFrame DEF IInv
<1>7. CASE EventNew
  <2> DEFINE f == Head(events).frame
  <2>1. f \in Frames
    BY <1>3
  <2>2. /\ tracker' = Track(tracker, f.device, f.sequence)
        /\ last_seen' = 0
        /\ IF IsSnapshot(f)
           THEN SetRows(f.payload.rows) /\ applied' = f.payload.version
           ELSE UNCHANGED <<rightView, applied>>
        /\ UNCHANGED <<ack_ext, poll_due, queued_top>>
    BY <1>7
  <2> HIDE DEF f
  <2>3. SessionType'
    BY <1>1, <1>4, <2>1, <2>2, FrameFields DEF LeftType, SessionType
  <2>4. tracker' \in [Devices -> SeqNumber \cup {NoSeq}]
    BY <1>1, <2>1, <2>2, FrameFields DEF LeftType, TaskType, Track
  <2>5. lrows' \in SUBSET RightKeys /\ ldirty' \in BOOLEAN /\ lchanged' \in BOOLEAN
    BY <1>1, <2>1, <2>2, FrameFields DEF LeftType, TaskType, SetRows, rightView
  <2>6. TaskType'
    BY <1>1, <2>2, <2>4, <2>5 DEF LeftType, TaskType
  <2>7. RightKeysKnown'
    BY <1>7, <2>2 DEF IInv, RightKeysKnown, SetRows, rightView
  <2> QED
    BY <1>5, <1>6, <2>3, <2>6, <2>7 DEF IInv, LeftType
<1>8. CASE EventDropped
  <2>1. SessionType' /\ TaskType' /\ RightKeysKnown'
    BY <1>1, <1>4, <1>8 DEF LeftType, SessionType, TaskType, IInv, RightKeysKnown, rightView
  <2> QED
    BY <1>5, <1>6, <2>1 DEF IInv, LeftType
<1> QED
  BY <1>7, <1>8

LEMMA LinkLossIInv ==
  ASSUME IInv, LinkLossTask
  PROVE  IInv'
<1> USE DEF LinkLossTask, LinkLossPoll, sessionVars, rightView, hidVars, bleVars
<1>1. SessionType' /\ HidType' /\ HostType'
  BY DEF IInv, LeftType, SessionType, HidType, HostType
<1>2. TaskType' /\ RightKeysKnown'
  BY DEF IInv, LeftType, TaskType, RightKeysKnown, clear_right_keys
<1>3. LeftKeysKnown' /\ HostKnows'
  BY LeftKeysFrame, HostFrame DEF IInv
<1> QED
  BY <1>1, <1>2, <1>3 DEF IInv, LeftType

\* matrix_scan_task: an edge is queued as the scan has seen it, or is lost.
LEMMA LeftScanIInv ==
  ASSUME IInv, NEW k \in LeftKeys, LeftScan(k)
  PROVE  IInv'
<1> USE DEF LeftScan, LeftEdge, sessionVars, rightView, bleVars
<1>1. LeftType
  BY DEF IInv
<1>2. SessionType' /\ TaskType' /\ HostType' /\ RightKeysKnown' /\ HostKnows'
  BY <1>1, HostFrame DEF LeftType, SessionType, TaskType, HostType, IInv, RightKeysKnown
<1>3. scanned' \in SUBSET LeftKeys /\ UNCHANGED <<active, hpc, hid_clear>>
  BY <1>1 DEF LeftType, HidType
<1>4. CASE Len(hid_events) < HidCap
  <2>1. PICK e \in Edge : e = [key |-> k, pressed |-> k \notin scanned]
    <3>1. (k \notin scanned) \in BOOLEAN
      OBVIOUS
    <3> QED
      BY <3>1 DEF Edge
  <2>2. /\ hid_events' = Append(hid_events, e) /\ UNCHANGED edge_lost
        /\ e.key = k /\ (e.pressed <=> k \notin scanned)
    BY <1>4, <2>1
  <2>3. hid_events \in Seq(Edge)
    BY <1>1 DEF LeftType, HidType
  <2>4. hid_events' \in Seq(Edge) /\ Len(hid_events') <= HidCap
    BY <1>4, <2>2, <2>3
  <2>5. HidType'
    BY <1>1, <1>3, <2>2, <2>4 DEF LeftType, HidType
  <2>6. AfterEdges(active.left)' \subseteq
          IF e.pressed THEN AfterEdges(active.left) \cup {e.key}
                       ELSE AfterEdges(active.left) \ {e.key}
    <3>1. PICK left \in SUBSET LeftKeys : left = active.left
      BY <1>1 DEF LeftType, HidType, KeySets
    <3>2. AfterEdges(left)' \subseteq
            IF e.pressed THEN AfterEdges(left) \cup {e.key}
                         ELSE AfterEdges(left) \ {e.key}
      BY <2>2, <2>3, AfterEdgesAppend
    <3>3. AfterEdges(active.left)' = AfterEdges(left)'
      BY <1>3, <3>1 DEF AfterEdges
    <3> QED
      BY <3>1, <3>2, <3>3
  <2>7. LeftKeysKnown'
    BY <2>2, <2>6 DEF IInv, LeftKeysKnown
  <2> QED
    BY <1>2, <2>5, <2>7 DEF IInv, LeftType
<1>5. CASE ~(Len(hid_events) < HidCap)
  <2>1. HidType' /\ LeftKeysKnown'
    BY <1>1, <1>3, <1>5 DEF LeftType, HidType, LeftKeysKnown
  <2> QED
    BY <1>2, <2>1 DEF IInv, LeftType
<1> QED
  BY <1>4, <1>5

LEMMA HostIInv ==
  ASSUME IInv, Host
  PROVE  IInv'
<1> USE DEF Host, BleConnect, CccdWrite, BleDisconnect, request_hid_clear,
            clear_right_keys, sessionVars, rightView, hidVars, bleVars
<1>1. LeftType
  BY DEF IInv
<1>2. SessionType' /\ TaskType' /\ HidType'
  BY <1>1 DEF LeftType, SessionType, TaskType, HidType
<1>3. HostType'
  <2>1. NoKeys \in KeySets
    BY DEF NoKeys, KeySets
  <2>2. host' \in KeySets
    BY <1>1, <2>1 DEF LeftType, HostType
  <2>3. connected' \in BOOLEAN /\ report_lost' \in BOOLEAN
    BY <1>1 DEF LeftType, HostType
  <2>4. notify' \in BOOLEAN
    BY <1>1 DEF LeftType, HostType
  <2> QED
    BY <2>2, <2>3, <2>4 DEF HostType
<1>4. LeftKeysKnown'
  BY LeftKeysFrame DEF IInv
<1>5. RightKeysKnown'
  BY DEF IInv, RightKeysKnown
<1>6. HostKnows'
  BY <1>1 DEF IInv, HostKnows, NoKeys, LeftType, HostType
<1> QED
  BY <1>2, <1>3, <1>4, <1>5, <1>6 DEF IInv, LeftType

LEMMA TickIInv ==
  ASSUME IInv, Tick
  PROVE  IInv'
<1> USE DEF Tick, LeftTick, sessionVars, rightView, hidVars, bleVars
<1>1. LeftType
  BY DEF IInv
<1>2. SessionType' /\ HidType' /\ HostType'
  BY <1>1 DEF LeftType, SessionType, HidType, HostType
<1>4. TaskType'
  <2>1. last_seen \in 0 .. Never /\ last_seen' \in 0 .. Never
    <3>1. last_seen \in 0 .. Never /\ Timeout \in Nat /\ Never = Timeout + 2
      BY <1>1 DEF LeftType, TaskType
    <3>2. last_seen' = IF last_seen > Timeout THEN last_seen ELSE last_seen + 1
      OBVIOUS
    <3> QED
      BY <3>1, <3>2
  <2> QED
    BY <1>1, <2>1 DEF LeftType, TaskType
<1>3. LeftKeysKnown' /\ RightKeysKnown' /\ HostKnows'
  BY LeftKeysFrame, HostFrame DEF IInv, RightKeysKnown
<1> QED
  BY <1>2, <1>3, <1>4 DEF IInv, LeftType

THEOREM NextIInv == IInv /\ [Next]_vars => IInv'
<1> SUFFICES ASSUME IInv, [Next]_vars
             PROVE  IInv'
  OBVIOUS
<1>1. CASE UNCHANGED vars
  <2> USE <1>1 DEF vars, leftVars, sessionVars, rightView, hidVars, bleVars
  <2>1. LeftType'
    BY DEF IInv, LeftType, SessionType, TaskType, HidType, HostType
  <2>2. LeftKeysKnown' /\ RightKeysKnown' /\ HostKnows'
    BY LeftKeysFrame, HostFrame DEF IInv, RightKeysKnown
  <2> QED
    BY <2>1, <2>2 DEF IInv
<1>2. CASE Next
  BY <1>2, ArrivalIInv, PrxTaskIInv, LinkLossIInv, HidTaskIInv, LeftScanIInv,
     HostIInv, TickIInv DEF Next, Hid
<1> QED
  BY <1>1, <1>2

-----------------------------------------------------------------------------
(* The theorems                                                            *)

LEMMA LeftInvariant == Spec => []IInv
BY InitIInv, NextIInv, PTL DEF Spec

\* Every variable of the left half keeps its type: the event queue and the
\* edges stay within their capacity, the flags are flags, and what the host is
\* told is a set of keys.
THEOREM LeftCentralTypeCorrect == Spec => []LeftType
<1>1. IInv => LeftType
  BY DEF IInv
<1> QED
  BY <1>1, LeftInvariant, PTL

\* Whenever hid_task rests, no key that is up is held.
THEOREM LeftNoStuckKey == Spec => []NoStuckKey
<1>1. IInv => NoStuckKey
  <2> SUFFICES ASSUME IInv, HidQuiet
               PROVE  /\ active.right \subseteq lrows
                      /\ edge_lost \/ active.left \subseteq scanned
    BY DEF NoStuckKey
  <2>1. hid_events = <<>> /\ ~ldirty
    BY DEF HidQuiet
  <2>2. active.left \in SUBSET LeftKeys
    BY DEF IInv, LeftType, HidType, KeySets
  <2>3. AfterEdges(active.left) = active.left
    BY <2>1, <2>2 DEF AfterEdges, QueuedEdge
  <2> QED
    BY <2>1, <2>3 DEF IInv, LeftKeysKnown, RightKeysKnown
<1> QED
  BY <1>1, LeftInvariant, PTL

\* Whenever hid_task rests, a subscribed host that got the last report holds no
\* key that hid_task does not.
THEOREM LeftHostReleased == Spec => []HostReleased
<1>1. IInv => HostReleased
  BY DEF IInv, HostKnows, HostReleased
<1> QED
  BY <1>1, LeftInvariant, PTL

-----------------------------------------------------------------------------
(* What the liveness of the left half rests on                             *)

\* hid_task's select blocks: nothing it listens to is there.
SelectBlocks == hpc = "wait" /\ ~lchanged /\ hid_events = <<>>

\* hid_task never blocks on work it has not done: the flags it looks at only at
\* the top of its loop, RIGHT_DIRTY and HID_CLEAR_REQUESTED, are never set
\* without the RIGHT_CHANGED that its select returns on.
NoLostWakeup == SelectBlocks => HidQuiet

\* Right keys are held only under the eyes of the watchdog: the time of the last
\* frame is set, so link_loss_task will find it too old if the link is gone.
HeldIsWatched == lrows # {} => last_seen # Never

WakeInv == hpc = "wait" /\ (ldirty \/ hid_clear) => lchanged

\* A step that sets no flag and does not take RIGHT_CHANGED.
LEMMA WakeFrame ==
  ASSUME WakeInv, UNCHANGED <<hpc, rightView, hid_clear>>
  PROVE  WakeInv'
BY DEF WakeInv, rightView

\* hid_task takes RIGHT_CHANGED only on its way to the top of the loop, where it
\* looks at both flags, and leaves it only when both are clear.
LEMMA HidWakes ==
  ASSUME HidTask
  PROVE  hpc' = "top" \/ ~(ldirty' \/ hid_clear')
BY DEF HidTask, HidTopClear, HidTopDirty, HidTopWait, HidWake, Deliver, rightView

\* Whoever changes the rows or asks for a clear signals it.
LEMMA WakeStep == IInv /\ WakeInv /\ [Next]_vars => WakeInv'
<1> SUFFICES ASSUME IInv, WakeInv, [Next]_vars
             PROVE  WakeInv'
  OBVIOUS
<1>0. ldirty \in BOOLEAN /\ lchanged \in BOOLEAN
  BY DEF IInv, LeftType, TaskType
<1>1. CASE UNCHANGED vars
  BY <1>1, WakeFrame DEF vars, leftVars, hidVars
<1>2. CASE \E f \in Frames : FrameArrives(f)
  BY <1>2, WakeFrame DEF FrameArrives, NewPacket, hidVars
<1>3. CASE PrxTask
  <2>1. UNCHANGED <<hpc, hid_clear>>
    BY <1>3 DEF PrxTask, EventNew, EventDropped, hidVars
  <2>2. UNCHANGED rightView \/ \E rows : SetRows(rows)
    BY <1>3 DEF PrxTask, EventNew, EventDropped
  <2> QED
    BY <1>0, <2>1, <2>2, WakeFrame DEF WakeInv, SetRows
<1>4. CASE LinkLossTask
  <2>1. UNCHANGED <<hpc, hid_clear>> /\ (UNCHANGED rightView \/ clear_right_keys)
    BY <1>4 DEF LinkLossTask, LinkLossPoll, hidVars
  <2> QED
    BY <2>1, WakeFrame DEF WakeInv, clear_right_keys
<1>5. CASE Hid
  BY <1>5, HidWakes DEF Hid, WakeInv
<1>6. CASE \E k \in LeftKeys : LeftScan(k)
  <2>1. UNCHANGED <<hpc, rightView, hid_clear>>
    BY <1>6 DEF LeftScan, LeftEdge
  <2> QED
    BY <2>1, WakeFrame
<1>7. CASE Host
  <2>1. CASE BleConnect \/ CccdWrite
    BY <2>1, WakeFrame DEF BleConnect, CccdWrite, hidVars
  <2>2. CASE BleDisconnect
    BY <2>2 DEF BleDisconnect, clear_right_keys, WakeInv
  <2> QED
    BY <1>7, <2>1, <2>2 DEF Host
<1>8. CASE Tick
  BY <1>8, WakeFrame DEF Tick, LeftTick, hidVars
<1> QED
  BY <1>1, <1>2, <1>3, <1>4, <1>5, <1>6, <1>7, <1>8 DEF Next

\* No wake-up of hid_task is lost, so that what it is told reaches the report
\* and the host (ChangesReachHid).
THEOREM LeftNoLostWakeup == Spec => []NoLostWakeup
<1>1. Init => WakeInv
  BY DEF Init, LeftInit, WakeInv
<1>2. IInv /\ WakeInv => NoLostWakeup
  BY DEF IInv, LeftType, TaskType, HidType, WakeInv, NoLostWakeup, SelectBlocks, HidQuiet
<1> QED
  BY <1>1, <1>2, WakeStep, LeftInvariant, PTL DEF Spec

\* Only an accepted frame brings rows, and it sets the time of the last frame;
\* time counts on to the first tick that is too late and stays there.
THEOREM LeftHeldIsWatched == Spec => []HeldIsWatched
<1>1. Init => HeldIsWatched
  BY DEF Init, LeftInit, HeldIsWatched
<1>2. IInv /\ HeldIsWatched /\ [Next]_vars => HeldIsWatched'
  <2> SUFFICES ASSUME IInv, HeldIsWatched, [Next]_vars
               PROVE  HeldIsWatched'
    OBVIOUS
  <2>1. CASE UNCHANGED <<lrows, last_seen>>
    BY <2>1 DEF HeldIsWatched
  <2>2. CASE UNCHANGED vars
    BY <2>1, <2>2 DEF vars, leftVars, rightView
  <2>3. CASE \E f \in Frames : FrameArrives(f)
    BY <2>1, <2>3 DEF FrameArrives, NewPacket, rightView
  <2>4. CASE PrxTask
    BY <2>4 DEF PrxTask, EventNew, EventDropped, rightView, HeldIsWatched
  <2>5. CASE LinkLossTask
    BY <2>5 DEF LinkLossTask, LinkLossPoll, clear_right_keys, rightView, HeldIsWatched
  <2>6. CASE Hid
    BY <2>1, <2>6 DEF Hid, HidTask, HidTopClear, HidTopDirty, HidTopWait, HidWake,
       rightView
  <2>7. CASE \E k \in LeftKeys : LeftScan(k)
    BY <2>1, <2>7 DEF LeftScan, LeftEdge, rightView
  <2>8. CASE Host
    BY <2>8 DEF Host, BleConnect, CccdWrite, BleDisconnect, clear_right_keys, rightView,
       HeldIsWatched
  <2>9. CASE Tick
    <3>1. /\ last_seen \in 0 .. Never /\ UNCHANGED lrows
          /\ last_seen' = IF last_seen > Timeout THEN last_seen ELSE last_seen + 1
      BY <2>9 DEF Tick, LeftTick, rightView, IInv, LeftType, TaskType
    <3> QED
      BY <3>1 DEF HeldIsWatched
  <2> QED
    BY <2>2, <2>3, <2>4, <2>5, <2>6, <2>7, <2>8, <2>9 DEF Next
<1> QED
  BY <1>1, <1>2, LeftInvariant, PTL DEF Spec
=============================================================================
