------------------------------ MODULE SplitLink ------------------------------
(***************************************************************************)
(* The two halves of the Elytra keyboard and the radio between them: the   *)
(* event session of the right half sends the frame in a timeslot, up to    *)
(* MaxTries times, and the PRX session of the left half answers in the     *)
(* RADIO callback (src/src/mpsl_timeslot.rs, lines 2449 to 2623).          *)
(*                                                                         *)
(* A transmission meets an open receive window of the left half or it does *)
(* not, and an ACK is heard or not.  Every send builds another packet (the *)
(* counter in front of the frame is advanced), so the PRX takes repeats    *)
(* within one slot for duplicates and the next slot's packet for a new     *)
(* one.  Other keyboards may send on the same addresses.                   *)
(***************************************************************************)
EXTENDS LeftHalf

CONSTANTS
  MaxTries,        \* bound: transmissions in one slot
  MaxMute,         \* ticks the right half may wait for an ACK; 0: no time
  Strangers,       \* frames of other keyboards: records [pipe, frame]
  MaxStrangers,    \* bound: how many of them arrive
  Faults           \* subset of {"left", "off"}: a reset, a battery that runs out

ASSUME SplitAssumption ==
  /\ MaxTries \in Nat \ {0}
  /\ MaxMute \in Nat
  /\ MaxStrangers \in Nat
  /\ \A s \in Strangers :
       s.pipe \in Pipes /\ (s.pipe # RIGHT_PIPE \/ s.frame.device # RIGHT_DEVICE_ID)
  /\ Faults \subseteq {"left", "off"}

VARIABLES
  \* the slot of the right half: transmissions left, the ACK extension heard
  \* or Silence, and whether the PRX's duplicate state is that of this packet
  tries, heard, seen,
  \* ticks since the right half last had its snapshot confirmed or rested
  mute,
  \* frames of other keyboards received, snapshot lost in a crash (history)
  strangers, lost

linkVars == <<tries, heard, seen, mute, strangers, lost>>
vars == <<rightVars, leftVars, linkVars>>

Silence == [size |-> 0, magic |-> TRUE, device |-> 0, sequence |-> 0]

Init ==
  /\ RightInit /\ LeftInit
  /\ tries = 0 /\ heard = Silence /\ seen = FALSE /\ mute = 0
  /\ strangers = 0 /\ lost = 0

-----------------------------------------------------------------------------
(* The right half                                                          *)

RightScan(rows) ==
  /\ rpc # "off" /\ written < MaxSnapshots
  /\ ScanChange(rows)
  /\ UNCHANGED <<leftVars, linkVars>>

RightRests ==
  /\ WaitForChange
  /\ mute' = 0
  /\ UNCHANGED <<leftVars, tries, heard, seen, strangers, lost>>

RightWakes ==
  /\ ChangeSeen \/ KeepaliveFires \/ Supersede
  /\ UNCHANGED <<leftVars, linkVars>>

\* session.send is entered: a slot with its transmissions lies ahead.
RightSends ==
  /\ TakeSnapshot \/ Retry
  /\ tries' = MaxTries /\ heard' = Silence /\ seen' = FALSE
  /\ UNCHANGED <<leftVars, mute, strangers, lost>>

\* send() fails before it has transmitted: its request is refused, or its session
\* ends.  (A blocked slot is requested again by the callback.)  Here it may fail
\* at any time, which is more than the code does.
SlotRefused ==
  /\ tries = MaxTries /\ SendError
  /\ UNCHANGED <<leftVars, linkVars>>

\* Mutant: the radio ACK is taken for the delivery of the snapshot.
SlotEndsRadioAck ==
  /\ IF heard # Silence THEN SendAcked /\ mute' = 0 ELSE SendMiss /\ UNCHANGED mute
  /\ UNCHANGED <<leftVars, tries, heard, seen, strangers, lost>>

\* The slot has ended: send returns and the main task judges the answer.
SlotEnds ==
  /\ IF heard # Silence /\ AckMatches(heard, RIGHT_DEVICE_ID, snap.sequence)
     THEN SendAcked /\ mute' = 0
     ELSE SendMiss /\ UNCHANGED mute
  /\ UNCHANGED <<leftVars, tries, heard, seen, strangers, lost>>

-----------------------------------------------------------------------------
(* The radio                                                               *)

OnAir == rpc = "send" /\ tries > 0 /\ heard = Silence

TransmissionLost ==
  /\ OnAir
  /\ tries' = tries - 1
  /\ UNCHANGED <<rightVars, leftVars, heard, seen, mute, strangers, lost>>

\* The left half receives the packet and answers.  A repeat is answered with
\* the pipe's extension as it is; a new packet is queued first.
Received(ack_heard) ==
  /\ OnAir
  /\ IF seen THEN UNCHANGED leftVars ELSE NewPacket(RIGHT_PIPE, Frame)
  /\ seen' = TRUE
  /\ tries' = tries - 1
  /\ heard' = IF ack_heard THEN ack_extension_for_pipe(RIGHT_PIPE)' ELSE Silence
  /\ UNCHANGED <<rightVars, mute, strangers, lost>>

\* A packet of another keyboard; the duplicate state of its pipe is replaced.
StrangerReceived(s) ==
  /\ strangers < MaxStrangers
  /\ NewPacket(s.pipe, s.frame)
  /\ seen' = (seen /\ s.pipe # RIGHT_PIPE)
  /\ strangers' = strangers + 1
  /\ UNCHANGED <<rightVars, tries, heard, mute, lost>>

-----------------------------------------------------------------------------
(* The left half                                                           *)

PrxTask ==
  /\ EventNew \/ EventDropped
  /\ UNCHANGED <<rightVars, linkVars>>

LinkLossTask ==
  /\ LinkLossPoll
  /\ UNCHANGED <<rightVars, linkVars>>

-----------------------------------------------------------------------------
(* Time and faults                                                         *)

\* 100 ms are long: the tasks that can run have run before.
TasksRest ==
  /\ events = <<>>
  /\ rpc # "check" /\ ~KeepaliveDue
  /\ ~(rpc \in {"idle", "hold"} /\ mchanged)
  /\ ~(rpc = "delay" /\ mdirty)

\* The assumption of the link: an ACK comes within MaxMute ticks.
Tick ==
  /\ MaxMute > 0 /\ TasksRest /\ LeftTick
  /\ rpc \in {"send", "delay"} => mute < MaxMute
  /\ mute' = IF rpc \in {"send", "delay"} THEN mute + 1 ELSE 0
  /\ kage' = IF rpc = "hold" THEN kage + 1 ELSE kage
  /\ UNCHANGED <<mrows, mdirty, mchanged, rpc, sequence, snap, resend, written,
                 confirmed, tries, heard, seen, strangers, lost>>

LeftResets ==
  /\ "left" \in Faults /\ lost = 0 /\ queued_top > 0
  /\ LeftRestart
  /\ lost' = queued_top /\ seen' = FALSE
  /\ UNCHANGED <<rightVars, tries, heard, mute, strangers>>

\* The battery of the right half runs out.
RightDies ==
  /\ "off" \in Faults /\ rpc # "off"
  /\ rpc' = "off" /\ mute' = 0
  /\ UNCHANGED <<mrows, mdirty, mchanged, sequence, snap, resend, kage, written,
                 confirmed, leftVars, tries, heard, seen, strangers, lost>>

Next ==
  \/ \E rows \in SUBSET RightKeys : RightScan(rows)
  \/ RightRests \/ RightWakes \/ RightSends
  \/ SlotRefused \/ SlotEnds
  \/ TransmissionLost
  \/ \E ack_heard \in BOOLEAN : Received(ack_heard)
  \/ \E s \in Strangers : StrangerReceived(s)
  \/ PrxTask \/ LinkLossTask
  \/ Tick
  \/ LeftResets \/ RightDies

\* The main task of the right half; where it waits decides which it can do.
RightTask == RightRests \/ RightWakes \/ RightSends \/ SlotEnds

\* Tasks are polled when woken, slots end, time goes on; a radio that keeps
\* trying gets through, packet and ACK, while the queue has room (prx_task
\* empties it in one turn of the executor, a slot takes milliseconds).
Fairness ==
  /\ WF_vars(RightTask)
  /\ WF_vars(PrxTask) /\ WF_vars(LinkLossTask)
  /\ WF_vars(Tick)
  /\ SF_vars(~seen /\ CanPush /\ Received(TRUE))

Spec == Init /\ [][Next]_vars /\ Fairness

\* The right half may be reset too: its sequence numbers begin anew.
RightResets ==
  /\ RightRestart /\ mute' = 0 /\ heard' = Silence
  /\ UNCHANGED <<leftVars, tries, seen, strangers, lost>>

RestartSpec == Init /\ [][Next \/ RightResets]_vars

-----------------------------------------------------------------------------
(* Properties                                                              *)

\* The link refines SnapshotDelivery: snapshots enter the queue and are
\* applied in the order they were taken, through retries, superseded
\* snapshots, lost ACKs, repeats, full queues and resets of the left half.
Delivery == INSTANCE SnapshotDelivery WITH queued <- queued_top

DeliverySafe == Delivery!Init /\ [][Delivery!Next]_(Delivery!vars)

\* The same with its liveness: what was queued is applied in the end.
DeliverySpec == Delivery!Spec

\* A snapshot the right half takes for delivered (its transport ACK came) has
\* been applied, or waits in the event queue and will be accepted when
\* prx_task comes to it, unless a reset of the left half has lost it.
ConfirmedIsHeld ==
  confirmed > lost =>
    \/ confirmed <= applied
    \/ \E i \in 1 .. Len(events) :
         LET e == events[i] IN
           /\ e.pipe = RIGHT_PIPE /\ e.frame.device = RIGHT_DEVICE_ID
           /\ e.frame.payload.version >= confirmed
           /\ e.frame.sequence # tracker[RIGHT_DEVICE_ID]

\* prx_task accepts each snapshot once, and no frame of another keyboard: a
\* frame it accepts is newer than all before, unless a reset has lost them.
AppliedOnce == [][EventNew => applied' > applied \/ applied' \in 1 .. lost]_vars

\* The watchdog's 500 ms are enough: while the right half lives and hears an
\* ACK within MaxMute ticks, no held key is released by it.
WatchdogQuiet == LinkLost /\ rpc # "off" => lrows = {}

\* Nothing to send, no signal of a change, no payload queued
LinkRests == rpc \in {"idle", "hold"} /\ ~mchanged /\ events = <<>>

\* A link at rest is in sync: the left half shows the rows of the right half's
\* matrix, whatever was lost, repeated, superseded, refused by a full queue or
\* cleared before.  A left half that was reset shows the keys still held with the
\* keepalive; the watchdog's 500 ms must be enough, as for WatchdogQuiet.
InSync == LinkRests => lrows = mrows \/ (rpc = "hold" /\ last_seen = Never)

\* Every snapshot is delivered and confirmed, or a newer one takes its place.
SnapshotConfirmed ==
  \A v \in 1 .. MaxSnapshots :
    (written = v /\ rpc = "send") ~> (confirmed >= v \/ written > v \/ rpc = "off")

\* When the right half dies with keys down, the left half lets go of them.
DeadHalfReleased == (rpc = "off") ~> [](lrows = {})
=============================================================================
