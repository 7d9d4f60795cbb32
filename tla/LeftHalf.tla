------------------------------ MODULE LeftHalf ------------------------------
(***************************************************************************)
(* The left half of the Elytra keyboard, the central of                    *)
(* src/boards/elytra/src/bin/left_central.rs: the application side of the  *)
(* PRX session (the event queue and the ACK extensions of                  *)
(* src/src/mpsl_timeslot.rs), prx_task, link_loss_task, matrix_scan_task,  *)
(* hid_task, and the BLE events that touch the keys.                       *)
(*                                                                         *)
(* All tasks share one cooperative executor: a task runs until its next    *)
(* await, and hid_task awaits only in its select, so no other task moves   *)
(* while hid_task is between two of them (ExecutorFree).  The RADIO        *)
(* callback, which queues a received payload and answers with the ACK      *)
(* extension, interrupts the tasks at any point.                           *)
(***************************************************************************)
EXTENDS RightHalf

CONSTANTS
  LeftKeys,        \* keys of the left half
  Pipes,           \* pipes the PRX session receives on
  EventCap,        \* PRX_EVENT_QUEUE_CAP (32)
  HidCap,          \* capacity of HID_EVENTS (64)
  Timeout,         \* LINK_LOSS_TIMEOUT_MS in ticks (5)
  Never,           \* RIGHT_LAST_SEEN_MS = 0
  Ble,             \* whether a host comes and goes
  HciFails         \* whether hci_data_put may fail

ASSUME LeftAssumption ==
  /\ RIGHT_PIPE \in Pipes \cap BoundPipes
  /\ EventCap \in Nat \ {0} /\ HidCap \in Nat \ {0}
  /\ Timeout \in Nat \ {0}
  /\ Never = Timeout + 2
  /\ Ble \in BOOLEAN /\ HciFails \in BOOLEAN

VARIABLES
  \* the PRX session: queued payloads, and the ACK extension of each pipe
  events, ack_ext,
  \* prx_task's tracker and RIGHT_LAST_SEEN_MS as ticks since then
  tracker, last_seen,
  \* RIGHT_ROWS_STATE, RIGHT_DIRTY, RIGHT_CHANGED
  lrows, ldirty, lchanged,
  \* hid_task: its keys, where it is, HID_CLEAR_REQUESTED, HID_EVENTS
  active, hpc, hid_clear, hid_events,
  \* matrix_scan_task: the keys it has seen down
  scanned,
  \* CONN_HANDLE is set, HID_NOTIFY_ENABLED, what the host has been told
  connected, notify, host,
  \* link_loss_task's timer has fired
  poll_due,
  \* history: the last snapshot accepted and the last one queued; an edge or
  \* a report has been lost
  applied, queued_top, edge_lost, report_lost

sessionVars == <<events, ack_ext>>
rightView   == <<lrows, ldirty, lchanged>>
hidVars     == <<active, hpc, hid_clear, hid_events, scanned, edge_lost>>
bleVars     == <<connected, notify, host, report_lost>>
leftVars    == <<sessionVars, tracker, last_seen, rightView, hidVars, bleVars,
                 poll_due, applied, queued_top>>

NoKeys == [left |-> {}, right |-> {}]

Bindings == bind(EmptyBindings, RIGHT_PIPE, RIGHT_DEVICE_ID)

LeftInit ==
  /\ events = <<>> /\ ack_ext = [p \in Pipes |-> NoAck]
  /\ tracker = EmptyTracker /\ last_seen = Never
  /\ lrows = {} /\ ldirty = FALSE /\ lchanged = FALSE
  /\ active = NoKeys /\ hpc = "wait" /\ hid_clear = FALSE /\ hid_events = <<>>
  /\ scanned = {} /\ edge_lost = FALSE
  /\ connected = FALSE /\ notify = FALSE /\ host = NoKeys /\ report_lost = FALSE
  /\ poll_due = FALSE /\ applied = 0 /\ queued_top = 0

ExecutorFree == hpc = "wait"

-----------------------------------------------------------------------------
(* The RADIO callback of the PRX session                                   *)

\* right_transport_ack_extension: the provider of the ACK extension
\* Mutant: it does not look whether the payload was queued.
ExtensionUnqueued(pipe, f, queued) ==
  IF pipe = RIGHT_PIPE /\ DecodeOk(f) /\ f.device = RIGHT_DEVICE_ID
  THEN encode_transport_ack(f.device, f.sequence) ELSE NoAck

right_transport_ack_extension(pipe, f, queued) ==
  IF queued /\ pipe = RIGHT_PIPE /\ DecodeOk(f) /\ f.device = RIGHT_DEVICE_ID
  THEN encode_transport_ack(f.device, f.sequence) ELSE NoAck

\* push_event: a full queue drops the payload.
CanPush == Len(events) < EventCap

\* What the ACK of a packet of pipe p carries
ack_extension_for_pipe(p) == ack_ext[p]

\* A new packet: push_event, then observe_payload sets the pipe's extension.
NewPacket(pipe, f) ==
  /\ events' = IF CanPush THEN Append(events, [pipe |-> pipe, frame |-> f])
                          ELSE events
  /\ ack_ext' = [ack_ext EXCEPT ![pipe] =
                   right_transport_ack_extension(pipe, f, CanPush)]
  /\ queued_top' = IF CanPush /\ pipe = RIGHT_PIPE /\ f.device = RIGHT_DEVICE_ID
                   THEN f.payload.version ELSE queued_top
  /\ UNCHANGED <<tracker, last_seen, rightView, hidVars, bleVars, poll_due, applied>>

-----------------------------------------------------------------------------
(* prx_task                                                                *)

\* The rows are swapped; only a change is signalled to hid_task.
SetRows(rows) ==
  /\ lrows' = rows
  /\ ldirty' = (ldirty \/ rows # lrows)
  /\ lchanged' = (lchanged \/ rows # lrows)

\* Mutant: the rows are not cleared.
ClearFlagsOnly == UNCHANGED lrows /\ ldirty' = TRUE /\ lchanged' = TRUE

clear_right_keys == lrows' = {} /\ ldirty' = TRUE /\ lchanged' = TRUE

IsSnapshot(f) ==
  f.payload_len = SNAPSHOT_PAYLOAD_LEN /\ f.payload.msg = "snapshot"

\* pop_event, the oldest payload first
NextEvent == Head(events)

PopEvent == events # <<>> /\ events' = Tail(events)

\* next_event returns an accepted frame; the session is not done, as no slot
\* overstays.
EventNew ==
  /\ ExecutorFree /\ PopEvent
  /\ LET e == NextEvent IN
       /\ accept_bound_frame(Bindings, tracker, e.pipe, e.frame) = "new"
       /\ tracker' = Track(tracker, e.frame.device, e.frame.sequence)
       /\ IF IsSnapshot(e.frame)
          THEN SetRows(e.frame.payload.rows) /\ applied' = e.frame.payload.version
          ELSE UNCHANGED <<rightView, applied>>
  /\ last_seen' = 0
  /\ UNCHANGED <<ack_ext, hidVars, bleVars, poll_due, queued_top>>

\* next_event returns a duplicate or a frame that is refused.
EventDropped ==
  /\ ExecutorFree /\ PopEvent
  /\ accept_bound_frame(Bindings, tracker, NextEvent.pipe, NextEvent.frame) # "new"
  /\ UNCHANGED <<ack_ext, tracker, last_seen, rightView, hidVars, bleVars,
                 poll_due, applied, queued_top>>

-----------------------------------------------------------------------------
(* link_loss_task                                                          *)

LinkLost == last_seen # Never /\ last_seen > Timeout

\* Mutant: the watchdog clears the rows without telling hid_task.
LinkLossQuiet ==
  /\ ExecutorFree /\ poll_due
  /\ poll_due' = FALSE
  /\ IF LinkLost /\ lrows # {} THEN lrows' = {} /\ UNCHANGED <<ldirty, lchanged>>
                               ELSE UNCHANGED rightView
  /\ UNCHANGED <<sessionVars, tracker, last_seen, hidVars, bleVars, applied, queued_top>>

\* One poll of the watchdog, 100 ms after the one before.
LinkLossPoll ==
  /\ ExecutorFree /\ poll_due
  /\ poll_due' = FALSE
  /\ IF LinkLost /\ lrows # {} THEN clear_right_keys ELSE UNCHANGED rightView
  /\ UNCHANGED <<sessionVars, tracker, last_seen, hidVars, bleVars, applied, queued_top>>

-----------------------------------------------------------------------------
(* matrix_scan_task of the left half                                       *)

\* One edge: a full channel loses it.
LeftEdge(k) ==
  /\ ExecutorFree
  /\ scanned' = IF k \in scanned THEN scanned \ {k} ELSE scanned \cup {k}
  /\ IF Len(hid_events) < HidCap
     THEN /\ hid_events' = Append(hid_events, [key |-> k, pressed |-> k \notin scanned])
          /\ UNCHANGED edge_lost
     ELSE edge_lost' = TRUE /\ UNCHANGED hid_events
  /\ UNCHANGED <<sessionVars, tracker, last_seen, rightView, active, hpc,
                 hid_clear, bleVars, poll_due, applied, queued_top>>

-----------------------------------------------------------------------------
(* hid_task                                                                *)

QueuedEdge == 1 .. Len(hid_events)

\* No later edge of its key is queued.
LastOfKey(i) ==
  \A j \in QueuedEdge : hid_events[j].key = hid_events[i].key => j <= i

\* Mutant: only the oldest edge is looked at.
AfterFirstEdge(left) ==
  IF hid_events = <<>> THEN left
  ELSE IF hid_events[1].pressed THEN left \cup {hid_events[1].key}
  ELSE left \ {hid_events[1].key}

\* The keys after the queued edges: the last edge of a key decides.
AfterEdges(left) ==
  {k \in LeftKeys :
     \/ k \in left /\ \A i \in QueuedEdge : hid_events[i].key # k
     \/ \E i \in QueuedEdge :
          hid_events[i].key = k /\ LastOfKey(i) /\ hid_events[i].pressed}

\* Mutant: only a press makes a report.
PressesChange(left) ==
  \E i \in QueuedEdge : hid_events[i].pressed /\ hid_events[i].key \notin left

\* Some edge changes a key: the first one that does finds its key as in left.
EdgesChange(left) ==
  \E i \in QueuedEdge : hid_events[i].pressed # (hid_events[i].key \in left)

\* notify_hid: nothing without a subscribed host; an error of hci_data_put
\* is not looked at.
notify_hid(report) ==
  IF ~(notify /\ connected) THEN UNCHANGED <<host, report_lost>>
  ELSE \/ host' = report /\ report_lost' = FALSE
       \/ HciFails /\ report_lost' = TRUE /\ UNCHANGED host

apply_right_snapshot == lrows

\* What an iteration does once it has taken the flags: the right rows if they
\* were dirty, the queued edges, and the report if a key has changed.
Deliver(left, right, changed) ==
  LET keys == [left |-> AfterEdges(left),
               right |-> IF ldirty THEN apply_right_snapshot ELSE right]
      report == changed \/ ldirty \/ EdgesChange(left)
  IN /\ active' = keys
     /\ hid_events' = <<>>
     /\ ldirty' = FALSE
     /\ hpc' = "top"
     /\ IF report THEN notify_hid(keys) ELSE UNCHANGED <<host, report_lost>>

\* The top of the loop finds a clear request, or dirty rows only.
HidTopClear ==
  /\ hpc = "top" /\ hid_clear
  /\ hid_clear' = FALSE
  /\ Deliver({}, {}, TRUE)
  /\ UNCHANGED <<sessionVars, tracker, last_seen, lrows, lchanged, scanned,
                 edge_lost, connected, notify, poll_due, applied, queued_top>>

HidTopDirty ==
  /\ hpc = "top" /\ ~hid_clear /\ ldirty
  /\ Deliver(active.left, active.right, TRUE)
  /\ UNCHANGED <<sessionVars, tracker, last_seen, lrows, lchanged, hid_clear,
                 scanned, edge_lost, connected, notify, poll_due, applied, queued_top>>

\* Neither: the select is reached; it returns at once if it can.
HidTopWait ==
  /\ hpc = "top" /\ ~hid_clear /\ ~ldirty
  /\ hpc' = "wait"
  /\ UNCHANGED <<sessionVars, tracker, last_seen, rightView, active, hid_clear,
                 hid_events, scanned, edge_lost, bleVars, poll_due, applied, queued_top>>

\* The select returns RIGHT_CHANGED, which is taken, or an edge.
HidWake ==
  /\ hpc = "wait" /\ (lchanged \/ hid_events # <<>>)
  /\ lchanged' = FALSE
  /\ Deliver(active.left, active.right, FALSE)
  /\ UNCHANGED <<sessionVars, tracker, last_seen, lrows, hid_clear, scanned,
                 edge_lost, connected, notify, poll_due, applied, queued_top>>

HidTask == HidTopClear \/ HidTopDirty \/ HidTopWait \/ HidWake

-----------------------------------------------------------------------------
(* The BLE host                                                            *)

BleConnect ==
  /\ ExecutorFree /\ Ble /\ ~connected
  /\ connected' = TRUE
  /\ UNCHANGED <<sessionVars, tracker, last_seen, rightView, hidVars, notify,
                 host, report_lost, poll_due, applied, queued_top>>

\* The host writes the CCCD of the report; one that unsubscribes forgets it.
CccdWrite ==
  /\ ExecutorFree /\ connected
  /\ notify' = ~notify
  /\ host' = IF notify THEN NoKeys ELSE host
  /\ report_lost' = FALSE
  /\ UNCHANGED <<sessionVars, tracker, last_seen, rightView, hidVars, connected,
                 poll_due, applied, queued_top>>

request_hid_clear == hid_clear' = TRUE

\* Disconnection Complete; a host releases the keys of a lost keyboard.
BleDisconnect ==
  /\ ExecutorFree /\ connected
  /\ connected' = FALSE /\ notify' = FALSE
  /\ host' = NoKeys /\ report_lost' = FALSE
  /\ clear_right_keys /\ request_hid_clear
  /\ UNCHANGED <<sessionVars, tracker, last_seen, active, hpc, hid_events,
                 scanned, edge_lost, poll_due, applied, queued_top>>

-----------------------------------------------------------------------------
\* A reset of the left half: all its state is in RAM.
LeftRestart ==
  /\ events' = <<>> /\ ack_ext' = [p \in Pipes |-> NoAck]
  /\ tracker' = EmptyTracker /\ last_seen' = Never
  /\ lrows' = {} /\ ldirty' = FALSE /\ lchanged' = FALSE
  /\ active' = NoKeys /\ hpc' = "wait" /\ hid_clear' = FALSE /\ hid_events' = <<>>
  /\ scanned' = {} /\ edge_lost' = FALSE
  /\ connected' = FALSE /\ notify' = FALSE /\ host' = NoKeys /\ report_lost' = FALSE
  /\ poll_due' = FALSE
  /\ UNCHANGED <<applied, queued_top>>

\* 100 ms pass: a poll of the watchdog falls due.
LeftTick ==
  /\ ~poll_due
  /\ poll_due' = TRUE
  /\ last_seen' = IF last_seen > Timeout THEN last_seen ELSE last_seen + 1
  /\ UNCHANGED <<sessionVars, tracker, rightView, hidVars, bleVars, applied, queued_top>>
=============================================================================
