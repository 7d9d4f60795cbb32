----------------------------- MODULE LeftCentral -----------------------------
(***************************************************************************)
(* The left half against any right half and any host: frames of its device *)
(* arrive in any order, are missing or come twice, keys of the left half   *)
(* go down and up, and a BLE host connects, subscribes and leaves.         *)
(*                                                                         *)
(* The properties are about the way from the two matrices to the host:     *)
(* RIGHT_ROWS_STATE and the edges of HID_EVENTS, hid_task's active keys,   *)
(* and the reports.                                                        *)
(***************************************************************************)
EXTENDS LeftHalf

CONSTANT InSequences       \* sequence numbers of the frames that arrive

ASSUME LeftCentralAssumption == InSequences \subseteq SeqNumber

vars == <<rightVars, leftVars>>

Init == RightInit /\ LeftInit

Frames == {encode_frame(RIGHT_DEVICE_ID, q, {}, Snapshot(rows, 0)) :
             q \in InSequences, rows \in SUBSET RightKeys}

FrameArrives(f) == NewPacket(RIGHT_PIPE, f) /\ UNCHANGED rightVars

PrxTask == (EventNew \/ EventDropped) /\ UNCHANGED rightVars

LinkLossTask == LinkLossPoll /\ UNCHANGED rightVars

Hid == HidTask /\ UNCHANGED rightVars

LeftScan(k) == LeftEdge(k) /\ UNCHANGED rightVars

Host == (BleConnect \/ CccdWrite \/ BleDisconnect) /\ UNCHANGED rightVars

\* Tasks that can run do so before 100 ms are over.
Tick == /\ events = <<>> /\ ExecutorFree /\ ~lchanged /\ hid_events = <<>>
        /\ LeftTick /\ UNCHANGED rightVars

Next ==
  \/ \E f \in Frames : FrameArrives(f)
  \/ PrxTask \/ LinkLossTask \/ Hid
  \/ \E k \in LeftKeys : LeftScan(k)
  \/ Host \/ Tick

\* The executor polls every woken task once per round of its run queue, also
\* when hid_task keeps it busy in between (strong fairness); time goes on.
Fairness == SF_vars(PrxTask) /\ SF_vars(LinkLossTask) /\ WF_vars(Hid) /\ SF_vars(Tick)

Spec == Init /\ [][Next]_vars /\ Fairness

-----------------------------------------------------------------------------
(* Properties                                                              *)

\* hid_task has nothing left to do.
HidQuiet == hpc = "wait" /\ ~ldirty /\ ~lchanged /\ ~hid_clear /\ hid_events = <<>>

\* No stuck key: once hid_task has come to rest, it holds no right key that the
\* rows do not hold, whatever snapshots, link losses and BLE disconnects came in
\* between, and no left key that the scan sees up, unless an edge was lost in a
\* full channel.
NoStuckKey ==
  HidQuiet => /\ active.right \subseteq lrows
              /\ edge_lost \/ active.left \subseteq scanned

\* The host holds no key that hid_task does not, unless the last report was
\* lost on its way.
HostReleased ==
  HidQuiet /\ notify /\ ~report_lost =>
     host.left \subseteq active.left /\ host.right \subseteq active.right

\* A link loss that lasts clears the rows and makes hid_task drop the right
\* keys, and so does any frame that lets go of a key for good.
ChangesReachHid ==
  /\ [](LinkLost => <>(~LinkLost \/ (lrows = {} /\ active.right = {})))
  /\ \A k \in RightKeys : <>[](k \notin lrows) => <>[](k \notin active.right)
=============================================================================
