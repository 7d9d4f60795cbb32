------------------------------ MODULE RightHalf ------------------------------
(***************************************************************************)
(* The right half of the Elytra keyboard, src/boards/elytra/src/main.rs:   *)
(* the task that scans the matrix and the main task, which sends the       *)
(* latest snapshot of the matrix until the left half has acknowledged it   *)
(* or a newer one supersedes it.                                           *)
(*                                                                         *)
(* The tasks share one cooperative executor, so what the main task does    *)
(* between two awaits is one step.  Its await on session.send ends with    *)
(* SendError, SendMiss or SendAcked: SplitLink says when.  Time is counted *)
(* in ticks; the waits that only shape the traffic (alignment and retry    *)
(* delays, at most 2 ms) take no tick.                                     *)
(***************************************************************************)
EXTENDS Transport, Sequences

CONSTANTS
  RightKeys,       \* keys of the right half
  Keepalive,       \* ticks between two snapshots of a held key (100 ms)
  MaxSnapshots,    \* bound: snapshots taken
  NoSnap           \* no snapshot taken yet

RIGHT_DEVICE_ID == 0
RIGHT_PIPE == 1

ASSUME RightAssumption ==
  /\ RIGHT_DEVICE_ID \in Devices
  /\ Keepalive \in Nat \ {0}
  /\ MaxSnapshots \in Nat \ {0}

VARIABLES
  \* MATRIX_ROWS_STATE, MATRIX_DIRTY and the signal MATRIX_CHANGED
  mrows, mdirty, mchanged,
  \* the main task: where it waits, the next sequence number, the snapshot it
  \* sends, whether it has sent it before, ticks of the keepalive timer
  rpc, sequence, snap, resend, kage,
  \* history: snapshots taken, and the last one whose ACK came
  written, confirmed

rightVars == <<mrows, mdirty, mchanged, rpc, sequence, snap, resend, kage,
               written, confirmed>>

SNAPSHOT_PAYLOAD_LEN == 6

\* A payload: its length, its first byte, the rows, and which snapshot it is.
Snapshot(rows, version) ==
  [len |-> SNAPSHOT_PAYLOAD_LEN, msg |-> "snapshot", rows |-> rows,
   version |-> version]

RightInit ==
  /\ mrows = {} /\ mdirty = FALSE /\ mchanged = FALSE
  /\ rpc = "check" /\ sequence = 0 /\ snap = NoSnap /\ resend = FALSE
  /\ kage = 0 /\ written = 0 /\ confirmed = 0

-----------------------------------------------------------------------------
\* matrix_scan_task at the end of a scan that found other rows
ScanChange(rows) ==
  /\ rows # mrows
  /\ mrows' = rows
  /\ mdirty' = TRUE /\ mchanged' = TRUE
  /\ UNCHANGED <<rpc, sequence, snap, resend, kage, written, confirmed>>

\* The condition of the wait loop is false: nothing new to send.
WaitForChange ==
  /\ rpc = "check" /\ ~mdirty
  /\ rpc' = IF mrows = {} THEN "idle" ELSE "hold"
  /\ kage' = 0
  /\ UNCHANGED <<mrows, mdirty, mchanged, sequence, snap, resend, written, confirmed>>

\* MATRIX_CHANGED.wait() returns and takes the signal.
ChangeSeen ==
  /\ rpc \in {"idle", "hold"} /\ mchanged
  /\ mchanged' = FALSE /\ rpc' = "check" /\ kage' = 0
  /\ UNCHANGED <<mrows, mdirty, sequence, snap, resend, written, confirmed>>

\* Mutant: the timer runs one tick too long.
KeepaliveLate == rpc = "hold" /\ kage > Keepalive

KeepaliveDue == rpc = "hold" /\ kage >= Keepalive

\* The timer of the select: send the rows again.
KeepaliveFires ==
  /\ KeepaliveDue /\ ~mchanged
  /\ mdirty' = TRUE /\ rpc' = "check" /\ kage' = 0
  /\ UNCHANGED <<mrows, mchanged, sequence, snap, resend, written, confirmed>>

\* The flag is taken and the rows are read: up to the first session.send,
\* with the bounded wait for the first attempt.
TakeSnapshot ==
  /\ rpc = "check" /\ mdirty /\ written < MaxSnapshots
  /\ mdirty' = FALSE
  /\ snap' = [sequence |-> sequence, payload |-> Snapshot(mrows, written + 1)]
  /\ sequence' = NextSeq(sequence)
  /\ written' = written + 1
  /\ resend' = FALSE /\ rpc' = "send"
  /\ UNCHANGED <<mrows, mchanged, kage, confirmed>>

\* The frame on the air while the main task awaits session.send.
Frame == encode_frame(RIGHT_DEVICE_ID, snap.sequence,
                      IF resend THEN {"retransmit"} ELSE {}, snap.payload)

\* send failed: wait RETRY_DELAY_US before the dirty flag is looked at.
SendError ==
  /\ rpc = "send"
  /\ rpc' = "delay"
  /\ UNCHANGED <<mrows, mdirty, mchanged, sequence, snap, resend, kage, written, confirmed>>

\* No radio ACK, or an extension that is not the ACK of this snapshot.
SendMiss ==
  /\ rpc = "send"
  /\ rpc' = IF mdirty THEN "check" ELSE "delay"
  /\ UNCHANGED <<mrows, mdirty, mchanged, sequence, snap, resend, kage, written, confirmed>>

SendAcked ==
  /\ rpc = "send"
  /\ rpc' = "check" /\ confirmed' = snap.payload.version
  /\ UNCHANGED <<mrows, mdirty, mchanged, sequence, snap, resend, kage, written>>

\* The retry delay is over and nothing newer has come: send the same frame.
Retry ==
  /\ rpc = "delay" /\ ~mdirty
  /\ rpc' = "send" /\ resend' = TRUE
  /\ UNCHANGED <<mrows, mdirty, mchanged, sequence, snap, kage, written, confirmed>>

\* Mutant: the dirty flag is taken where it is only to be looked at.
SupersedeTakesFlag ==
  /\ rpc = "delay" /\ mdirty
  /\ mdirty' = FALSE /\ rpc' = "check"
  /\ UNCHANGED <<mrows, mchanged, sequence, snap, resend, kage, written, confirmed>>

\* The retry delay is over and the rows have changed: give the snapshot up.
Supersede ==
  /\ rpc = "delay" /\ mdirty
  /\ rpc' = "check"
  /\ UNCHANGED <<mrows, mdirty, mchanged, sequence, snap, resend, kage, written, confirmed>>

\* A reset of the right half: all its state is in RAM.
RightRestart ==
  /\ mrows' = {} /\ mdirty' = FALSE /\ mchanged' = FALSE
  /\ rpc' = "check" /\ sequence' = 0 /\ snap' = NoSnap /\ resend' = FALSE
  /\ kage' = 0
  /\ UNCHANGED <<written, confirmed>>
=============================================================================
