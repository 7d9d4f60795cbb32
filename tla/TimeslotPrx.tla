----------------------------- MODULE TimeslotPrx -----------------------------
(***************************************************************************)
(* PRX in MPSL timeslots: prx_timeslot_callback of src/src/                *)
(* mpsl_timeslot.rs, the sessions that request its slots, and the two      *)
(* engines it drives: the shared PRX state machine, once set_prx_driver    *)
(* has registered it, and the inline engine of the callback otherwise.     *)
(*                                                                         *)
(* Actors: MPSL, whose signals run the callback one at a time, the radio   *)
(* and the peers, and the task that owns the session.  The RADIO works for *)
(* ESB between START and the end of a slot only.  MPSL's scheduler is      *)
(* external: it grants, blocks or cancels a request as it likes.           *)
(***************************************************************************)
EXTENDS PrxStateMachine

CONSTANTS
  Modes,           \* sessions the application opens
  Engines,         \* engines its sessions run on
  Faults,          \* what MPSL may do besides granting and blocking
  MaxExtends,      \* max_extends, 0 without extend_mode
  Target,          \* count of run_prx_slots
  FastRefill       \* PRX_FAST_BUDGET_REFILL

ASSUME TimeslotPrxAssumption ==
  /\ Modes \subseteq {"finite", "auto", "parked"}
  /\ Engines \subseteq {"legacy", "converged"}
  /\ Faults \subseteq {"refuse", "overstayed", "invalid_return", "fast_distance"}
  /\ MaxExtends \in Nat
  /\ Target \in Nat \ {0} /\ FastRefill \in Nat

VARIABLES
  \* MPSL: the session, whether a close and a SESSION_IDLE are outstanding
  mpsl, closing, idle_due,
  \* PrxInnerState; starts is counters.start of run_prx_slots
  driver, saved, slot_active, request_outstanding, extend_count, starts, done,
  last_request_kind,
  \* the inline engine: phase, duplicate detection, the header in rx_buf, the
  \* packets it has taken as new, and the window its last ACK has hinted at
  phase, legacy_last, rx_buf, rx_per_pipe, hinted,
  \* PRX_TIMESLOT_ACTIVE, PRX_FAST_BUDGET
  active, budget,
  \* the callback has run the state machine and has yet to discard
  discarding,
  \* the kind of the session opened last, and whether a task owns it
  mode, owned,
  \* history: what has gone wrong
  lapses

mpslVars == <<mpsl, closing, idle_due>>
slotVars == <<slot_active, request_outstanding, extend_count, starts, done,
              last_request_kind>>
legacyVars == <<phase, legacy_last, rx_buf, rx_per_pipe, hinted>>
vars == <<prxVars, mpslVars, driver, saved, slotVars, legacyVars, active, budget,
          discarding, mode, owned, lapses>>

PrxPhase == {"Idle", "Receiving", "TxAck", "TxRepeatedAck"}

InSlot == mpsl \in {"slot", "extending"}

AnyPipe == CHOOSE p \in Pipes : TRUE

\* EsbPrx::new_timeslot: the RADIO and its interrupt are MPSL's.
NewTimeslotDriver == Init /\ timeslot_managed = TRUE

TimeslotPrxInit ==
  /\ NewTimeslotDriver
  /\ mpsl = "closed" /\ closing = FALSE /\ idle_due = FALSE
  /\ driver = FALSE /\ saved = [p \in Pipes |-> NoLast]
  /\ slot_active = FALSE /\ request_outstanding = FALSE /\ active = FALSE
  /\ extend_count = 0 /\ starts = 0 /\ done = FALSE
  /\ last_request_kind = "earliest"
  /\ phase = "Idle"
  /\ legacy_last = [p \in Pipes |-> NoLast]
  /\ rx_buf = [pipe |-> AnyPipe, seq |-> 0, no_ack |-> FALSE]
  /\ budget = 0 /\ discarding = FALSE /\ mode = "parked" /\ owned = FALSE
  /\ rx_per_pipe = [p \in Pipes |-> 0] /\ hinted = "none" /\ lapses = {}

\* A SIGNAL_RADIO is due: the RADIO line is high in the slot.
RadioLine == rf.disabled /\ rf.inten

-----------------------------------------------------------------------------
(* Slot start                                                              *)

SavedDetection == saved

\* ts_start_rx: power cycle, restore the duplicate state, arm the first buffer;
\* out of memory the slot is wasted.
TsStartRx ==
  /\ \/ \E i \in RxToDmaChoice(pool) :
          /\ pool' = ToDma(pool, i) /\ rx_idx' = i /\ state' = "Receiver"
          /\ rf' = StartReceivingManualAck(RadioReset, i)
     \/ /\ RxToDmaChoice(pool) = {}
        /\ state' = "Idle" /\ rf' = RadioReset
        /\ UNCHANGED <<pool, rx_idx>>
  /\ timeslot_managed' = TRUE /\ last' = SavedDetection
  /\ UNCHANGED <<rx_queue, pending_rx_idx, ack_tx_idx, hdr, peerVars, got,
                 phase>>

\* The inline engine receives into PRX_BUFS.rx, which is no pool buffer.
LegacyStart ==
  /\ rf' = StartReceivingManualAck(RadioReset, NoIdx) /\ phase' = "Receiving"
  /\ UNCHANGED <<poolVars, smVars, hdr, peerVars, got>>

\* counters.start as far as it matters
CountStart == IF mode = "finite" /\ starts < Target THEN starts + 1 ELSE starts

\* SIGNAL_START
Start ==
  /\ mpsl = "requested" /\ ~closing
  /\ mpsl' = "slot" /\ slot_active' = TRUE /\ request_outstanding' = TRUE
  /\ active' = TRUE /\ extend_count' = 0 /\ starts' = CountStart
  /\ IF driver THEN TsStartRx ELSE LegacyStart
  /\ lapses' = lapses \ {"overstayed", "unhinted"} /\ hinted' = "none"
  /\ UNCHANGED <<closing, idle_due, driver, saved, done, last_request_kind,
                 legacy_last, rx_buf, rx_per_pipe, budget, discarding, mode,
                 owned>>

-----------------------------------------------------------------------------
(* SIGNAL_RADIO, converged: one event of the state machine, then           *)
(* ts_discard_received drains what it has completed.                       *)

\* An idle machine leaves the event; the line stays high until the slot ends.
TsOnRadio == IF state = "Idle" THEN UNCHANGED prxVars ELSE HandleRadioEvent

ConvergedRadio ==
  /\ driver /\ TsOnRadio
  /\ discarding' = (state # "Idle")
  /\ UNCHANGED <<legacyVars, budget, lapses>>

TsDiscardReceived ==
  /\ discarding /\ discarding' = FALSE
  /\ pool' = [i \in Buf |->
       IF \E k \in DOMAIN rx_queue : rx_queue[k] = i THEN "free" ELSE pool[i]]
  /\ rx_queue' = <<>>
  /\ UNCHANGED <<smVars, hdr, rf, peerVars, got, mpslVars, driver, saved,
                 slotVars, legacyVars, active, budget, mode, owned, lapses>>

(* SIGNAL_RADIO, inline engine                                             *)

LegacyReceiving == phase = "Receiving" /\ rf.disabled

LegacyRestartRx(r) == StartReceivingManualAck(r, NoIdx)

LegacyIsDup(p) ==
  /\ legacy_last[p].valid
  /\ legacy_last[p].pid = Pid(rx_buf.seq) /\ legacy_last[p].crc = Crc(rx_buf)

\* Mutant: the hint of an ACK is written before the budget is refilled.
PeriodOfSlotBefore == IF budget > 0 THEN "fast" ELSE "parked"

\* prx_schedule_period_us, as the ACK of a parked session carries it: the next
\* fast window, or one connection interval away
SchedulePeriod == IF budget' > 0 THEN "fast" ELSE "parked"

LegacyBadCrc ==
  /\ LegacyReceiving /\ ~rf.crcok
  /\ rf' = LegacyRestartRx(Stop(Seen))
  /\ UNCHANGED <<legacyVars, budget, lapses>>

\* The ACK of a packet, with the hint
LegacyAck ==
  /\ rf' = TransmitAckManual(Seen, rf.rxmatch, NoIdx)
  /\ hinted' = SchedulePeriod
  /\ lapses' = lapses \ {"unhinted"}

LegacyDup ==
  /\ LegacyReceiving /\ rf.crcok /\ LegacyIsDup(rf.rxmatch)
  /\ UNCHANGED budget
  /\ IF rx_buf.no_ack
     THEN rf' = LegacyRestartRx(Stop(Seen)) /\ UNCHANGED <<phase, hinted, lapses>>
     ELSE LegacyAck /\ phase' = "TxRepeatedAck"
  /\ UNCHANGED <<legacy_last, rx_buf, rx_per_pipe>>

\* prx_refill_fast_budget
RefillFastBudget == budget' = IF FastRefill > 0 THEN FastRefill ELSE budget

\* A new packet goes to the event queue (LeftHalf has it) and is acknowledged;
\* one that wants no ACK pays for a fast window nobody is told of.
LegacyNew ==
  /\ LegacyReceiving /\ rf.crcok /\ ~LegacyIsDup(rf.rxmatch)
  /\ legacy_last' = [legacy_last EXCEPT ![rf.rxmatch] =
       [valid |-> TRUE, pid |-> Pid(rx_buf.seq), crc |-> Crc(rx_buf)]]
  /\ RefillFastBudget
  /\ rx_per_pipe' = [rx_per_pipe EXCEPT ![rf.rxmatch] = @ + 1]
  /\ IF rx_buf.no_ack
     THEN /\ rf' = LegacyRestartRx(Stop(Seen)) /\ UNCHANGED <<phase, hinted>>
          /\ lapses' = IF hinted = "parked" THEN lapses \cup {"unhinted"} ELSE lapses
     ELSE LegacyAck /\ phase' = "TxAck"
  /\ UNCHANGED rx_buf

LegacyAckSent ==
  /\ phase \in {"TxAck", "TxRepeatedAck"} /\ rf.disabled
  /\ rf' = LegacyRestartRx(Seen) /\ phase' = "Receiving"
  /\ UNCHANGED <<legacy_last, rx_buf, rx_per_pipe, hinted, budget, lapses>>

\* In Idle the event is not taken; the line stays high.
LegacyIgnored == phase = "Idle" /\ UNCHANGED <<rf, legacyVars, budget, lapses>>

LegacyRadio ==
  /\ ~driver
  /\ LegacyBadCrc \/ LegacyDup \/ LegacyNew \/ LegacyAckSent \/ LegacyIgnored
  /\ UNCHANGED <<poolVars, smVars, hdr, peerVars, got, discarding>>

RadioSignal ==
  /\ InSlot /\ RadioLine
  /\ ConvergedRadio \/ LegacyRadio
  /\ UNCHANGED <<mpslVars, driver, saved, slotVars, active, mode, owned>>

-----------------------------------------------------------------------------
(* Slot end                                                                *)

\* Mutant: the radio is handed back as the engine left it.
NotQuiesced(r) == r

\* quiesce_radio_before_timeslot_end: bounded disable, then power off and on
Quiesced(r) == RadioReset

\* ts_force_stop, or just the phase; the radio is left as r.
StopEngine(r) ==
  IF driver
  THEN /\ pool' = Release(Release(Release(pool, rx_idx), pending_rx_idx), ack_tx_idx)
       /\ rx_idx' = NoIdx /\ pending_rx_idx' = NoIdx /\ ack_tx_idx' = NoIdx
       /\ state' = "Idle" /\ timeslot_managed' = FALSE /\ rf' = r
       /\ UNCHANGED <<rx_queue, last, hdr, peerVars, got, phase>>
  ELSE /\ phase' = "Idle" /\ rf' = r
       /\ UNCHANGED <<poolVars, smVars, hdr, peerVars, got>>

\* Mutant: the snapshot at the end of the slot is forgotten.
NoSnapshot == saved

Snapshot == IF driver THEN last ELSE saved

\* The action REQUEST; a session being closed gets no more slots.
RequestNormal ==
  /\ last_request_kind' = "normal"
  /\ mpsl' = IF closing THEN "idle" ELSE "requested"
  /\ UNCHANGED <<request_outstanding, done, idle_due>>

\* The action END without a request: MPSL signals SESSION_IDLE later.
EndSlot ==
  /\ mpsl' = "idle" /\ idle_due' = TRUE /\ request_outstanding' = FALSE
  /\ UNCHANGED last_request_kind

\* prx_consume_fast_budget: what it leaves
SpendFastBudget == budget - 1

Goes == \/ mode = "auto"
        \/ mode = "finite" /\ starts < Target

\* prx_finalize_and_reschedule, without its statistics: a session that does
\* not reschedule chains a fast window while a recent packet pays for it.  When
\* the distance is no valid one the slot ends, and run_prx_slots is not done.
Finalize ==
  /\ UNCHANGED starts
  /\ \/ /\ Goes
        /\ RequestNormal /\ UNCHANGED <<budget, lapses>>
     \/ /\ ~Goes /\ budget > 0
        /\ \/ /\ RequestNormal
              /\ budget' = SpendFastBudget
              /\ UNCHANGED lapses
           \/ /\ "fast_distance" \in Faults
              /\ EndSlot /\ budget' = 0 /\ UNCHANGED done
              /\ lapses' = lapses \cup {"fast_distance"}
     \/ /\ ~Goes /\ budget = 0
        /\ EndSlot /\ done' = (done \/ mode = "finite")
        /\ UNCHANGED <<budget, lapses>>

\* Mutant: the flag of the slot is left set.
StillActive == slot_active

Inactive == FALSE

\* The end of a slot at TIMER0 CC0 or around an extension
EndOfSlot ==
  /\ slot_active' = Inactive /\ active' = FALSE
  /\ StopEngine(Quiesced(rf)) /\ saved' = Snapshot /\ hinted' = "none"
  /\ Finalize
  /\ UNCHANGED <<closing, driver, legacy_last, rx_buf, rx_per_pipe, discarding,
                 mode, owned>>

\* SIGNAL_TIMER0: ask for an extension, or end the slot
Timer0 ==
  /\ mpsl = "slot"
  /\ IF extend_count < MaxExtends
     THEN /\ mpsl' = "extending"
          /\ UNCHANGED <<prxVars, closing, idle_due, driver, saved, slotVars,
                         legacyVars, active, budget, discarding, mode, owned,
                         lapses>>
     ELSE EndOfSlot /\ UNCHANGED extend_count

\* SIGNAL_EXTEND_SUCCEEDED: the last extension granted is not used.
ExtendSucceeded ==
  /\ mpsl = "extending" /\ extend_count' = extend_count + 1
  /\ IF extend_count' >= MaxExtends
     THEN EndOfSlot
     ELSE /\ mpsl' = "slot"
          /\ UNCHANGED <<prxVars, closing, idle_due, driver, saved, slot_active,
                         request_outstanding, starts, done, last_request_kind,
                         legacyVars, active, budget, discarding, mode, owned,
                         lapses>>

ExtendFailed == mpsl = "extending" /\ EndOfSlot /\ UNCHANGED extend_count

\* SIGNAL_OVERSTAYED: no snapshot, and the inline engine's radio runs on.
Overstayed ==
  /\ "overstayed" \in Faults /\ InSlot
  /\ mpsl' = "idle" /\ idle_due' = TRUE
  /\ slot_active' = FALSE /\ request_outstanding' = FALSE /\ active' = FALSE
  /\ done' = TRUE
  /\ StopEngine(IF driver THEN Stop(rf) ELSE rf)
  /\ lapses' = lapses \cup {"overstayed"} /\ hinted' = "none"
  /\ UNCHANGED <<closing, driver, saved, extend_count, starts, last_request_kind,
                 legacy_last, rx_buf, rx_per_pipe, budget, discarding, mode,
                 owned>>

-----------------------------------------------------------------------------
(* Signals outside a slot                                                  *)

\* A parked session waits for the next request_window.
BlockedOutstanding == mode # "parked" /\ request_outstanding

\* prx_set_earliest_request
RequestEarliest == last_request_kind' = "earliest"

\* SIGNAL_BLOCKED, SIGNAL_CANCELLED: a session that reschedules asks for the
\* earliest slot at once, and is done when MPSL refuses.
Blocked ==
  /\ mpsl = "requested" /\ ~closing
  /\ request_outstanding' = BlockedOutstanding
  /\ \/ /\ mode = "parked" /\ mpsl' = "idle"
        /\ UNCHANGED <<last_request_kind, done>>
     \/ /\ mode # "parked" /\ RequestEarliest
        /\ UNCHANGED <<mpsl, done>>
     \/ /\ mode # "parked" /\ RequestEarliest /\ "refuse" \in Faults
        /\ mpsl' = "idle" /\ done' = TRUE
  /\ idle_due' = (mpsl' = "idle")
  /\ UNCHANGED <<prxVars, closing, driver, saved, slot_active, extend_count,
                 starts, legacyVars, active, budget, discarding, mode, owned,
                 lapses>>

\* SIGNAL_SESSION_IDLE
SessionIdle ==
  /\ idle_due /\ idle_due' = FALSE
  /\ request_outstanding' = FALSE
  /\ UNCHANGED <<prxVars, mpsl, closing, driver, saved, slot_active,
                 extend_count, starts, done, last_request_kind, legacyVars,
                 active, budget, discarding, mode, owned, lapses>>

\* INVALID_RETURN, the default arm: the distance of a NORMAL request is not
\* checked against MPSL's maximum.  Nobody is woken.
InvalidReturn ==
  /\ "invalid_return" \in Faults
  /\ mpsl = "requested" /\ ~closing /\ last_request_kind = "normal"
  /\ mpsl' = "idle" /\ idle_due' = TRUE
  /\ slot_active' = FALSE /\ request_outstanding' = FALSE /\ active' = FALSE
  /\ StopEngine(IF driver THEN Stop(rf) ELSE rf)
  /\ lapses' = lapses \cup {"invalid_return"}
  /\ UNCHANGED <<closing, driver, saved, extend_count, starts, done,
                 last_request_kind, legacy_last, rx_buf, rx_per_pipe, hinted,
                 budget, discarding, mode, owned>>

\* SIGNAL_SESSION_CLOSED
SessionClosed ==
  /\ closing /\ ~InSlot
  /\ mpsl' = "closed" /\ closing' = FALSE /\ idle_due' = FALSE
  /\ request_outstanding' = FALSE /\ active' = FALSE /\ done' = TRUE
  /\ UNCHANGED <<prxVars, driver, saved, slot_active, extend_count, starts,
                 last_request_kind, legacyVars, budget, discarding, mode, owned,
                 lapses>>

-----------------------------------------------------------------------------
(* The task that owns the session                                          *)

\* reset_runtime, for a session of kind m and the driver that follows it; the
\* fast budget is a static of its own and is not reset.  One session at a time
\* is open, as BusyGuard and MPSL's session memory have it.
ResetRuntime(m) ==
  /\ mpsl = "closed" /\ ~owned /\ m \in Modes
  /\ done' = FALSE /\ slot_active' = FALSE /\ extend_count' = 0 /\ starts' = 0
  /\ last_request_kind' = "earliest" /\ phase' = "Idle" /\ mode' = m
  /\ rx_per_pipe' = [p \in Pipes |-> 0]
  /\ lapses' = lapses \ {"invalid_return", "fast_distance"}
  /\ UNCHANGED <<prxVars, idle_due, rx_buf, hinted, active, budget, discarding>>

NoDriver ==
  /\ driver' = FALSE
  /\ saved' = [p \in Pipes |-> NoLast] /\ legacy_last' = [p \in Pipes |-> NoLast]

\* The first request of a session; one that MPSL refuses is closed again.
FirstRequest ==
  \/ mpsl' = "requested" /\ owned' = TRUE /\ UNCHANGED closing
  \/ "refuse" \in Faults /\ mpsl' = "idle" /\ owned' = FALSE /\ closing' = TRUE

\* run_prx_slots, up to its await
RunPrxSlots ==
  /\ ResetRuntime("finite") /\ NoDriver
  /\ FirstRequest /\ request_outstanding' = FALSE

\* open_prx_session and open_parked_prx_session, which submits no request
OpenSession(m) ==
  /\ ResetRuntime(m) /\ NoDriver
  /\ \/ /\ m = "auto" /\ FirstRequest /\ request_outstanding' = owned'
     \/ /\ m = "parked" /\ mpsl' = "idle" /\ owned' = TRUE
        /\ request_outstanding' = FALSE /\ UNCHANGED closing

\* EsbTimeslotPrx::start: the driver is set before the first request is made.
StartTimeslotPrx ==
  /\ "converged" \in Engines
  /\ ResetRuntime("auto")
  /\ FirstRequest /\ request_outstanding' = owned'
  /\ driver' = owned' /\ saved' = last /\ legacy_last' = last

\* set_prx_driver, after the first request has been made: the slot it asks for
\* may run on the inline engine already, and has the driver from here on.
SetPrxDriver ==
  /\ owned /\ mode # "finite" /\ ~driver /\ "converged" \in Engines
  /\ driver' = TRUE /\ saved' = last /\ legacy_last' = last
  /\ lapses' = IF InSlot THEN lapses \cup {"late_driver"} ELSE lapses
  /\ UNCHANGED <<prxVars, mpslVars, slotVars, phase, rx_buf, rx_per_pipe, hinted,
                 active, budget, discarding, mode, owned>>

\* request_window; MPSL refuses a request while it has one.
RequestWindow ==
  /\ owned /\ mode # "finite"
  /\ ~done /\ ~slot_active /\ ~request_outstanding
  /\ RequestEarliest
  /\ \/ /\ mpsl = "idle"
        /\ mpsl' = "requested" /\ request_outstanding' = TRUE
     \/ /\ mpsl # "idle" \/ "refuse" \in Faults
        /\ request_outstanding' = FALSE /\ UNCHANGED mpsl
  /\ UNCHANGED <<prxVars, closing, idle_due, driver, saved, slot_active,
                 extend_count, starts, done, legacyVars, active, budget,
                 discarding, mode, owned, lapses>>

\* Drop of a session and EsbTimeslotPrx::stop.  A slot in progress goes on.
DropSession ==
  /\ owned /\ mode # "finite"
  /\ owned' = FALSE /\ closing' = TRUE
  /\ driver' = FALSE /\ request_outstanding' = FALSE /\ active' = FALSE
  /\ lapses' = IF driver /\ InSlot THEN lapses \cup {"drop"} ELSE lapses
  /\ UNCHANGED <<prxVars, mpsl, idle_due, saved, slot_active, extend_count,
                 starts, done, last_request_kind, legacyVars, budget, discarding,
                 mode>>

\* A run leaves its flags to SESSION_CLOSED.
CloseRun ==
  /\ owned' = FALSE /\ closing' = TRUE
  /\ UNCHANGED <<prxVars, mpsl, idle_due, driver, saved, slotVars, legacyVars,
                 active, budget, discarding, mode, lapses>>

\* run_prx_slots after its await
RunReturns == owned /\ mode = "finite" /\ done /\ CloseRun

\* A run that is cancelled: OnDrop closes its session.
DropRun == owned /\ mode = "finite" /\ ~done /\ CloseRun

-----------------------------------------------------------------------------
(* The air                                                                 *)

\* EasyDMA writes the pool buffer of the state machine, or PRX_BUFS.rx.
TimeslotReceive(p) ==
  \E n \in 0 .. MaxSeq, na \in BOOLEAN, ok \in BOOLEAN :
    /\ PeerSends(p, n, na) /\ rf.mode = "rx"
    /\ rf' = [rf EXCEPT !.mode = IF rf.txen THEN "tx" ELSE "off", !.disabled = TRUE,
                        !.crcok = ok, !.rxmatch = p]
    /\ IF rf.ptr \in Buf
       THEN /\ hdr' = [hdr EXCEPT ![rf.ptr].seq = n, ![rf.ptr].no_ack = na]
            /\ UNCHANGED rx_buf
       ELSE /\ rx_buf' = [pipe |-> p, seq |-> n, no_ack |-> na]
            /\ UNCHANGED hdr
    /\ sent' = [sent EXCEPT ![p] = n]
    /\ sent_no_ack' = [sent_no_ack EXCEPT ![p] = na]
    /\ UNCHANGED <<poolVars, smVars, heard, got>>

\* Whether the peer has heard the ACK makes no difference: it repeats at will.
AckSent ==
  /\ rf.mode = "tx"
  /\ rf' = [rf EXCEPT !.mode = IF rf.rxen THEN "rx" ELSE "off", !.disabled = TRUE]
  /\ UNCHANGED <<poolVars, smVars, hdr, peerVars, got, rx_buf>>

Air ==
  /\ ~RadioLine
  /\ \/ \E p \in Pipes : TimeslotReceive(p)
     \/ \E p \in Pipes : Miss(p) /\ UNCHANGED rx_buf
     \/ AckSent
  /\ UNCHANGED <<mpslVars, driver, saved, slotVars, phase, legacy_last,
                 rx_per_pipe, hinted, active, budget, discarding, mode, owned, lapses>>

-----------------------------------------------------------------------------
Mpsl ==
  \/ Start \/ RadioSignal \/ Timer0 \/ ExtendSucceeded \/ ExtendFailed \/ Overstayed
  \/ Blocked \/ SessionIdle \/ InvalidReturn \/ SessionClosed

Task ==
  \/ \E m \in Modes : OpenSession(m)
  \/ RunPrxSlots \/ StartTimeslotPrx \/ SetPrxDriver \/ RequestWindow
  \/ DropSession \/ RunReturns \/ DropRun

Next ==
  \/ TsDiscardReceived
  \/ ~discarding /\ (Mpsl \/ Task \/ Air)

Spec == TimeslotPrxInit /\ [][Next]_vars

\* A parked session's task asks for a window after each BLE radio event.
ParkedRequest == mode = "parked" /\ RequestWindow

SlotEnds == Timer0 \/ ExtendSucceeded \/ ExtendFailed

\* A slot ends, signals are delivered, and the scheduler does not refuse a
\* session for ever: between two BLE events there is room for a slot.
FairSpec ==
  /\ Spec
  /\ WF_vars(TsDiscardReceived) /\ WF_vars(~discarding /\ SlotEnds)
  /\ WF_vars(~discarding /\ SessionIdle) /\ WF_vars(~discarding /\ ParkedRequest)
  /\ SF_vars(~discarding /\ Start)

-----------------------------------------------------------------------------
(* Properties                                                              *)

LastType == [valid : BOOLEAN, pid : 0 .. 3, crc : (0 .. 3) \X BOOLEAN]

\* Every variable holds a value of the kind its field or register holds.
TypeOK ==
  /\ pool \in [Buf -> BufState] /\ rx_queue \in Seq(Buf)
  /\ state \in StatePrx
  /\ rx_idx \in Opt /\ pending_rx_idx \in Opt /\ ack_tx_idx \in Opt
  /\ rf.mode \in {"off", "rx", "tx"} /\ rf.ptr \in Opt
  /\ mpsl \in {"closed", "idle", "requested", "slot", "extending"}
  /\ last \in [Pipes -> LastType] /\ saved \in [Pipes -> LastType]
  /\ legacy_last \in [Pipes -> LastType]
  /\ extend_count \in 0 .. MaxExtends /\ starts \in 0 .. Target
  /\ last_request_kind \in {"earliest", "normal"}
  /\ phase \in PrxPhase
  /\ rx_buf \in [pipe : Pipes, seq : 0 .. MaxSeq, no_ack : BOOLEAN]
  /\ budget \in 0 .. FastRefill /\ mode \in {"finite", "auto", "parked"}
  /\ rx_per_pipe \in [Pipes -> Nat]
  /\ hinted \in {"none", "fast", "parked"}
  /\ lapses \subseteq {"overstayed", "invalid_return", "fast_distance", "drop",
                     "late_driver", "unhinted"}

\* Outside its slots a session leaves the radio alone, and the state machine
\* idle without a DMA buffer, so that BLE has the radio and the next slot has
\* the buffers; a session dropped in a slot loses the buffers, and an inline
\* engine that overstays leaves the radio running.
QuietOutsideSlot ==
  ~InSlot =>
    /\ ~active /\ ~slot_active
    /\ (rf.mode = "off" /\ ~RadioLine) \/ "overstayed" \in lapses
    /\ \/ state = "Idle" /\ InState(pool, "in_dma") = {}
       \/ "drop" \in lapses

\* Duplicate detection outlives the slots: whatever ACKs are lost, and however
\* slots end between a packet and its repeat, neither engine hands the same
\* packet out twice in a session.  Excepted is what follows a driver registered
\* in a slot and a session with a driver dropped in one: an engine that was not
\* stopped then goes on in the midst of a packet of its own.
Torn == {"late_driver", "drop"} \subseteq lapses

NoRepeat ==
  [][~Torn' =>
       /\ Len(rx_queue') > Len(rx_queue) => \E p \in Pipes : got'[p] > got[p]
       /\ \A p \in Pipes : rx_per_pipe'[p] <= sent[p] + 1]_vars

\* A session goes on getting slots until it is done or dropped, whatever MPSL
\* blocks, cancels or ends early.  Lost are a session that reschedules itself,
\* to an invalid request, as nobody is woken to submit another, and
\* run_prx_slots, to an invalid fast distance.
Stranded ==
  \/ mode # "parked" /\ "invalid_return" \in lapses
  \/ mode = "finite" /\ "fast_distance" \in lapses

WindowsKeepComing == (owned /\ ~Stranded) ~> (InSlot \/ done \/ ~owned \/ Stranded)

\* The window a parked session hints at in its ACKs is the one it asks for: the
\* slot whose last ACK has hinted at a fast window chains one, and one that has
\* hinted at the next connection event does not, whatever repeats and losses lie
\* between (prx_schedule_period_us and prx_consume_fast_budget).  A new packet
\* without ACK after the hint keeps a fast window, but breaks the promise of a
\* parked slot: it refills the budget and tells nobody.  Excepted are also
\* sessions being closed, overstayed slots and a fast distance MPSL does not take.
HintIsKept ==
  [][InSlot /\ mpsl' \in {"idle", "requested"} /\ mode = "parked" /\ ~closing
       /\ "overstayed" \notin lapses'
     => /\ hinted = "fast" => mpsl' = "requested" \/ "fast_distance" \in lapses'
        /\ hinted = "parked" => mpsl' = "idle" \/ "unhinted" \in lapses']_vars
=============================================================================
