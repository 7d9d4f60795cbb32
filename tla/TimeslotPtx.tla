----------------------------- MODULE TimeslotPtx -----------------------------
(***************************************************************************)
(* PTX in MPSL timeslots: ptx_timeslot_callback of src/src/                *)
(* mpsl_timeslot.rs with the sessions that request its slots: poll (a slot *)
(* after the other), event (a slot for each send) and finite (run_ptx_     *)
(* slots), and the callback without a protocol of run_single_slot and      *)
(* run_chained_slots.  A poll session may run on the shared PTX state      *)
(* machine (driver); the others use the inline engine of the callback.     *)
(*                                                                         *)
(* MPSL is external: it grants, blocks or cancels a request as it likes.   *)
(* The callback is one action per signal, on the record st of the fields   *)
(* of PtxInnerState that decide anything; packets are left out but for the *)
(* question whether the peer has the one in the TX buffer.                 *)
(***************************************************************************)
EXTENDS PacketPool

CONSTANTS
  Modes,           \* sessions the application opens
  Gates,           \* schedule gates of its poll sessions: "off", "skip", "lock"
  Converged,       \* whether poll sessions may register a driver
  Faults,          \* what MPSL may do besides granting and blocking
  Target,          \* slots of a run
  ReportEvery,     \* report_every of a poll session
  MaxRetries,      \* max_retries of a session
  MissLimit,       \* lock_miss_limit
  SkipSlots        \* skip_after_hint_slots

ASSUME TimeslotPtxAssumption ==
  /\ Modes \subseteq {"poll", "event", "finite", "single", "chained"}
  /\ Gates \subseteq {"off", "skip", "lock"} /\ Converged \in BOOLEAN
  /\ Faults \subseteq {"refuse", "overstayed", "invalid_return"}
  /\ Target \in Nat \ {0} /\ ReportEvery \in Nat \ {0} /\ MaxRetries \in Nat
  /\ MissLimit \in Nat \ {0} /\ SkipSlots \in Nat \ {0}

VARIABLES
  mpsl, closing, idle_due, \* MPSL: the session, a close and a SESSION_IDLE due
  st,              \* PtxInnerState
  sm,              \* PtxStateMachine: state, tx_idx, ack_idx
  rf, pended,      \* RADIO, and its interrupt pended by a send
  answer,          \* the peer answers the transmission that has ended
  delivered,       \* history: the peer has the packet now in the TX buffer
  owned, sending,  \* the task has a session, and waits in send()
  lapses           \* history: the last slot overstayed, or had a driver

\* The sessions that are functions: they run to their end, or are cancelled.
RunModes == {"finite", "single", "chained"}

mpslVars == <<mpsl, closing, idle_due>>
smVars == <<sm, pool, rx_queue>>
airVars == <<answer, delivered>>
taskVars == <<owned, sending, lapses>>
vars == <<mpslVars, st, smVars, rf, pended, airVars, taskVars>>

InSlot == mpsl = "slot"

\* crcok is CRCSTATUS, which is only looked at with the DISABLED event.
RadioOff == [mode |-> "off", disabled |-> FALSE, inten |-> FALSE, rxen |-> FALSE,
             crcok |-> FALSE]

\* A SIGNAL_RADIO is due.
RadioLine == rf.disabled /\ rf.inten

\* transmit: a packet that wants an ACK.  TXEN does nothing to a radio at work.
Transmit(r) ==
  [r EXCEPT !.mode = IF @ = "off" THEN "tx" ELSE @, !.disabled = FALSE, !.inten = TRUE,
            !.rxen = TRUE]

\* EsbRadio::stop, and disable_radio_bounded that clears the RXEN shortcut
Stop(r) == [r EXCEPT !.mode = "off", !.disabled = FALSE, !.inten = FALSE, !.rxen = FALSE,
                     !.crcok = FALSE]

\* TX END: the radio receives already; the shortcut has done its work.
PrepareForAck(r) == [r EXCEPT !.disabled = FALSE, !.rxen = FALSE, !.crcok = FALSE]

\* PtxState::new, reset_runtime and what the opener of the session sets
FreshState(mode, gate) ==
  [mode |-> mode, gate |-> gate, driver |-> FALSE, phase |-> "Idle",
   done |-> FALSE, starts |-> 0, retry_count |-> 0, acked |-> FALSE, cc1 |-> FALSE,
   pending |-> FALSE, result_ready |-> FALSE, ack_ok |-> FALSE,
   slots |-> 0, report_ready |-> FALSE, skip |-> 0, locked |-> FALSE,
   misses |-> 0, distance |-> "none", period |-> "none", kind |-> "earliest"]

PtxPhase == {"Idle", "Tx", "WaitAck", "Done"}

IdleMachine == [state |-> "Idle", tx_idx |-> NoIdx, ack_idx |-> NoIdx]

\* EsbPtx::new_timeslot: the RADIO and its interrupt are MPSL's.
NewTimeslotDriver == PoolInit /\ sm = IdleMachine /\ pended = FALSE

Init ==
  /\ NewTimeslotDriver /\ rf = RadioOff
  /\ mpsl = "closed" /\ closing = FALSE /\ idle_due = FALSE
  /\ st = FreshState("finite", "off")
  /\ answer = FALSE /\ delivered = FALSE
  /\ owned = FALSE /\ sending = FALSE /\ lapses = {}

-----------------------------------------------------------------------------
(* The schedule gate                                                       *)

\* The period is forgotten too: the code keeps it, and reads it when locked only.
Unlock(s) ==
  [s EXCEPT !.locked = FALSE, !.misses = 0, !.distance = "none", !.period = "none"]

\* Mutant: one miss more than the limit.
ObserveMissLate(s) ==
  IF ~s.locked THEN s
  ELSE IF s.misses + 1 > MissLimit THEN Unlock(s)
  ELSE [s EXCEPT !.misses = @ + 1]

\* ptx_observe_schedule_miss; only a PhaseLocked session is ever locked.
ObserveMiss(s) ==
  IF ~s.locked THEN s
  ELSE IF s.misses + 1 >= MissLimit THEN Unlock(s)
  ELSE [s EXCEPT !.misses = @ + 1]

\* ptx_observe_schedule_hint: d is the distance to the hinted window, p the
\* period; "far" ones are beyond MPSL's maximum.
ObserveHint(s, d, p) ==
  CASE s.gate = "off" -> s
    [] s.gate = "skip" -> [s EXCEPT !.skip = SkipSlots]
    [] s.gate = "lock" ->
         [s EXCEPT !.locked = TRUE, !.misses = 0, !.period = p, !.distance = d]

\* ptx_set_earliest_request
Earliest(s) == [s EXCEPT !.kind = "earliest"]

NextDistance(s) == IF s.distance # "none" THEN s.distance ELSE s.period

\* ptx_configure_next_poll_request
NextPollRequest(s) ==
  IF ~s.locked THEN Earliest(s)
  ELSE IF NextDistance(s) = "near" THEN [s EXCEPT !.kind = "normal", !.distance = "none"]
  ELSE Earliest(Unlock(s))

-----------------------------------------------------------------------------
(* The shared state machine.  Of SIGNAL_RADIO it only sees what the callback *)
(* leaves, which has cleared DISABLED: an ACK of a slot it has started itself *)
(* is out of its reach.  A driver registered within a slot of the inline      *)
(* engine also meets the ACK timeout of that engine, in TsOnTimeout.          *)

\* send_next: the packet still in hand, the next one, or Idle
SendNext(m, p, r) ==
  \/ /\ m.tx_idx # NoIdx /\ pool' = p /\ rf' = Transmit(r)
     /\ sm' = [m EXCEPT !.state = "Tx"]
  \/ \E i \in DequeueTxChoice(p) :
       /\ m.tx_idx = NoIdx /\ pool' = ToDma(p, i) /\ rf' = Transmit(r)
       /\ sm' = [m EXCEPT !.state = "Tx", !.tx_idx = i]
  \/ /\ m.tx_idx = NoIdx /\ DequeueTxChoice(p) = {} /\ pool' = p
     /\ rf' = [r EXCEPT !.inten = FALSE] /\ sm' = [m EXCEPT !.state = "Idle"]

\* ts_start_tx: power cycle, forget the indices, send_next
TsStartTx == SendNext(IdleMachine, pool, RadioOff) /\ UNCHANGED rx_queue

\* ts_force_stop
TsForceStop ==
  /\ rf' = Stop(rf) /\ pool' = Release(Release(pool, sm.tx_idx), sm.ack_idx)
  /\ sm' = IdleMachine /\ UNCHANGED rx_queue

\* ts_on_radio(false) with no event: a user event, which Idle does not look at
\* in timeslots either
TsOnRadio == UNCHANGED smVars

\* Tx in handle_radio_event, at a timeout that its assertion rules out: it is
\* taken for the end of the transmission.
TimeoutInTx ==
  \/ \E i \in RxToDmaChoice(pool) :
       /\ pool' = ToDma(pool, i) /\ rf' = PrepareForAck(rf)
       /\ sm' = [sm EXCEPT !.state = "WaitAck", !.ack_idx = i]
  \/ /\ RxToDmaChoice(pool) = {}
     /\ rf' = Stop(rf) /\ sm' = [sm EXCEPT !.state = "Idle"] /\ UNCHANGED pool

\* WaitAck at a timeout: another attempt, or the packet is dropped.
TimeoutInWaitAck ==
  LET p == Release(pool, sm.ack_idx)
      m == [sm EXCEPT !.ack_idx = NoIdx] IN
    \/ rf' = Stop(rf) /\ pool' = p /\ sm' = [m EXCEPT !.state = "WaitRetransmit"]
    \/ SendNext([m EXCEPT !.tx_idx = NoIdx], Release(p, sm.tx_idx), Stop(rf))

\* ts_on_radio(true).  A machine is found in WaitRetransmit, which arms no
\* timeout, when it is registered again for a later session.
TsOnTimeout ==
  /\ \/ sm.state = "Idle" /\ SendNext(sm, pool, [rf EXCEPT !.disabled = FALSE])
     \/ sm.state = "Tx" /\ TimeoutInTx
     \/ sm.state = "WaitAck" /\ TimeoutInWaitAck
     \/ /\ sm.state = "WaitRetransmit" /\ UNCHANGED pool
        /\ rf' = Transmit(rf) /\ sm' = [sm EXCEPT !.state = "Tx"]
  /\ UNCHANGED rx_queue

-----------------------------------------------------------------------------
(* Slot start                                                              *)

\* counters.start, as far as runs compare it with their target
CountStart(s) ==
  [s EXCEPT !.starts = IF s.mode \in RunModes /\ @ < Target THEN @ + 1 ELSE @]

\* Mutant: the flag of the slot before is kept.
SlotStateOldAck(s) == [s EXCEPT !.phase = "Tx", !.retry_count = 0, !.cc1 = FALSE]

SlotState(s) == [s EXCEPT !.phase = "Tx", !.retry_count = 0, !.acked = FALSE, !.cc1 = FALSE]

\* The inline engine transmits the TX buffer: what send() has staged, or a
\* counter packet of its own.
InlineStart ==
  /\ st' = SlotState(CountStart(st))
  /\ rf' = Transmit(RadioOff)
  /\ delivered' = (delivered /\ st.mode = "event") /\ lapses' = {}
  /\ UNCHANGED smVars

ConvergedStart ==
  /\ st' = SlotState(CountStart(st)) /\ TsStartTx
  /\ lapses' = {} /\ delivered' = FALSE

\* FixedSkipAfterHint: nothing is sent in this slot.
SkippedStart ==
  /\ st' = [CountStart(st) EXCEPT !.skip = @ - 1, !.phase = "Done", !.cc1 = FALSE]
  /\ UNCHANGED <<smVars, rf, delivered, lapses>>

\* run_single_slot and run_chained_slots only arm TIMER0.
BasicStart ==
  /\ st' = CountStart(st)
  /\ UNCHANGED <<smVars, rf, delivered, lapses>>

Basic == st.mode \in {"single", "chained"}

\* An event session has nothing to send: the slot is given back at once.
NothingPending == st.mode = "event" /\ ~st.pending

Start ==
  /\ mpsl = "requested" /\ ~closing
  /\ IF NothingPending
     THEN /\ mpsl' = "idle" /\ idle_due' = TRUE
          /\ UNCHANGED <<st, smVars, rf, delivered, lapses>>
     ELSE /\ mpsl' = "slot" /\ UNCHANGED idle_due
          /\ CASE Basic -> BasicStart
               [] ~Basic /\ st.skip > 0 -> SkippedStart
               [] ~Basic /\ st.skip = 0 /\ st.driver -> ConvergedStart
               [] ~Basic /\ st.skip = 0 /\ ~st.driver -> InlineStart
  /\ answer' = FALSE
  /\ UNCHANGED <<closing, pended, owned, sending>>

-----------------------------------------------------------------------------
(* SIGNAL_RADIO                                                            *)

\* DISABLED is cleared before ts_on_radio; a machine in Tx or Idle after it is
\* taken for one that has got its ACK.  In WaitAck CC1 is armed.
ConvergedRadio ==
  /\ st.driver
  /\ rf' = [rf EXCEPT !.disabled = FALSE, !.crcok = FALSE] /\ TsOnRadio
  /\ st' = CASE sm.state \in {"Idle", "Tx"} ->
                 [st EXCEPT !.acked = TRUE, !.cc1 = FALSE, !.phase = "Done"]
             [] sm.state = "WaitAck" -> [st EXCEPT !.cc1 = TRUE]
             [] sm.state = "WaitRetransmit" -> st

InlineTxEnd ==
  /\ st.phase = "Tx"
  /\ rf' = PrepareForAck(rf)
  /\ st' = [st EXCEPT !.phase = "WaitAck", !.cc1 = TRUE]

\* The end of a reception: an ACK, perhaps with a hint, or a bad CRC, which
\* ends the attempts of this slot.
InlineReceived ==
  /\ st.phase = "WaitAck"
  /\ rf' = Stop(rf)
  /\ \/ /\ rf.crcok
        /\ LET s == [st EXCEPT !.acked = TRUE, !.cc1 = FALSE, !.phase = "Done"] IN
             \/ st' = s
             \/ \E d, p \in {"near", "far"} : st' = ObserveHint(s, d, p)
     \/ ~rf.crcok /\ st' = [ObserveMiss(st) EXCEPT !.phase = "Done"]

InlineRadio ==
  /\ ~st.driver
  /\ IF rf.disabled /\ st.phase \in {"Tx", "WaitAck"}
     THEN InlineTxEnd \/ InlineReceived
     ELSE UNCHANGED <<st, rf>>
  /\ UNCHANGED smVars

\* The callback of the basic sessions only counts; their RADIO is off.
RadioSignal ==
  /\ InSlot /\ (RadioLine \/ pended)
  /\ pended' = FALSE
  /\ ConvergedRadio \/ InlineRadio
  /\ UNCHANGED <<mpslVars, airVars, taskVars>>

-----------------------------------------------------------------------------
(* SIGNAL_TIMER0                                                           *)

\* CC1 under the inline engine
InlineTimeout ==
  /\ ~st.driver /\ st.phase = "WaitAck"
  /\ IF st.retry_count < MaxRetries
     THEN /\ rf' = Transmit(Stop(rf))
          /\ st' = [ObserveMiss(st) EXCEPT !.retry_count = @ + 1, !.phase = "Tx"]
     ELSE /\ rf' = Stop(rf)
          /\ st' = [ObserveMiss(st) EXCEPT !.phase = "Done", !.cc1 = FALSE]
  /\ UNCHANGED smVars

\* CC1 under the state machine: armed again when it transmits after a timeout,
\* but not when it has dropped a packet first.  How often it has tried is left out.
ConvergedTimeout ==
  /\ st.driver /\ TsOnTimeout
  /\ LET s == ObserveMiss(st) IN
       IF sm'.state = "Tx" /\ sm.state \in {"Idle", "WaitRetransmit"}
       THEN \E n \in 0 .. MaxRetries : st' = [s EXCEPT !.retry_count = n]
       ELSE st' = [s EXCEPT !.phase = "Done", !.cc1 = FALSE]

\* The ACK timeout is longer than a transmission.
AckTimeout ==
  /\ InSlot /\ st.cc1 /\ ~RadioLine /\ rf.mode # "tx"
  /\ InlineTimeout \/ ConvergedTimeout
  /\ answer' = FALSE
  /\ UNCHANGED <<mpslVars, pended, delivered, taskVars>>

\* Mutant: the inline engine leaves a reception running.
StopsTxOnly == st.phase = "Tx"

StopsInline == st.phase \in {"Tx", "WaitAck"}

\* What CC0 stops; under the state machine a slot that is Done goes as it is.
StopEngine ==
  IF st.driver /\ st.phase # "Done" THEN TsForceStop
  ELSE /\ UNCHANGED smVars
       /\ rf' = IF ~st.driver /\ StopsInline THEN Stop(rf) ELSE rf

Requested == IF closing THEN "idle" ELSE "requested"

EventEnds(s) == [s EXCEPT !.result_ready = TRUE, !.pending = FALSE, !.ack_ok = s.acked]

\* Mutant: a report one slot late.
PollEndsLate(s) ==
  IF s.slots + 1 > ReportEvery THEN [s EXCEPT !.slots = 0, !.report_ready = TRUE]
  ELSE [s EXCEPT !.slots = @ + 1]

\* A report every so many slots
PollEnds(s) ==
  IF s.slots + 1 >= ReportEvery THEN [s EXCEPT !.slots = 0, !.report_ready = TRUE]
  ELSE [s EXCEPT !.slots = @ + 1]

Chains == st.mode \in {"finite", "chained"} /\ st.starts < Target

\* The end of a slot by kind of session: request the next one or end
SlotAction(s) ==
  \/ /\ s.mode = "event" /\ st' = EventEnds(s)
     /\ mpsl' = "idle" /\ idle_due' = TRUE
  \/ /\ s.mode = "poll" /\ st' = NextPollRequest(PollEnds(s))
     /\ mpsl' = Requested /\ UNCHANGED idle_due
  \/ /\ Chains /\ st' = s
     /\ mpsl' = Requested /\ UNCHANGED idle_due
  \/ /\ s.mode \notin {"event", "poll"} /\ ~Chains /\ st' = [s EXCEPT !.done = TRUE]
     /\ mpsl' = "idle" /\ idle_due' = TRUE

\* CC0, and TIMER0 in the callback of the basic sessions
SlotEnds ==
  /\ InSlot
  /\ StopEngine
  /\ SlotAction([st EXCEPT !.cc1 = FALSE, !.phase = IF Basic THEN @ ELSE "Done"])
  /\ answer' = FALSE
  /\ lapses' = IF st.driver THEN lapses \cup {"driver"} ELSE lapses
  /\ UNCHANGED <<closing, pended, delivered, owned, sending>>

-----------------------------------------------------------------------------
(* The other signals                                                       *)

\* Mutant: send() is not told of an overstayed slot.
OverstayedSilent(s) == IF s.mode = "event" THEN s ELSE [s EXCEPT !.done = TRUE]

OverstayedEnds(s) ==
  IF s.mode = "event" THEN [s EXCEPT !.result_ready = TRUE, !.pending = FALSE, !.ack_ok = FALSE]
  ELSE [s EXCEPT !.done = TRUE]

\* OVERSTAYED: the inline engine's radio is left as it is.
Overstayed ==
  /\ "overstayed" \in Faults /\ InSlot /\ ~Basic
  /\ IF st.driver THEN TsForceStop ELSE UNCHANGED <<smVars, rf>>
  /\ LET s == [st EXCEPT !.phase = "Idle"] IN
       IF s.mode = "poll"
       THEN st' = Earliest(Unlock(s)) /\ mpsl' = Requested /\ UNCHANGED idle_due
       ELSE st' = OverstayedEnds(s) /\ mpsl' = "idle" /\ idle_due' = TRUE
  /\ lapses' = lapses \cup {"overstayed"}
  /\ UNCHANGED <<closing, pended, airVars, owned, sending>>

\* OVERSTAYED of a basic session, whose slots leave the radio alone
BasicOverstayed ==
  /\ "overstayed" \in Faults /\ InSlot /\ Basic
  /\ st' = [st EXCEPT !.done = TRUE]
  /\ mpsl' = "idle" /\ idle_due' = TRUE
  /\ UNCHANGED <<closing, smVars, rf, pended, airVars, taskVars>>

\* A request in a signal: granted later, or refused and the session done
Rerequest(s) ==
  \/ st' = s /\ UNCHANGED <<mpsl, idle_due>>
  \/ /\ "refuse" \in Faults
     /\ st' = [s EXCEPT !.done = TRUE] /\ mpsl' = "idle" /\ idle_due' = TRUE

\* BLOCKED and CANCELLED: request the earliest slot with high priority
Blocked ==
  /\ mpsl = "requested" /\ ~closing /\ ~Basic
  /\ Rerequest(Earliest(IF st.locked THEN Unlock(st) ELSE st))
  /\ UNCHANGED <<closing, smVars, rf, pended, airVars, taskVars>>

BasicBlocked ==
  /\ mpsl = "requested" /\ ~closing /\ Basic
  /\ Rerequest(st)
  /\ UNCHANGED <<closing, smVars, rf, pended, airVars, taskVars>>

\* SESSION_IDLE: a poll session requests again.
SessionIdle ==
  /\ idle_due /\ idle_due' = FALSE
  /\ \/ /\ st.mode # "poll" \/ closing \/ mpsl # "idle"
        /\ UNCHANGED <<mpsl, st>>
     \/ /\ st.mode = "poll" /\ ~closing /\ mpsl = "idle" /\ mpsl' = "requested"
        /\ st' = [Earliest(IF st.gate = "lock" THEN Unlock(st) ELSE st)
                    EXCEPT !.report_ready = TRUE]
     \/ /\ st.mode = "poll" /\ ~closing /\ mpsl = "idle" /\ "refuse" \in Faults
        /\ st' = [Earliest(IF st.gate = "lock" THEN Unlock(st) ELSE st)
                    EXCEPT !.report_ready = TRUE, !.done = TRUE]
        /\ UNCHANGED mpsl
  /\ UNCHANGED <<closing, smVars, rf, pended, airVars, taskVars>>

\* INVALID_RETURN, the default arm: a NORMAL request MPSL does not take
InvalidReturn ==
  /\ "invalid_return" \in Faults
  /\ mpsl = "requested" /\ ~closing /\ st.kind = "normal"
  /\ mpsl' = "idle" /\ idle_due' = TRUE
  /\ UNCHANGED <<closing, st, smVars, rf, pended, airVars, taskVars>>

\* SESSION_CLOSED
SessionClosed ==
  /\ closing /\ ~InSlot
  /\ mpsl' = "closed" /\ closing' = FALSE /\ idle_due' = FALSE
  /\ st' = [st EXCEPT !.done = TRUE]
  /\ UNCHANGED <<smVars, rf, pended, airVars, taskVars>>

-----------------------------------------------------------------------------
(* The task                                                                *)

\* BusyGuard and MPSL's session memory: one session at a time
Opens(mode, gate) ==
  /\ mpsl = "closed" /\ ~owned /\ mode \in Modes
  /\ owned' = TRUE /\ st' = FreshState(mode, gate)
  /\ UNCHANGED <<closing, idle_due, smVars, rf, pended, airVars, sending, lapses>>

OpenPollSession(gate) == Opens("poll", gate) /\ mpsl' = "requested"

\* No request before the first send
OpenEventSession == Opens("event", "off") /\ mpsl' = "idle"

\* run_ptx_slots, run_single_slot and run_chained_slots, up to their await
RunSlots(mode) == mode \in RunModes /\ Opens(mode, "off") /\ mpsl' = "requested"

\* set_ptx_driver, which EsbTimeslotPtx::start calls after the first request:
\* that slot may have started on the inline engine, and be at work.
SetPtxDriver ==
  /\ Converged /\ owned /\ st.mode = "poll" /\ ~st.driver
  /\ st' = [st EXCEPT !.driver = TRUE]
  /\ UNCHANGED <<mpslVars, smVars, rf, pended, airVars, taskVars>>

\* EsbTimeslotPtx::send: a queued packet, and the RADIO interrupt pended
QueuePacket ==
  /\ owned /\ st.driver
  /\ \E i \in AllocTxChoice(pool) : pool' = EnqueueTx(AllocTx(pool, i), i)
  /\ pended' = InSlot
  /\ UNCHANGED <<mpslVars, st, sm, rx_queue, rf, airVars, taskVars>>

\* PtxEventSession::send, up to its await; a refused request ends it.
Send ==
  /\ owned /\ st.mode = "event" /\ ~sending
  /\ LET s == [st EXCEPT !.pending = TRUE, !.result_ready = FALSE, !.ack_ok = FALSE,
                         !.done = FALSE] IN
       \/ /\ mpsl = "idle" /\ mpsl' = "requested" /\ sending' = TRUE
          /\ st' = s
       \/ /\ "refuse" \in Faults
          /\ st' = [s EXCEPT !.pending = FALSE] /\ UNCHANGED <<mpsl, sending>>
  /\ delivered' = FALSE
  /\ UNCHANGED <<closing, idle_due, smVars, rf, pended, answer, owned, lapses>>

\* The await is over: a result, or the session is done.
SendReturns ==
  /\ sending /\ (st.result_ready \/ st.done)
  /\ sending' = FALSE
  /\ st' = IF st.result_ready THEN [st EXCEPT !.result_ready = FALSE, !.pending = FALSE]
                              ELSE st
  /\ UNCHANGED <<mpslVars, smVars, rf, pended, airVars, owned, lapses>>

\* PtxPollSession::next_report
NextReport ==
  /\ owned /\ st.mode = "poll" /\ ~st.done /\ st.report_ready
  /\ st' = [st EXCEPT !.report_ready = FALSE]
  /\ UNCHANGED <<mpslVars, smVars, rf, pended, airVars, taskVars>>

IsRun == st.mode \in RunModes

\* Drop of a session; a slot in progress goes on.
DropSession ==
  /\ owned /\ ~sending /\ ~IsRun
  /\ owned' = FALSE /\ closing' = TRUE
  /\ st' = [st EXCEPT !.driver = FALSE, !.pending = FALSE]
  /\ lapses' = IF st.driver /\ InSlot THEN lapses \cup {"driver"} ELSE lapses
  /\ UNCHANGED <<mpsl, idle_due, smVars, rf, pended, airVars, sending>>

CloseRun ==
  /\ owned' = FALSE /\ closing' = TRUE
  /\ UNCHANGED <<mpsl, idle_due, st, smVars, rf, pended, airVars, sending, lapses>>

RunReturns == owned /\ IsRun /\ st.done /\ CloseRun

\* A run that is cancelled: OnDrop closes its session.
DropRun == owned /\ IsRun /\ ~st.done /\ CloseRun

-----------------------------------------------------------------------------
(* The air                                                                 *)

TxEnds ==
  /\ rf.mode = "tx"
  /\ rf' = [rf EXCEPT !.mode = IF rf.rxen THEN "rx" ELSE "off", !.disabled = TRUE]
  /\ \E heard \in BOOLEAN : answer' = heard /\ delivered' = (delivered \/ heard)

\* The ACK of this transmission, or anything with a bad CRC.  While the
\* shortcut stands the reception starts again.
AckEnds ==
  /\ rf.mode = "rx"
  /\ \E ok \in BOOLEAN :
       /\ ok => answer
       /\ rf' = [rf EXCEPT !.mode = IF rf.rxen THEN "rx" ELSE "off", !.disabled = TRUE,
                          !.crcok = ok]
  /\ answer' = FALSE /\ UNCHANGED delivered

Air ==
  /\ ~RadioLine
  /\ TxEnds \/ AckEnds
  /\ UNCHANGED <<mpslVars, st, smVars, pended, taskVars>>

-----------------------------------------------------------------------------
Mpsl ==
  \/ Start \/ RadioSignal \/ AckTimeout \/ SlotEnds \/ Overstayed \/ BasicOverstayed
  \/ Blocked \/ BasicBlocked \/ SessionIdle \/ InvalidReturn \/ SessionClosed

Task ==
  \/ \E gate \in Gates : OpenPollSession(gate)
  \/ OpenEventSession
  \/ \E mode \in RunModes : RunSlots(mode)
  \/ SetPtxDriver \/ QueuePacket
  \/ Send \/ SendReturns \/ NextReport \/ DropSession
  \/ RunReturns \/ DropRun

Next == Mpsl \/ Task \/ Air

Spec == Init /\ [][Next]_vars

\* A slot ends, signals are delivered, woken tasks are polled, and MPSL does
\* not refuse a session for ever.
FairSpec ==
  /\ Spec
  /\ WF_vars(SlotEnds) /\ WF_vars(SessionIdle) /\ SF_vars(Start)
  /\ WF_vars(SendReturns) /\ WF_vars(RunReturns)

-----------------------------------------------------------------------------
(* Properties                                                              *)

Distance == {"none", "near", "far"}

StType ==
  [mode : RunModes \cup {"poll", "event"}, gate : {"off", "skip", "lock"},
   driver : BOOLEAN, phase : PtxPhase, done : BOOLEAN, starts : 0 .. Target,
   retry_count : 0 .. MaxRetries, acked : BOOLEAN, cc1 : BOOLEAN, pending : BOOLEAN,
   result_ready : BOOLEAN, ack_ok : BOOLEAN, slots : 0 .. ReportEvery - 1,
   report_ready : BOOLEAN, skip : 0 .. SkipSlots, locked : BOOLEAN,
   misses : 0 .. MissLimit - 1, distance : Distance, period : Distance,
   kind : {"earliest", "normal"}]

RadioType ==
  [mode : {"off", "rx", "tx"}, disabled : BOOLEAN, inten : BOOLEAN, rxen : BOOLEAN,
   crcok : BOOLEAN]

SmType ==
  [state : {"Idle", "Tx", "WaitAck", "WaitRetransmit"}, tx_idx : Buf \cup {NoIdx},
   ack_idx : Buf \cup {NoIdx}]

\* Every variable holds a value of the kind its field or register holds.
TypeOK ==
  /\ pool \in [Buf -> BufState] /\ rx_queue \in Seq(Buf)
  /\ mpsl \in {"closed", "idle", "requested", "slot"}
  /\ closing \in BOOLEAN /\ idle_due \in BOOLEAN /\ pended \in BOOLEAN
  /\ answer \in BOOLEAN /\ delivered \in BOOLEAN
  /\ owned \in BOOLEAN /\ sending \in BOOLEAN
  /\ st \in StType /\ rf \in RadioType
  /\ sm \in SmType
  /\ lapses \subseteq {"overstayed", "driver"}

\* What send() returns as acknowledged the peer has: however slots are blocked,
\* end early, overstay or are retried, no ACK of an earlier slot or of an
\* earlier send is taken for the answer to this one (PtxEventReport::ack_ok).
AckOkIsDelivered == st.result_ready /\ st.ack_ok => delivered

\* A slot of the inline engine that ends in time leaves the radio off and with
\* no interrupt to come, whatever it was doing, for the slots of BLE after it.
QuietOutsideSlot ==
  ~InSlot /\ lapses = {} => rf.mode = "off" /\ ~RadioLine

\* A NORMAL request, at a distance from the slot before, is only made on a hint
\* that fewer than lock_miss_limit misses have followed, and never after a slot
\* that was blocked, cancelled, overstayed or whose session fell idle.
NormalIsLocked ==
  mpsl = "requested" /\ st.kind = "normal" => st.locked /\ st.misses < MissLimit

\* Every send() returns, every run ends, and a poll session goes on getting
\* slots until it is done or dropped, whatever MPSL blocks, refuses, takes for
\* invalid or lets overstay.
SessionsGoOn ==
  /\ sending ~> ~sending
  /\ (owned /\ IsRun) ~> ~owned
  /\ (owned /\ st.mode = "poll") ~> (InSlot \/ st.done \/ ~owned)

\* A packet of the shared state machine that the callback counts as acknowledged
\* has been, or is no longer in its hands (src/src/mpsl_timeslot.rs:1184, "ACK
\* received OK -> SM advanced PID, released TX, sent next or idle").
AckedIsReleased == st.driver /\ st.acked => delivered \/ sm.tx_idx = NoIdx

=============================================================================
