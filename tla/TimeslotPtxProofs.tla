-------------------------- MODULE TimeslotPtxProofs --------------------------
(***************************************************************************)
(* Proofs about TimeslotPtx, for every set of sessions, gates and faults   *)
(* and every limit: its types, the quiet radio after a slot, the schedule  *)
(* gate, that send() reports no false acknowledgement, and that nobody     *)
(* waits in vain.                                                          *)
(***************************************************************************)
EXTENDS TimeslotPtx, PacketPoolProofs

-----------------------------------------------------------------------------
(* Types                                                                   *)

\* Zero is a value of every counter, and a skip of every hint.
LEMMA Counters ==
  /\ 0 \in 0 .. Target /\ 0 \in 0 .. MaxRetries /\ 0 \in 0 .. ReportEvery - 1
  /\ 0 \in 0 .. SkipSlots /\ 0 \in 0 .. MissLimit - 1
  /\ SkipSlots \in 0 .. SkipSlots
  /\ SkipSlots \in Nat /\ MissLimit \in Nat /\ Target \in Nat /\ ReportEvery \in Nat
BY TimeslotPtxAssumption

\* The schedule gate's operators return a state.
LEMMA GateType ==
  ASSUME NEW s \in StType, NEW d \in {"near", "far"}, NEW p \in {"near", "far"}
  PROVE  /\ Unlock(s) \in StType /\ Earliest(s) \in StType
         /\ Earliest(Unlock(s)) \in StType
         /\ ObserveMiss(s) \in StType /\ ObserveHint(s, d, p) \in StType
         /\ NextPollRequest(s) \in StType
<1>1. \A x \in StType : Unlock(x) \in StType /\ Earliest(x) \in StType
  <2>1. ASSUME NEW x \in StType PROVE Unlock(x) \in StType
    BY Counters DEF Unlock, StType, Distance
  <2>2. ASSUME NEW x \in StType PROVE Earliest(x) \in StType
    BY DEF Earliest, StType
  <2> QED
    BY <2>1, <2>2
<1>2. ObserveMiss(s) \in StType
  <2>1. CASE s.locked /\ s.misses + 1 < MissLimit
    <3>1. s.misses + 1 \in 0 .. MissLimit - 1
      BY <2>1, Counters DEF StType
    <3>2. ~(s.misses + 1 >= MissLimit)
      BY <2>1, Counters DEF StType
    <3>3. ObserveMiss(s) = [s EXCEPT !.misses = s.misses + 1]
      BY <2>1, <3>2 DEF ObserveMiss
    <3> QED
      BY <3>1, <3>3 DEF StType
  <2>2. CASE ~s.locked
    BY <2>2 DEF ObserveMiss
  <2>3. CASE s.locked /\ s.misses + 1 >= MissLimit
    BY <1>1, <2>3 DEF ObserveMiss
  <2>4. s.misses + 1 < MissLimit \/ s.misses + 1 >= MissLimit
    BY Counters DEF StType
  <2> QED
    BY <2>1, <2>2, <2>3, <2>4
<1>3. ObserveHint(s, d, p) \in StType
  <2>1. CASE s.gate = "off"
    BY <2>1 DEF ObserveHint
  <2>2. CASE s.gate = "skip"
    BY <2>2, Counters DEF ObserveHint, StType
  <2>3. CASE s.gate = "lock"
    BY <2>3, Counters DEF ObserveHint, StType, Distance
  <2> QED
    BY <2>1, <2>2, <2>3 DEF StType
<1>4. [s EXCEPT !.kind = "normal", !.distance = "none"] \in StType
  BY DEF StType, Distance
<1>5. NextPollRequest(s) \in StType
  BY <1>1, <1>4 DEF NextPollRequest
<1> QED
  BY <1>1, <1>2, <1>3, <1>5

\* So do the operators of a slot's start and end.
LEMMA SlotOpsType ==
  ASSUME NEW s \in StType
  PROVE  /\ CountStart(s) \in StType /\ SlotState(s) \in StType
         /\ EventEnds(s) \in StType /\ PollEnds(s) \in StType
         /\ OverstayedEnds(s) \in StType
<1>1. CountStart(s) \in StType
  <2>1. CASE s.starts < Target
    <3>1. s.starts + 1 \in 0 .. Target
      BY <2>1, Counters DEF StType
    <3> QED
      BY <2>1, <3>1 DEF CountStart, StType
  <2>2. CASE ~(s.starts < Target)
    <3>1. CountStart(s) = [s EXCEPT !.starts = s.starts]
      BY <2>2 DEF CountStart
    <3> QED
      BY <3>1 DEF StType
  <2> QED
    BY <2>1, <2>2
<1>2. SlotState(s) \in StType
  BY Counters DEF SlotState, StType, PtxPhase
<1>3. EventEnds(s) \in StType
  BY DEF EventEnds, StType
<1>4. PollEnds(s) \in StType
  <2>1. CASE s.slots + 1 >= ReportEvery
    BY <2>1, Counters DEF PollEnds, StType
  <2>2. CASE ~(s.slots + 1 >= ReportEvery)
    <3>1. s.slots + 1 \in 0 .. ReportEvery - 1
      BY <2>2, Counters DEF StType
    <3> QED
      BY <2>2, <3>1 DEF PollEnds, StType
  <2> QED
    BY <2>1, <2>2
<1>5. OverstayedEnds(s) \in StType
  BY DEF OverstayedEnds, StType
<1> QED
  BY <1>1, <1>2, <1>3, <1>4, <1>5

\* A slot that is skipped counts one down.
LEMMA SkippedType ==
  ASSUME NEW s \in StType, s.skip > 0
  PROVE  [s EXCEPT !.skip = @ - 1, !.phase = "Done", !.cc1 = FALSE] \in StType
<1>1. s.skip - 1 \in 0 .. SkipSlots
  BY Counters DEF StType
<1>2. "Done" \in PtxPhase
  BY DEF PtxPhase
<1> QED
  BY <1>1, <1>2 DEF StType

\* The register sequences return a radio.
LEMMA RadioOpsType ==
  ASSUME NEW r \in RadioType
  PROVE  /\ Transmit(r) \in RadioType /\ Stop(r) \in RadioType
         /\ PrepareForAck(r) \in RadioType
         /\ [r EXCEPT !.disabled = FALSE] \in RadioType
         /\ [r EXCEPT !.disabled = FALSE, !.crcok = FALSE] \in RadioType
         /\ [r EXCEPT !.inten = FALSE] \in RadioType
BY DEF Transmit, Stop, PrepareForAck, RadioType

\* The radio after its reset
LEMMA RadioOffType == RadioOff \in RadioType
BY DEF RadioOff, RadioType

\* A session starts from a fresh state.
LEMMA FreshType ==
  ASSUME NEW mode \in RunModes \cup {"poll", "event"}, NEW gate \in {"off", "skip", "lock"}
  PROVE  FreshState(mode, gate) \in StType
BY Counters DEF FreshState, StType, PtxPhase, Distance

\* send_next keeps the types of what the state machine owns.
LEMMA SendNextType ==
  ASSUME NEW m \in SmType, NEW p \in [Buf -> BufState], NEW r \in RadioType,
         SendNext(m, p, r)
  PROVE  pool' \in [Buf -> BufState] /\ sm' \in SmType /\ rf' \in RadioType
<1>1. Transmit(r) \in RadioType /\ [r EXCEPT !.inten = FALSE] \in RadioType
  BY RadioOpsType
<1>2. /\ [m EXCEPT !.state = "Tx"] \in SmType /\ [m EXCEPT !.state = "Idle"] \in SmType
      /\ \A i \in Buf : [m EXCEPT !.state = "Tx", !.tx_idx = i] \in SmType
  BY DEF SmType
<1>3. CASE \E i \in DequeueTxChoice(p) :
             /\ m.tx_idx = NoIdx /\ pool' = ToDma(p, i) /\ rf' = Transmit(r)
             /\ sm' = [m EXCEPT !.state = "Tx", !.tx_idx = i]
  <2>1. PICK i \in DequeueTxChoice(p) :
          /\ pool' = ToDma(p, i) /\ rf' = Transmit(r)
          /\ sm' = [m EXCEPT !.state = "Tx", !.tx_idx = i]
    BY <1>3
  <2>2. i \in Buf
    BY ChoiceType
  <2> QED
    BY <1>1, <1>2, <2>1, <2>2, PoolOpsType
<1>4. \/ pool' = p /\ rf' = Transmit(r) /\ sm' = [m EXCEPT !.state = "Tx"]
      \/ \E i \in DequeueTxChoice(p) :
           /\ m.tx_idx = NoIdx /\ pool' = ToDma(p, i) /\ rf' = Transmit(r)
           /\ sm' = [m EXCEPT !.state = "Tx", !.tx_idx = i]
      \/ pool' = p /\ rf' = [r EXCEPT !.inten = FALSE] /\ sm' = [m EXCEPT !.state = "Idle"]
  BY DEF SendNext
<1> QED
  BY <1>1, <1>2, <1>3, <1>4

\* The shared state machine keeps the types of what it owns.
LEMMA MachineType ==
  ASSUME TypeOK, TsStartTx \/ TsForceStop \/ TsOnTimeout
  PROVE  /\ pool' \in [Buf -> BufState] /\ rx_queue' \in Seq(Buf)
         /\ sm' \in SmType /\ rf' \in RadioType
<1>0. /\ sm \in SmType /\ pool \in [Buf -> BufState] /\ rf \in RadioType
      /\ rx_queue \in Seq(Buf) /\ IdleMachine \in SmType
  BY DEF TypeOK, IdleMachine, SmType
<1>1. /\ Stop(rf) \in RadioType /\ PrepareForAck(rf) \in RadioType
      /\ Transmit(rf) \in RadioType /\ [rf EXCEPT !.disabled = FALSE] \in RadioType
  BY <1>0, RadioOpsType
<1>2. \A p \in [Buf -> BufState] : \A i : Release(p, i) \in [Buf -> BufState]
  BY PoolOpsType
<1>3. rx_queue' = rx_queue
  BY DEF TsStartTx, TsForceStop, TsOnTimeout
<1>4. CASE TsStartTx
  BY <1>0, <1>3, <1>4, SendNextType, RadioOffType DEF TsStartTx
<1>5. CASE TsForceStop
  BY <1>0, <1>1, <1>2, <1>3, <1>5 DEF TsForceStop
<1>6. CASE sm.state = "Idle" /\ SendNext(sm, pool, [rf EXCEPT !.disabled = FALSE])
  BY <1>0, <1>1, <1>3, <1>6, SendNextType
<1>7. CASE TimeoutInTx
  <2>1. CASE RxToDmaChoice(pool) = {}
    <3>1. [sm EXCEPT !.state = "Idle"] \in SmType
      BY <1>0 DEF SmType
    <3> QED
      BY <1>0, <1>1, <1>3, <1>7, <2>1, <3>1 DEF TimeoutInTx
  <2>2. CASE RxToDmaChoice(pool) # {}
    <3>1. PICK i \in RxToDmaChoice(pool) :
            /\ pool' = ToDma(pool, i) /\ rf' = PrepareForAck(rf)
            /\ sm' = [sm EXCEPT !.state = "WaitAck", !.ack_idx = i]
      BY <1>7, <2>2 DEF TimeoutInTx
    <3>2. i \in Buf
      BY ChoiceType
    <3>3. [sm EXCEPT !.state = "WaitAck", !.ack_idx = i] \in SmType
      BY <1>0, <3>2 DEF SmType
    <3> QED
      BY <1>0, <1>1, <1>3, <3>1, <3>2, <3>3, PoolOpsType
  <2> QED
    BY <2>1, <2>2
<1>8. CASE TimeoutInWaitAck
  <2> DEFINE p == Release(pool, sm.ack_idx)
             m == [sm EXCEPT !.ack_idx = NoIdx]
  <2>1. p \in [Buf -> BufState] /\ Release(p, sm.tx_idx) \in [Buf -> BufState]
    BY <1>0, <1>2
  <2>2. /\ [m EXCEPT !.state = "WaitRetransmit"] \in SmType
        /\ [m EXCEPT !.tx_idx = NoIdx] \in SmType
    BY <1>0 DEF SmType
  <2>3. \/ rf' = Stop(rf) /\ pool' = p /\ sm' = [m EXCEPT !.state = "WaitRetransmit"]
        \/ SendNext([m EXCEPT !.tx_idx = NoIdx], Release(p, sm.tx_idx), Stop(rf))
    BY <1>8 DEF TimeoutInWaitAck
  <2> HIDE DEF p, m
  <2>4. CASE SendNext([m EXCEPT !.tx_idx = NoIdx], Release(p, sm.tx_idx), Stop(rf))
    BY <1>0, <1>1, <1>3, <2>1, <2>2, <2>4, SendNextType
  <2> QED
    BY <1>0, <1>1, <1>3, <2>1, <2>2, <2>3, <2>4
<1>9. CASE UNCHANGED pool /\ rf' = Transmit(rf) /\ sm' = [sm EXCEPT !.state = "Tx"]
  <2>1. [sm EXCEPT !.state = "Tx"] \in SmType
    BY <1>0 DEF SmType
  <2> QED
    BY <1>0, <1>1, <1>3, <1>9, <2>1
<1> QED
  BY <1>4, <1>5, <1>6, <1>7, <1>8, <1>9 DEF TsOnTimeout

-----------------------------------------------------------------------------
\* Every variable has its type at first.
LEMMA InitType == Init => TypeOK
<1> SUFFICES ASSUME Init PROVE TypeOK
  OBVIOUS
<1>1. st \in StType
  BY FreshType DEF Init, NewTimeslotDriver, RunModes
<1>2. rf \in RadioType
  BY RadioOffType DEF Init
<1>3. pool \in [Buf -> BufState] /\ rx_queue \in Seq(Buf)
  BY DEF Init, NewTimeslotDriver, PoolInit, BufState
<1> QED
  BY <1>1, <1>2, <1>3 DEF Init, NewTimeslotDriver, TypeOK, IdleMachine, SmType

\* The start of a slot keeps the types.
LEMMA StartType == TypeOK /\ Start => TypeOK'
<1> SUFFICES ASSUME TypeOK, Start PROVE TypeOK'
  OBVIOUS
<1>1. /\ mpsl' \in {"closed", "idle", "requested", "slot"}
      /\ idle_due' \in BOOLEAN /\ answer' \in BOOLEAN
      /\ UNCHANGED <<closing, pended, owned, sending>>
  BY DEF Start, TypeOK
<1>2. /\ st' \in StType /\ rf' \in RadioType /\ delivered' \in BOOLEAN
      /\ lapses' \subseteq {"overstayed", "driver"}
      /\ pool' \in [Buf -> BufState] /\ rx_queue' \in Seq(Buf)
      /\ sm' \in SmType
  <2>0. st \in StType /\ CountStart(st) \in StType /\ SlotState(CountStart(st)) \in StType
        /\ rf \in RadioType /\ delivered \in BOOLEAN
    BY SlotOpsType DEF TypeOK
  <2>1. CASE NothingPending
    BY <2>1 DEF Start, smVars, TypeOK
  <2>2. CASE BasicStart
    BY <2>0, <2>2 DEF BasicStart, smVars, TypeOK
  <2>3. CASE SkippedStart /\ st.skip > 0
    <3> DEFINE s == CountStart(st)
    <3>1. s.skip = st.skip
      BY <2>0 DEF CountStart, StType
    <3>2. s.skip > 0
      BY <2>3, <3>1
    <3>3. [s EXCEPT !.skip = s.skip - 1, !.phase = "Done", !.cc1 = FALSE] \in StType
      BY <2>0, <3>2, SkippedType
    <3>4. st' = [s EXCEPT !.skip = s.skip - 1, !.phase = "Done", !.cc1 = FALSE]
      BY <2>3 DEF SkippedStart
    <3>5. UNCHANGED <<pool, rx_queue, sm, rf, delivered, lapses>>
      BY <2>3 DEF SkippedStart, smVars
    <3>6. st' \in StType
      BY <3>3, <3>4
    <3> QED
      BY <3>5, <3>6 DEF TypeOK
  <2>4. CASE ConvergedStart
    BY <2>0, <2>4, MachineType DEF ConvergedStart
  <2>5. CASE InlineStart
    <3>1. rf' \in RadioType
      BY <2>5, RadioOffType, RadioOpsType DEF InlineStart
    <3>2. delivered' \in BOOLEAN
      BY <2>5 DEF InlineStart
    <3> QED
      BY <2>0, <2>5, <3>1, <3>2 DEF InlineStart, smVars, TypeOK
  <2>6. st.skip > 0 \/ st.skip = 0
    BY <2>0, Counters DEF StType
  <2>7. st.driver \in BOOLEAN
    BY <2>0 DEF StType
  <2>8. ~NothingPending =>
          CASE Basic -> BasicStart
            [] ~Basic /\ st.skip > 0 -> SkippedStart
            [] ~Basic /\ st.skip = 0 /\ st.driver -> ConvergedStart
            [] ~Basic /\ st.skip = 0 /\ ~st.driver -> InlineStart
    BY DEF Start
  <2>9. \/ NothingPending \/ BasicStart \/ (SkippedStart /\ st.skip > 0)
        \/ ConvergedStart \/ InlineStart
    BY <2>6, <2>7, <2>8
  <2> QED
    BY <2>1, <2>2, <2>3, <2>4, <2>5, <2>9
<1> QED
  BY <1>1, <1>2 DEF TypeOK


\* A RADIO signal and the ACK timeout keep the types.
LEMMA RadioSignalType == TypeOK /\ (RadioSignal \/ AckTimeout) => TypeOK'
<1> SUFFICES ASSUME TypeOK, RadioSignal \/ AckTimeout PROVE TypeOK'
  OBVIOUS
<1>0. st \in StType /\ rf \in RadioType
  BY DEF TypeOK
<1>1. /\ UNCHANGED <<mpsl, closing, idle_due, delivered, owned, sending, lapses>>
      /\ pended' \in BOOLEAN /\ answer' \in BOOLEAN
  BY DEF RadioSignal, AckTimeout, TypeOK, mpslVars, airVars, taskVars
<1>3. CASE ConvergedTimeout
  <2>1. ConvergedTimeout /\ TsOnTimeout
    BY <1>3 DEF ConvergedTimeout
  <2> DEFINE s == ObserveMiss(st)
  <2>2. s \in StType
    BY <1>0, GateType
  <2>3. /\ \A n \in 0 .. MaxRetries : [s EXCEPT !.retry_count = n] \in StType
        /\ [s EXCEPT !.phase = "Done", !.cc1 = FALSE] \in StType
    BY <2>2 DEF StType, PtxPhase
  <2>4. \/ \E n \in 0 .. MaxRetries : st' = [s EXCEPT !.retry_count = n]
        \/ st' = [s EXCEPT !.phase = "Done", !.cc1 = FALSE]
    BY <2>1 DEF ConvergedTimeout
  <2> HIDE DEF s
  <2>5. st' \in StType
    BY <2>3, <2>4
  <2>6. /\ pool' \in [Buf -> BufState] /\ rx_queue' \in Seq(Buf)
        /\ sm' \in SmType /\ rf' \in RadioType
    BY <2>1, MachineType
  <2> QED
    BY <1>1, <2>5, <2>6 DEF TypeOK
<1>4. ~ConvergedTimeout => UNCHANGED <<pool, rx_queue, sm>>
  BY DEF RadioSignal, AckTimeout, ConvergedRadio, InlineRadio, InlineTimeout, TsOnRadio,
     smVars
<1>2. ASSUME ~ConvergedTimeout PROVE st' \in StType /\ rf' \in RadioType
  <2>1. CASE ConvergedRadio
    <3>0. /\ [st EXCEPT !.acked = TRUE, !.cc1 = FALSE, !.phase = "Done"] \in StType
          /\ [st EXCEPT !.cc1 = TRUE] \in StType
      BY <1>0 DEF StType, PtxPhase
    <3>1. st' \in StType
      BY <1>0, <2>1, <3>0 DEF ConvergedRadio, TypeOK, SmType
    <3>2. rf' \in RadioType
      BY <1>0, <2>1, RadioOpsType DEF ConvergedRadio
    <3> QED
      BY <3>1, <3>2
  <2>2. CASE InlineTxEnd
    <3>1. st' \in StType
      BY <1>0, <2>2 DEF InlineTxEnd, StType, PtxPhase
    <3> QED
      BY <1>0, <2>2, <3>1, RadioOpsType DEF InlineTxEnd
  <2>3. CASE InlineReceived
    <3> DEFINE s == [st EXCEPT !.acked = TRUE, !.cc1 = FALSE, !.phase = "Done"]
    <3>1. s \in StType
      BY <1>0 DEF StType, PtxPhase
    <3>2. \A d, p \in {"near", "far"} : ObserveHint(s, d, p) \in StType
      BY <3>1, GateType
    <3>3. [ObserveMiss(st) EXCEPT !.phase = "Done"] \in StType
      <4>1. ObserveMiss(st) \in StType
        BY <1>0, GateType
      <4> QED
        BY <4>1 DEF StType, PtxPhase
    <3>4. \/ st' = s \/ \E d, p \in {"near", "far"} : st' = ObserveHint(s, d, p)
          \/ st' = [ObserveMiss(st) EXCEPT !.phase = "Done"]
      BY <2>3 DEF InlineReceived
    <3>5. rf' \in RadioType
      BY <1>0, <2>3, RadioOpsType DEF InlineReceived
    <3> QED
      BY <3>1, <3>2, <3>3, <3>4, <3>5
  <2>4. CASE InlineTimeout
    <3>1. ObserveMiss(st) \in StType
      BY <1>0, GateType
    <3>2. ObserveMiss(st).retry_count = st.retry_count
      BY <1>0 DEF ObserveMiss, Unlock, StType
    <3>3. CASE st.retry_count < MaxRetries
      <4>1. st.retry_count + 1 \in 0 .. MaxRetries
        BY <1>0, <3>3, TimeslotPtxAssumption DEF StType
      <4>2. [ObserveMiss(st) EXCEPT !.retry_count = @ + 1, !.phase = "Tx"] \in StType
        BY <3>1, <3>2, <4>1 DEF StType, PtxPhase
      <4>3. Transmit(Stop(rf)) \in RadioType
        BY <1>0, RadioOpsType
      <4> QED
        BY <2>4, <3>3, <4>2, <4>3 DEF InlineTimeout
    <3>4. CASE ~(st.retry_count < MaxRetries)
      <4>1. [ObserveMiss(st) EXCEPT !.phase = "Done", !.cc1 = FALSE] \in StType
        BY <3>1 DEF StType, PtxPhase
      <4>2. Stop(rf) \in RadioType
        BY <1>0, RadioOpsType
      <4> QED
        BY <2>4, <3>4, <4>1, <4>2 DEF InlineTimeout
    <3> QED
      BY <3>3, <3>4
  <2>5. CASE UNCHANGED <<st, rf>>
    BY <1>0, <2>5
  <2> QED
    BY <1>2, <2>1, <2>2, <2>3, <2>4, <2>5 DEF RadioSignal, AckTimeout, InlineRadio
<1>5. CASE ~ConvergedTimeout
  BY <1>1, <1>2, <1>4, <1>5 DEF TypeOK
<1> QED
  BY <1>3, <1>5

\* What a slot's end leads to is a state and a request.
LEMMA SlotActionType ==
  ASSUME TypeOK, NEW s \in StType, SlotAction(s)
  PROVE  /\ st' \in StType /\ mpsl' \in {"closed", "idle", "requested", "slot"}
         /\ idle_due' \in BOOLEAN
<1>1. EventEnds(s) \in StType /\ PollEnds(s) \in StType
  BY SlotOpsType
<1>2. NextPollRequest(PollEnds(s)) \in StType
  BY <1>1, GateType
<1>3. [s EXCEPT !.done = TRUE] \in StType
  BY DEF StType
<1>4. st' \in {EventEnds(s), NextPollRequest(PollEnds(s)), s, [s EXCEPT !.done = TRUE]}
  BY DEF SlotAction
<1>5. mpsl' \in {"idle", "requested"} /\ idle_due' \in BOOLEAN
  BY DEF SlotAction, Requested, TypeOK
<1> QED
  BY <1>1, <1>2, <1>3, <1>4, <1>5

\* The end of a slot keeps the types.
LEMMA SlotEndsType == TypeOK /\ SlotEnds => TypeOK'
<1> SUFFICES ASSUME TypeOK, SlotEnds PROVE TypeOK'
  OBVIOUS
<1> DEFINE s == [st EXCEPT !.cc1 = FALSE, !.phase = IF Basic THEN @ ELSE "Done"]
<1>1. s \in StType
  BY DEF TypeOK, StType, PtxPhase
<1>2. SlotAction(s)
  BY DEF SlotEnds
<1>3. /\ st' \in StType /\ mpsl' \in {"closed", "idle", "requested", "slot"}
      /\ idle_due' \in BOOLEAN
  BY <1>1, <1>2, SlotActionType
<1>4. /\ pool' \in [Buf -> BufState] /\ rx_queue' \in Seq(Buf)
      /\ sm' \in SmType
      /\ rf' \in RadioType
  <2>1. CASE TsForceStop
    BY <2>1, MachineType
  <2>2. CASE UNCHANGED smVars /\ rf' \in {Stop(rf), rf}
    BY <2>2, RadioOpsType DEF smVars, TypeOK
  <2> QED
    BY <2>1, <2>2 DEF SlotEnds, StopEngine
<1>5. /\ answer' \in BOOLEAN /\ lapses' \subseteq {"overstayed", "driver"}
      /\ UNCHANGED <<closing, pended, delivered, owned, sending>>
  BY DEF SlotEnds, TypeOK
<1> QED
  BY <1>3, <1>4, <1>5 DEF TypeOK

\* The other signals keep the types.
LEMMA SignalsType ==
  ASSUME TypeOK,
         Overstayed \/ BasicOverstayed \/ Blocked \/ BasicBlocked \/ SessionIdle
         \/ InvalidReturn \/ SessionClosed
  PROVE  TypeOK'
<1>0. st \in StType
  BY DEF TypeOK
<1>1. \A x \in StType :
        /\ Unlock(x) \in StType /\ Earliest(x) \in StType
        /\ Earliest(Unlock(x)) \in StType
        /\ [x EXCEPT !.done = TRUE] \in StType
        /\ [x EXCEPT !.report_ready = TRUE] \in StType
        /\ [x EXCEPT !.report_ready = TRUE, !.done = TRUE] \in StType
  <2>1. ASSUME NEW x \in StType
        PROVE  Unlock(x) \in StType /\ Earliest(x) \in StType /\ Earliest(Unlock(x)) \in StType
    BY GateType
  <2>2. ASSUME NEW x \in StType
        PROVE  /\ [x EXCEPT !.done = TRUE] \in StType
               /\ [x EXCEPT !.report_ready = TRUE] \in StType
               /\ [x EXCEPT !.report_ready = TRUE, !.done = TRUE] \in StType
    BY DEF StType
  <2> QED
    BY <2>1, <2>2
<1>2. CASE Overstayed
  <2> DEFINE s == [st EXCEPT !.phase = "Idle"]
  <2>1. s \in StType
    BY <1>0 DEF StType, PtxPhase
  <2>2. st' \in {Earliest(Unlock(s)), OverstayedEnds(s)}
    BY <1>2 DEF Overstayed
  <2>3. st' \in StType
    BY <1>1, <2>1, <2>2, SlotOpsType
  <2>4. mpsl' \in {"idle", "requested"} /\ idle_due' \in BOOLEAN
    BY <1>2 DEF Overstayed, Requested, TypeOK
  <2>5. /\ pool' \in [Buf -> BufState] /\ rx_queue' \in Seq(Buf)
        /\ sm' \in SmType
        /\ rf' \in RadioType
    <3>1. CASE TsForceStop
      BY <3>1, MachineType
    <3>2. CASE UNCHANGED <<smVars, rf>>
      BY <3>2 DEF smVars, TypeOK
    <3> QED
      BY <1>2, <3>1, <3>2 DEF Overstayed
  <2>6. /\ lapses' \subseteq {"overstayed", "driver"}
        /\ UNCHANGED <<closing, pended, answer, delivered, owned, sending>>
    BY <1>2 DEF Overstayed, airVars, TypeOK
  <2> QED
    BY <2>3, <2>4, <2>5, <2>6 DEF TypeOK
<1>3. CASE BasicOverstayed \/ Blocked \/ BasicBlocked \/ SessionIdle \/ InvalidReturn
           \/ SessionClosed
  <2>1. /\ UNCHANGED <<pool, rx_queue, sm, rf, pended, answer, delivered, owned, sending,
                      lapses>>
        /\ closing' \in BOOLEAN
    BY <1>3 DEF BasicOverstayed, Blocked, BasicBlocked, SessionIdle, InvalidReturn,
       SessionClosed, smVars, airVars, taskVars, TypeOK
  <2>2. mpsl' \in {"closed", "idle", "requested", "slot"} /\ idle_due' \in BOOLEAN
    BY <1>3 DEF BasicOverstayed, Blocked, BasicBlocked, SessionIdle, InvalidReturn,
       SessionClosed, Rerequest, TypeOK
  <2>3. st' \in StType
    <3>1. CASE BasicOverstayed \/ InvalidReturn \/ SessionClosed
      BY <1>0, <1>1, <3>1 DEF BasicOverstayed, InvalidReturn, SessionClosed
    <3>2. CASE Blocked
      <4> DEFINE s == Earliest(IF st.locked THEN Unlock(st) ELSE st)
      <4>1. s \in StType
        BY <1>0, <1>1
      <4>2. st' \in {s, [s EXCEPT !.done = TRUE]}
        BY <3>2 DEF Blocked, Rerequest
      <4> QED
        BY <1>1, <4>1, <4>2
    <3>3. CASE BasicBlocked
      BY <1>0, <1>1, <3>3 DEF BasicBlocked, Rerequest
    <3>4. CASE SessionIdle
      <4> DEFINE s == Earliest(IF st.gate = "lock" THEN Unlock(st) ELSE st)
      <4>1. s \in StType
        BY <1>0, <1>1
      <4>2. st' \in {st, [s EXCEPT !.report_ready = TRUE],
                     [s EXCEPT !.report_ready = TRUE, !.done = TRUE]}
        BY <3>4 DEF SessionIdle
      <4> HIDE DEF s
      <4> QED
        BY <1>0, <1>1, <4>1, <4>2
    <3> QED
      BY <1>3, <3>1, <3>2, <3>3, <3>4
  <2> QED
    BY <2>1, <2>2, <2>3 DEF TypeOK
<1> QED
  BY <1>2, <1>3

\* Opening and closing a session keeps the types.
LEMMA SessionType ==
  ASSUME TypeOK,
         \/ \E gate \in Gates : OpenPollSession(gate)
         \/ OpenEventSession \/ (\E mode \in RunModes : RunSlots(mode))
         \/ DropSession \/ RunReturns \/ DropRun
  PROVE  TypeOK'
<1>1. CASE \/ \E gate \in Gates : OpenPollSession(gate)
           \/ OpenEventSession \/ \E mode \in RunModes : RunSlots(mode)
  <2>1. PICK mode \in RunModes \cup {"poll", "event"}, gate \in {"off", "skip", "lock"} :
          Opens(mode, gate)
    BY <1>1, TimeslotPtxAssumption DEF OpenPollSession, OpenEventSession, RunSlots
  <2>2. st' \in StType
    BY <2>1, FreshType DEF Opens
  <2>3. mpsl' \in {"idle", "requested"}
    BY <1>1 DEF OpenPollSession, OpenEventSession, RunSlots
  <2>4. /\ UNCHANGED <<pool, rx_queue, sm, closing, idle_due, rf, pended, answer, delivered,
                      sending, lapses>>
        /\ owned' \in BOOLEAN
    BY <2>1 DEF Opens, smVars, airVars
  <2> QED
    BY <2>2, <2>3, <2>4 DEF TypeOK
<1>2. CASE DropSession \/ RunReturns \/ DropRun
  <2>1. /\ UNCHANGED <<pool, rx_queue, sm, mpsl, idle_due, rf, pended, answer, delivered,
                      sending>>
        /\ owned' \in BOOLEAN /\ closing' \in BOOLEAN
    BY <1>2 DEF DropSession, RunReturns, DropRun, CloseRun, smVars, airVars
  <2>2. lapses' \subseteq {"overstayed", "driver"}
    BY <1>2 DEF DropSession, RunReturns, DropRun, CloseRun, TypeOK
  <2>3. st \in StType /\ [st EXCEPT !.driver = FALSE, !.pending = FALSE] \in StType
    BY DEF TypeOK, StType
  <2>4. st' \in StType
    BY <1>2, <2>3 DEF DropSession, RunReturns, DropRun, CloseRun
  <2> QED
    BY <2>1, <2>2, <2>4 DEF TypeOK
<1> QED
  BY <1>1, <1>2

\* The calls made with an open session keep the types.
LEMMA CallsType ==
  ASSUME TypeOK, SetPtxDriver \/ QueuePacket \/ Send \/ SendReturns \/ NextReport
  PROVE  TypeOK'
<1>0. st \in StType
  BY DEF TypeOK
<1>1. /\ UNCHANGED <<rx_queue, sm, closing, idle_due, rf, answer, owned, lapses>>
      /\ mpsl' \in {"closed", "idle", "requested", "slot"}
      /\ pended' \in BOOLEAN /\ delivered' \in BOOLEAN /\ sending' \in BOOLEAN
  BY DEF SetPtxDriver, QueuePacket, Send, SendReturns, NextReport, InSlot, TypeOK,
     mpslVars, smVars, airVars, taskVars
<1>2. pool' \in [Buf -> BufState]
  <2>1. CASE QueuePacket
    <3>1. PICK i \in AllocTxChoice(pool) : pool' = EnqueueTx(AllocTx(pool, i), i)
      BY <2>1 DEF QueuePacket
    <3>2. AllocTx(pool, i) \in [Buf -> BufState]
      BY PoolOpsType DEF TypeOK
    <3> QED
      BY <3>1, <3>2, PoolOpsType
  <2>2. CASE SetPtxDriver \/ Send \/ SendReturns \/ NextReport
    BY <2>2 DEF SetPtxDriver, Send, SendReturns, NextReport, smVars, TypeOK
  <2> QED
    BY <2>1, <2>2
<1>3. st' \in StType
  <2>1. CASE SetPtxDriver \/ NextReport \/ QueuePacket
    <3>1. /\ [st EXCEPT !.driver = TRUE] \in StType
          /\ [st EXCEPT !.report_ready = FALSE] \in StType
      BY <1>0 DEF StType
    <3> QED
      BY <1>0, <2>1, <3>1 DEF SetPtxDriver, NextReport, QueuePacket
  <2>2. CASE SendReturns
    <3>1. [st EXCEPT !.result_ready = FALSE, !.pending = FALSE] \in StType
      BY <1>0 DEF StType
    <3> QED
      BY <1>0, <2>2, <3>1 DEF SendReturns
  <2>3. CASE Send
    <3> DEFINE s == [st EXCEPT !.pending = TRUE, !.result_ready = FALSE, !.ack_ok = FALSE,
                               !.done = FALSE]
    <3>1. s \in StType
      BY <1>0 DEF StType
    <3>2. [s EXCEPT !.pending = FALSE] \in StType
      BY <3>1 DEF StType
    <3>3. st' \in {s, [s EXCEPT !.pending = FALSE]}
      BY <2>3 DEF Send
    <3> QED
      BY <3>1, <3>2, <3>3
  <2> QED
    BY <2>1, <2>2, <2>3
<1> QED
  BY <1>1, <1>2, <1>3 DEF TypeOK

\* The radio and the peer keep the types.
LEMMA AirType == TypeOK /\ Air => TypeOK'
<1> SUFFICES ASSUME TypeOK, Air PROVE TypeOK'
  OBVIOUS
<1>1. UNCHANGED <<mpsl, closing, idle_due, st, pool, rx_queue, sm, pended, owned, sending,
                  lapses>>
  BY DEF Air, mpslVars, smVars, taskVars
<1>2. rf' \in RadioType
  <2>1. rf \in RadioType
    BY DEF TypeOK
  <2>2. CASE TxEnds
    BY <2>1, <2>2 DEF TxEnds, RadioType
  <2>3. CASE AckEnds
    BY <2>1, <2>3 DEF AckEnds, RadioType
  <2> QED
    BY <2>2, <2>3 DEF Air
<1>3. answer' \in BOOLEAN /\ delivered' \in BOOLEAN
  BY DEF Air, TxEnds, AckEnds, TypeOK
<1> QED
  BY <1>1, <1>2, <1>3 DEF TypeOK

\* Every step keeps the types.
LEMMA NextType == TypeOK /\ [Next]_vars => TypeOK'
<1> SUFFICES ASSUME TypeOK, [Next]_vars PROVE TypeOK'
  OBVIOUS
<1>1. CASE Mpsl
  BY <1>1, StartType, RadioSignalType, SlotEndsType, SignalsType DEF Mpsl
<1>2. CASE Task
  BY <1>2, SessionType, CallsType DEF Task
<1>3. CASE Air
  BY <1>3, AirType
<1>4. CASE UNCHANGED vars
  BY <1>4 DEF vars, mpslVars, smVars, airVars, taskVars, TypeOK
<1> QED
  BY <1>1, <1>2, <1>3, <1>4 DEF Next

\* Every variable of the timeslot sessions keeps its type.
THEOREM TimeslotPtxTypeCorrect == Spec => []TypeOK
<1>1. Init => TypeOK
  BY InitType
<1>2. TypeOK /\ [Next]_vars => TypeOK'
  BY NextType
<1> QED
  BY <1>1, <1>2, PTL DEF Spec

-----------------------------------------------------------------------------
(* The inductive invariant                                                 *)

\* What only a poll session has, what only an event session has, and what the
\* sessions without a protocol never have; a NORMAL request is a locked one.
ModeInv ==
  /\ st.mode # "poll" =>
       st.kind = "earliest" /\ ~st.driver /\ st.gate = "off" /\ st.skip = 0
  /\ st.mode # "event" => ~st.result_ready
  /\ Basic => st.phase = "Idle"
  /\ mpsl = "requested" /\ st.kind = "normal" => st.locked

\* Without a lapse the radio is off unless an engine is at work in the slot.
QuietInv ==
  lapses = {} /\ ~(InSlot /\ (st.driver \/ st.phase \in {"Tx", "WaitAck"}))
    => rf.mode = "off" /\ ~RadioLine

\* Where an acknowledgement comes from: an answer is heard in its slot by the
\* reception it belongs to, and a send is waiting while its slot lasts.
AckInv ==
  /\ rf.mode = "tx" => ~rf.disabled
  /\ st.mode = "event" /\ mpsl \in {"slot", "requested"}
       => sending /\ ~st.done /\ ~st.result_ready
  /\ InSlot /\ answer => delivered
  /\ InSlot /\ st.mode = "event" /\ st.phase = "WaitAck" =>
       rf.mode # "tx" /\ (rf.disabled /\ rf.crcok => delivered)
  /\ InSlot /\ st.mode = "event" /\ st.acked => delivered
  /\ AckOkIsDelivered

PtxInv == TypeOK /\ ModeInv /\ QuietInv /\ AckInv

\* The fields that the schedule gate and the counters leave alone
Same(s, t) ==
  /\ t.mode = s.mode /\ t.gate = s.gate /\ t.driver = s.driver /\ t.phase = s.phase
  /\ t.done = s.done /\ t.acked = s.acked /\ t.ack_ok = s.ack_ok

-----------------------------------------------------------------------------
\* The schedule gate leaves the transaction alone; it makes a NORMAL request
\* of a locked session only.
LEMMA GateSame ==
  ASSUME NEW s \in StType, NEW d \in {"near", "far"}, NEW p \in {"near", "far"}
  PROVE  /\ \A t \in {Unlock(s), Earliest(s), Earliest(Unlock(s)), ObserveMiss(s),
                      NextPollRequest(s)} :
              Same(s, t) /\ t.skip = s.skip /\ t.result_ready = s.result_ready
         /\ Earliest(s).kind = "earliest" /\ Earliest(Unlock(s)).kind = "earliest"
         /\ ObserveMiss(s).kind = s.kind
         /\ NextPollRequest(s).kind = "normal" => NextPollRequest(s).locked
         /\ LET t == ObserveHint(s, d, p) IN
              /\ Same(s, t) /\ t.kind = s.kind /\ t.result_ready = s.result_ready
              /\ s.gate = "off" => t.skip = s.skip
<1> USE DEF Same
<1>1. ASSUME NEW x \in StType
      PROVE  /\ Same(x, Unlock(x)) /\ Unlock(x).skip = x.skip
             /\ Unlock(x).result_ready = x.result_ready /\ Unlock(x).kind = x.kind
             /\ Same(x, Earliest(x)) /\ Earliest(x).skip = x.skip
             /\ Earliest(x).result_ready = x.result_ready
             /\ Earliest(x).kind = "earliest" /\ Earliest(x).locked = x.locked
  <2>1. /\ Same(x, Unlock(x)) /\ Unlock(x).skip = x.skip
        /\ Unlock(x).result_ready = x.result_ready /\ Unlock(x).kind = x.kind
    BY DEF Unlock, StType
  <2>2. /\ Same(x, Earliest(x)) /\ Earliest(x).skip = x.skip
        /\ Earliest(x).result_ready = x.result_ready
        /\ Earliest(x).kind = "earliest" /\ Earliest(x).locked = x.locked
    BY DEF Earliest, StType
  <2> QED
    BY <2>1, <2>2
<1>2. Unlock(s) \in StType
  BY GateType
<1>3. /\ Same(s, Earliest(Unlock(s))) /\ Earliest(Unlock(s)).skip = s.skip
      /\ Earliest(Unlock(s)).result_ready = s.result_ready
      /\ Earliest(Unlock(s)).kind = "earliest"
  BY <1>1, <1>2
<1>4. /\ Same(s, ObserveMiss(s)) /\ ObserveMiss(s).skip = s.skip
      /\ ObserveMiss(s).result_ready = s.result_ready /\ ObserveMiss(s).kind = s.kind
  <2>1. CASE ObserveMiss(s) = s
    BY <2>1
  <2>2. CASE ObserveMiss(s) = Unlock(s)
    BY <1>1, <2>2
  <2>3. CASE ObserveMiss(s) = [s EXCEPT !.misses = @ + 1]
    BY <2>3 DEF StType
  <2> QED
    BY <2>1, <2>2, <2>3 DEF ObserveMiss
<1>5. LET t == NextPollRequest(s) IN
        /\ Same(s, t) /\ t.skip = s.skip /\ t.result_ready = s.result_ready
        /\ t.kind = "normal" => t.locked
  <2>1. CASE NextPollRequest(s) \in {Earliest(s), Earliest(Unlock(s))}
    BY <1>1, <1>3, <2>1
  <2>2. CASE s.locked /\ NextPollRequest(s) = [s EXCEPT !.kind = "normal", !.distance = "none"]
    BY <2>2 DEF StType
  <2> QED
    BY <2>1, <2>2 DEF NextPollRequest
<1>6. LET t == ObserveHint(s, d, p) IN
        /\ Same(s, t) /\ t.kind = s.kind /\ t.result_ready = s.result_ready
        /\ s.gate = "off" => t.skip = s.skip
  <2>1. CASE s.gate = "off"
    BY <2>1 DEF ObserveHint
  <2>2. CASE s.gate = "skip"
    BY <2>2 DEF ObserveHint, StType
  <2>3. CASE s.gate = "lock"
    BY <2>3 DEF ObserveHint, StType
  <2> QED
    BY <2>1, <2>2, <2>3 DEF StType
<1> QED
  BY <1>1, <1>3, <1>4, <1>5, <1>6

\* Nor do the counters touch it, but for the report.
LEMMA CountersSame ==
  ASSUME NEW s \in StType
  PROVE  \A t \in {CountStart(s), PollEnds(s)} :
           /\ Same(s, t) /\ t.skip = s.skip /\ t.result_ready = s.result_ready
           /\ t.kind = s.kind /\ t.locked = s.locked
<1> USE DEF Same
<1>1. LET t == CountStart(s) IN
        /\ Same(s, t) /\ t.skip = s.skip /\ t.result_ready = s.result_ready
        /\ t.kind = s.kind /\ t.locked = s.locked
  BY DEF CountStart, StType
<1>2. LET t == PollEnds(s) IN
        /\ Same(s, t) /\ t.skip = s.skip /\ t.result_ready = s.result_ready
        /\ t.kind = s.kind /\ t.locked = s.locked
  BY DEF PollEnds, StType
<1> QED
  BY <1>1, <1>2

\* No session is open at first.
LEMMA InvInit == Init => PtxInv
<1> SUFFICES ASSUME Init PROVE PtxInv
  OBVIOUS
<1>1. TypeOK
  BY InitType
<1>2. /\ st.mode = "finite" /\ st.kind = "earliest" /\ ~st.driver /\ st.gate = "off"
      /\ st.skip = 0 /\ ~st.result_ready /\ st.phase = "Idle"
  BY DEF Init, NewTimeslotDriver, FreshState
<1>3. ModeInv
  BY <1>2 DEF ModeInv
<1>4. QuietInv
  BY DEF Init, NewTimeslotDriver, QuietInv, RadioOff, RadioLine
<1>5. AckInv
  BY <1>2 DEF Init, NewTimeslotDriver, AckInv, RadioOff, InSlot, AckOkIsDelivered
<1> QED
  BY <1>1, <1>3, <1>4, <1>5 DEF PtxInv

\* What the start of a slot does to a transaction: nothing, or a transmission
\* begins and its acknowledgement is open.
LEMMA StartEffect ==
  ASSUME PtxInv, Start
  PROVE  /\ mpsl = "requested" /\ ~answer' /\ UNCHANGED sending
         /\ st'.mode = st.mode /\ st'.gate = st.gate /\ st'.driver = st.driver
         /\ st'.done = st.done /\ st'.ack_ok = st.ack_ok
         /\ st'.result_ready = st.result_ready /\ st'.kind = st.kind
         /\ st.mode # "poll" => st'.skip = st.skip
         /\ \/ /\ mpsl' = "idle" /\ UNCHANGED <<st, rf, delivered, lapses>>
            \/ /\ mpsl' = "slot" /\ Basic /\ st'.phase = st.phase
               /\ UNCHANGED <<rf, delivered, lapses>>
            \/ /\ mpsl' = "slot" /\ st.mode = "poll" /\ st'.phase = "Done"
               /\ UNCHANGED <<rf, delivered, lapses>>
            \/ /\ mpsl' = "slot" /\ ~Basic /\ st'.phase = "Tx" /\ ~st'.acked
               /\ rf' = RadioOff \/ rf' = Transmit(RadioOff)
               /\ delivered' => delivered /\ st.mode = "event"
               /\ delivered /\ st.mode = "event" => delivered'
<1>1. st \in StType /\ TypeOK /\ ModeInv
  BY DEF PtxInv, TypeOK
<1> DEFINE c == CountStart(st)
           t == SlotState(c)
           u == [c EXCEPT !.skip = @ - 1, !.phase = "Done", !.cc1 = FALSE]
<1>2. /\ c \in StType /\ Same(st, c) /\ c.skip = st.skip
      /\ c.result_ready = st.result_ready /\ c.kind = st.kind
  BY <1>1, CountersSame, SlotOpsType
<1>3. /\ t.mode = st.mode /\ t.gate = st.gate /\ t.driver = st.driver /\ t.done = st.done
      /\ t.ack_ok = st.ack_ok /\ t.result_ready = st.result_ready /\ t.kind = st.kind
      /\ t.skip = st.skip /\ t.phase = "Tx" /\ t.acked = FALSE
  BY <1>2 DEF SlotState, Same, StType
<1>4. /\ u.mode = st.mode /\ u.gate = st.gate /\ u.driver = st.driver /\ u.done = st.done
      /\ u.ack_ok = st.ack_ok /\ u.result_ready = st.result_ready /\ u.kind = st.kind
      /\ u.phase = "Done"
  BY <1>2 DEF Same, StType
<1>5. mpsl = "requested" /\ ~answer' /\ UNCHANGED sending
  BY DEF Start
<1>6. CASE NothingPending
  BY <1>5, <1>6 DEF Start
<1>7. CASE ~NothingPending
  <2>1. mpsl' = "slot"
    BY <1>7 DEF Start
  <2>2. st.skip > 0 \/ st.skip = 0
    BY <1>1, Counters DEF StType
  <2>3. st.driver \in BOOLEAN
    BY <1>1 DEF StType
  <2>4. TRUE =>
          CASE Basic -> BasicStart
            [] ~Basic /\ st.skip > 0 -> SkippedStart
            [] ~Basic /\ st.skip = 0 /\ st.driver -> ConvergedStart
            [] ~Basic /\ st.skip = 0 /\ ~st.driver -> InlineStart
    BY <1>7 DEF Start
  <2>5. CASE Basic /\ BasicStart
    <3>1. st' = c /\ UNCHANGED <<rf, delivered, lapses>>
      BY <2>5 DEF BasicStart
    <3>2. st'.phase = st.phase
      BY <1>2, <3>1 DEF Same
    <3> HIDE DEF c
    <3> QED
      BY <1>2, <1>5, <2>1, <2>5, <3>1, <3>2 DEF Same
  <2>6. CASE SkippedStart /\ st.skip > 0
    <3>1. st' = u /\ UNCHANGED <<rf, delivered, lapses>>
      BY <2>6 DEF SkippedStart
    <3>2. st.mode = "poll"
      BY <1>1, <2>6 DEF ModeInv
    <3> HIDE DEF u
    <3> QED
      BY <1>4, <1>5, <2>1, <3>1, <3>2
  <2>7. CASE ConvergedStart /\ st.driver /\ ~Basic
    <3>0. [RadioOff EXCEPT !.inten = FALSE] = RadioOff
      <4>1. RadioOff.inten = FALSE
        BY DEF RadioOff
      <4> QED
        BY <4>1, RadioOffType DEF RadioType
    <3>1. TsStartTx
      BY <2>7 DEF ConvergedStart
    <3>3. rf' = RadioOff \/ rf' = Transmit(RadioOff)
      BY <3>0, <3>1 DEF TsStartTx, SendNext
    <3>4. st' = t /\ delivered' = FALSE
      BY <2>7 DEF ConvergedStart
    <3>2. st.mode = "poll"
      BY <1>1, <2>7 DEF ModeInv
    <3> HIDE DEF t
    <3> QED
      BY <1>3, <1>5, <2>1, <2>7, <3>2, <3>3, <3>4
  <2>8. CASE InlineStart /\ ~Basic
    <3>1. /\ st' = t /\ delivered' = (delivered /\ st.mode = "event")
          /\ rf' = Transmit(RadioOff)
      BY <2>8 DEF InlineStart
    <3> HIDE DEF t
    <3> QED
      BY <1>3, <1>5, <2>1, <2>8, <3>1
  <2>9. \/ Basic /\ BasicStart
        \/ SkippedStart /\ st.skip > 0
        \/ ConvergedStart /\ st.driver /\ ~Basic
        \/ InlineStart /\ ~Basic
    BY <2>2, <2>3, <2>4
  <2> QED
    BY <2>5, <2>6, <2>7, <2>8, <2>9
<1> QED
  BY <1>6, <1>7

\* The start of a slot keeps the invariant.
LEMMA StartInv ==
  ASSUME PtxInv, Start
  PROVE  ModeInv' /\ QuietInv' /\ AckInv'
<1>1. /\ TypeOK /\ ModeInv /\ QuietInv /\ AckInv
      /\ st \in StType /\ delivered \in BOOLEAN
  BY DEF PtxInv, TypeOK
<1>2. /\ mpsl = "requested" /\ ~answer' /\ UNCHANGED sending
      /\ st'.mode = st.mode /\ st'.gate = st.gate /\ st'.driver = st.driver
      /\ st'.done = st.done /\ st'.ack_ok = st.ack_ok
      /\ st'.result_ready = st.result_ready /\ st'.kind = st.kind
      /\ st.mode # "poll" => st'.skip = st.skip
  BY StartEffect
<1>3. (Basic' <=> Basic) /\ mpsl' # "requested"
  BY <1>2, StartEffect DEF Basic
<1>4. RadioOff.mode = "off" /\ ~RadioOff.disabled /\ ~RadioOff.inten
      /\ ~Transmit(RadioOff).disabled
  BY DEF RadioOff, Transmit
<1>5. CASE mpsl' = "idle" /\ UNCHANGED <<st, rf, delivered, lapses>>
  <2>1. ModeInv'
    BY <1>1, <1>3, <1>5 DEF ModeInv
  <2>2. QuietInv'
    BY <1>1, <1>2, <1>5 DEF QuietInv, InSlot, RadioLine
  <2>3. AckInv'
    BY <1>1, <1>5 DEF AckInv, InSlot, AckOkIsDelivered
  <2> QED
    BY <2>1, <2>2, <2>3
<1>6. CASE /\ mpsl' = "slot" /\ Basic /\ st'.phase = st.phase
           /\ UNCHANGED <<rf, delivered, lapses>>
  <2>0. st.phase = "Idle" /\ ~st.driver /\ st.mode # "poll" /\ st.mode # "event"
    BY <1>1, <1>6 DEF ModeInv, Basic
  <2>1. ModeInv'
    BY <1>1, <1>2, <1>3, <1>6 DEF ModeInv
  <2>2. QuietInv'
    BY <1>1, <1>2, <1>6 DEF QuietInv, InSlot, RadioLine
  <2>3. AckInv'
    BY <1>1, <1>2, <1>6, <2>0 DEF AckInv, InSlot, AckOkIsDelivered, ModeInv
  <2> QED
    BY <2>1, <2>2, <2>3
<1>7. CASE /\ mpsl' = "slot" /\ st.mode = "poll" /\ st'.phase = "Done"
           /\ UNCHANGED <<rf, delivered, lapses>>
  <2>0. ~Basic
    BY <1>7 DEF Basic
  <2>1. ModeInv'
    BY <1>1, <1>2, <1>3, <1>7, <2>0 DEF ModeInv
  <2>2. QuietInv'
    BY <1>1, <1>2, <1>7 DEF QuietInv, InSlot, RadioLine
  <2>3. AckInv'
    BY <1>1, <1>2, <1>7 DEF AckInv, InSlot, AckOkIsDelivered, ModeInv
  <2> QED
    BY <2>1, <2>2, <2>3
<1>8. CASE /\ mpsl' = "slot" /\ ~Basic /\ st'.phase = "Tx" /\ ~st'.acked
           /\ rf' = RadioOff \/ rf' = Transmit(RadioOff)
           /\ delivered' => delivered /\ st.mode = "event"
           /\ delivered /\ st.mode = "event" => delivered'
  <2>1. ModeInv'
    BY <1>1, <1>2, <1>3, <1>8 DEF ModeInv
  <2>2. QuietInv'
    BY <1>8 DEF QuietInv, InSlot
  <2>3. AckInv'
    BY <1>1, <1>2, <1>4, <1>8 DEF AckInv, InSlot, AckOkIsDelivered, ModeInv
  <2> QED
    BY <2>1, <2>2, <2>3
<1> QED
  BY <1>5, <1>6, <1>7, <1>8, StartEffect

\* What a step within a slot of a live engine keeps of the invariant: it need
\* only look at the radio and at the acknowledgement.
LEMMA InSlotInv ==
  ASSUME PtxInv, InSlot, ~Basic,
         UNCHANGED <<mpsl, sending, lapses, delivered>>, answer' => answer,
         st'.mode = st.mode, st'.gate = st.gate, st'.driver = st.driver,
         st'.done = st.done, st'.ack_ok = st.ack_ok, st'.kind = st.kind,
         st'.result_ready = st.result_ready, st.gate = "off" => st'.skip = st.skip,
         st.mode = "event" /\ st'.acked => st.acked \/ delivered,
         rf'.mode = "tx" => ~rf'.disabled,
         st.mode = "event" /\ st'.phase = "WaitAck" => rf'.mode # "tx" /\ ~rf'.disabled,
         st.driver \/ st'.phase \in {"Tx", "WaitAck"}
           \/ (rf'.mode = "off" /\ ~rf'.disabled)
  PROVE  ModeInv' /\ QuietInv' /\ AckInv'
<1>1. ModeInv /\ QuietInv /\ AckInv
  BY DEF PtxInv
<1>2. ModeInv'
  BY <1>1 DEF ModeInv, Basic, InSlot
<1>3. QuietInv'
  BY DEF QuietInv, InSlot, RadioLine
<1>4. AckInv'
  BY <1>1 DEF AckInv, InSlot, AckOkIsDelivered
<1> QED
  BY <1>2, <1>3, <1>4

\* What SIGNAL_RADIO under the state machine does to the state of the callback
LEMMA ConvergedRadioEffect ==
  ASSUME TypeOK, ConvergedRadio
  PROVE  /\ st.driver
         /\ \/ st' = [st EXCEPT !.acked = TRUE, !.cc1 = FALSE, !.phase = "Done"]
            \/ st' = [st EXCEPT !.cc1 = TRUE]
            \/ st' = st
         /\ rf' = [rf EXCEPT !.disabled = FALSE, !.crcok = FALSE]
<1>1. st.driver /\ rf' = [rf EXCEPT !.disabled = FALSE, !.crcok = FALSE]
  BY DEF ConvergedRadio
<1>2. CASE sm.state \in {"Idle", "Tx"}
  BY <1>1, <1>2 DEF ConvergedRadio
<1>3. CASE sm.state = "WaitAck"
  BY <1>1, <1>3 DEF ConvergedRadio
<1>4. CASE sm.state = "WaitRetransmit"
  BY <1>1, <1>4 DEF ConvergedRadio
<1>5. sm.state \in {"Idle", "Tx", "WaitAck", "WaitRetransmit"}
  BY DEF TypeOK, SmType
<1> QED
  BY <1>2, <1>3, <1>4, <1>5

\* The RADIO signal keeps the invariant: a good CRC is an answer of this slot.
LEMMA RadioSignalInv ==
  ASSUME PtxInv, RadioSignal
  PROVE  ModeInv' /\ QuietInv' /\ AckInv'
<1>1. /\ TypeOK /\ ModeInv /\ QuietInv /\ AckInv
      /\ st \in StType /\ rf \in RadioType
  BY DEF PtxInv, TypeOK
<1>2. /\ InSlot /\ UNCHANGED <<mpsl, answer, delivered, sending, lapses>>
  BY DEF RadioSignal, mpslVars, airVars, taskVars
<1>3. /\ Stop(rf).mode = "off" /\ ~Stop(rf).disabled
      /\ PrepareForAck(rf).mode = rf.mode /\ ~PrepareForAck(rf).disabled
      /\ [rf EXCEPT !.disabled = FALSE, !.crcok = FALSE].mode = rf.mode
      /\ ~[rf EXCEPT !.disabled = FALSE, !.crcok = FALSE].disabled
  BY <1>1 DEF Stop, PrepareForAck, RadioType
<1>4. CASE ConvergedRadio
  <2>1. /\ st.driver
        /\ \/ st' = [st EXCEPT !.acked = TRUE, !.cc1 = FALSE, !.phase = "Done"]
           \/ st' = [st EXCEPT !.cc1 = TRUE]
           \/ st' = st
        /\ rf' = [rf EXCEPT !.disabled = FALSE, !.crcok = FALSE]
    BY <1>1, <1>4, ConvergedRadioEffect
  <2>2. /\ st'.mode = st.mode /\ st'.gate = st.gate /\ st'.driver = st.driver
        /\ st'.done = st.done /\ st'.ack_ok = st.ack_ok /\ st'.kind = st.kind
        /\ st'.result_ready = st.result_ready /\ st'.skip = st.skip
    BY <1>1, <2>1 DEF StType
  <2>3. st.mode = "poll"
    BY <1>1, <2>1 DEF ModeInv
  <2> QED
    BY <1>2, <1>3, <2>1, <2>2, <2>3, InSlotInv DEF Basic
<1>5. CASE ~st.driver /\ rf.disabled /\ InlineTxEnd
  <2>1. /\ st.phase = "Tx" /\ st' = [st EXCEPT !.phase = "WaitAck", !.cc1 = TRUE]
        /\ rf' = PrepareForAck(rf)
    BY <1>5 DEF InlineTxEnd
  <2>2. /\ st'.mode = st.mode /\ st'.gate = st.gate /\ st'.driver = st.driver
        /\ st'.done = st.done /\ st'.ack_ok = st.ack_ok /\ st'.kind = st.kind
        /\ st'.result_ready = st.result_ready /\ st'.skip = st.skip
        /\ st'.phase = "WaitAck" /\ st'.acked = st.acked
    BY <1>1, <2>1 DEF StType
  <2>3. ~Basic
    BY <1>1, <2>1 DEF ModeInv
  <2>4. rf.mode # "tx"
    BY <1>1, <1>5 DEF AckInv
  <2> QED
    BY <1>2, <1>3, <1>5, <2>1, <2>2, <2>3, <2>4, InSlotInv
<1>6. CASE ~st.driver /\ rf.disabled /\ InlineReceived
  <2> DEFINE s == [st EXCEPT !.acked = TRUE, !.cc1 = FALSE, !.phase = "Done"]
             m == [ObserveMiss(st) EXCEPT !.phase = "Done"]
  <2>1. /\ st.phase = "WaitAck" /\ rf' = Stop(rf)
        /\ \/ rf.crcok /\ st' = s
           \/ rf.crcok /\ \E d, p \in {"near", "far"} : st' = ObserveHint(s, d, p)
           \/ st' = m
    BY <1>6 DEF InlineReceived
  <2>2. ~Basic
    BY <1>1, <2>1 DEF ModeInv
  <2>3. st.mode = "event" /\ rf.crcok => delivered
    BY <1>1, <1>2, <1>6, <2>1 DEF AckInv
  <2>4. /\ s \in StType /\ s.mode = st.mode /\ s.gate = st.gate /\ s.driver = st.driver
        /\ s.done = st.done /\ s.ack_ok = st.ack_ok /\ s.kind = st.kind
        /\ s.result_ready = st.result_ready /\ s.skip = st.skip /\ s.phase = "Done"
    BY <1>1 DEF StType, PtxPhase
  <2>5. /\ ObserveMiss(st) \in StType /\ Same(st, ObserveMiss(st))
        /\ ObserveMiss(st).skip = st.skip /\ ObserveMiss(st).kind = st.kind
        /\ ObserveMiss(st).result_ready = st.result_ready
    BY <1>1, GateSame, GateType
  <2>6. /\ m.mode = st.mode /\ m.gate = st.gate /\ m.driver = st.driver
        /\ m.done = st.done /\ m.ack_ok = st.ack_ok /\ m.kind = st.kind
        /\ m.result_ready = st.result_ready /\ m.skip = st.skip /\ m.phase = "Done"
        /\ m.acked = st.acked
    BY <2>5 DEF Same, StType
  <2> HIDE DEF s, m
  <2>7. ASSUME NEW d \in {"near", "far"}, NEW p \in {"near", "far"}
        PROVE  LET t == ObserveHint(s, d, p) IN
                 /\ Same(s, t) /\ t.kind = s.kind /\ t.result_ready = s.result_ready
                 /\ s.gate = "off" => t.skip = s.skip
    BY <2>4, GateSame
  <2>8. /\ st'.mode = st.mode /\ st'.gate = st.gate /\ st'.driver = st.driver
        /\ st'.done = st.done /\ st'.ack_ok = st.ack_ok /\ st'.kind = st.kind
        /\ st'.result_ready = st.result_ready /\ st'.phase = "Done"
        /\ st.gate = "off" => st'.skip = st.skip
        /\ st.mode = "event" /\ st'.acked => st.acked \/ delivered
    <3>1. CASE rf.crcok /\ st' = s
      BY <2>3, <2>4, <3>1
    <3>2. CASE rf.crcok /\ \E d, p \in {"near", "far"} : st' = ObserveHint(s, d, p)
      BY <2>3, <2>4, <2>7, <3>2 DEF Same
    <3>3. CASE st' = m
      BY <2>6, <3>3
    <3> QED
      BY <2>1, <3>1, <3>2, <3>3
  <2> QED
    BY <1>2, <1>3, <1>6, <2>1, <2>2, <2>8, InSlotInv
<1>7. CASE UNCHANGED <<st, rf>>
  <2>1. ModeInv'
    BY <1>1, <1>2, <1>7 DEF ModeInv, Basic
  <2>2. QuietInv'
    BY <1>1, <1>2, <1>7 DEF QuietInv, InSlot, RadioLine
  <2>3. AckInv'
    BY <1>1, <1>2, <1>7 DEF AckInv, InSlot, AckOkIsDelivered
  <2> QED
    BY <2>1, <2>2, <2>3
<1> QED
  BY <1>4, <1>5, <1>6, <1>7 DEF RadioSignal, InlineRadio

\* At a timeout the state machine leaves no DISABLED event behind.
LEMMA TsOnTimeoutClears ==
  ASSUME TypeOK, TsOnTimeout
  PROVE  ~rf'.disabled
<1>1. ASSUME NEW r \in RadioType
      PROVE  /\ ~Transmit(r).disabled /\ ~Stop(r).disabled /\ ~PrepareForAck(r).disabled
             /\ [r EXCEPT !.inten = FALSE].disabled = r.disabled
             /\ ~[r EXCEPT !.disabled = FALSE].disabled
  BY DEF Transmit, Stop, PrepareForAck, RadioType
<1>2. ASSUME NEW m, NEW p, NEW r \in RadioType, ~r.disabled, SendNext(m, p, r)
      PROVE  ~rf'.disabled
  <2>1. rf' = Transmit(r) \/ rf' = [r EXCEPT !.inten = FALSE]
    BY <1>2 DEF SendNext
  <2> QED
    BY <1>1, <1>2, <2>1
<1>3. /\ rf \in RadioType /\ Stop(rf) \in RadioType
      /\ [rf EXCEPT !.disabled = FALSE] \in RadioType
  BY RadioOpsType DEF TypeOK
<1>4. CASE SendNext(sm, pool, [rf EXCEPT !.disabled = FALSE])
  BY <1>1, <1>2, <1>3, <1>4
<1>5. CASE TimeoutInTx
  <2>1. rf' = PrepareForAck(rf) \/ rf' = Stop(rf)
    BY <1>5 DEF TimeoutInTx
  <2> QED
    BY <1>1, <1>3, <2>1
<1>6. CASE TimeoutInWaitAck
  BY <1>1, <1>2, <1>3, <1>6 DEF TimeoutInWaitAck
<1>7. CASE rf' = Transmit(rf)
  BY <1>1, <1>3, <1>7
<1> QED
  BY <1>4, <1>5, <1>6, <1>7 DEF TsOnTimeout

\* The ACK timeout keeps the invariant.
LEMMA AckTimeoutInv ==
  ASSUME PtxInv, AckTimeout
  PROVE  ModeInv' /\ QuietInv' /\ AckInv'
<1>1. /\ TypeOK /\ ModeInv /\ AckInv /\ st \in StType /\ rf \in RadioType
  BY DEF PtxInv, TypeOK
<1>2. /\ InSlot /\ UNCHANGED <<mpsl, delivered, sending, lapses>> /\ ~answer'
  BY DEF AckTimeout, mpslVars, taskVars
<1>3. ~Basic
  BY <1>1 DEF AckTimeout, InlineTimeout, ConvergedTimeout, ModeInv, Basic
<1>4. /\ ObserveMiss(st) \in StType /\ Same(st, ObserveMiss(st))
      /\ ObserveMiss(st).skip = st.skip /\ ObserveMiss(st).kind = st.kind
      /\ ObserveMiss(st).result_ready = st.result_ready
  BY <1>1, GateSame, GateType
<1> DEFINE r == [ObserveMiss(st) EXCEPT !.retry_count = @ + 1, !.phase = "Tx"]
           d == [ObserveMiss(st) EXCEPT !.phase = "Done", !.cc1 = FALSE]
<1>5. /\ r.mode = st.mode /\ r.gate = st.gate /\ r.driver = st.driver
      /\ r.done = st.done /\ r.ack_ok = st.ack_ok /\ r.kind = st.kind
      /\ r.result_ready = st.result_ready /\ r.skip = st.skip /\ r.phase = "Tx"
      /\ r.acked = st.acked
  BY <1>4 DEF Same, StType
<1>6. /\ d.mode = st.mode /\ d.gate = st.gate /\ d.driver = st.driver
      /\ d.done = st.done /\ d.ack_ok = st.ack_ok /\ d.kind = st.kind
      /\ d.result_ready = st.result_ready /\ d.skip = st.skip /\ d.phase = "Done"
      /\ d.acked = st.acked
  BY <1>4 DEF Same, StType
<1>7. /\ Stop(rf).mode = "off" /\ ~Stop(rf).disabled /\ ~Transmit(Stop(rf)).disabled
  BY <1>1 DEF Stop, Transmit, RadioType
<1>8. CASE ConvergedTimeout
  <2>1. st.driver /\ st.mode = "poll"
    BY <1>1, <1>8 DEF ConvergedTimeout, ModeInv
  <2>2. ~rf'.disabled
    BY <1>1, <1>8, TsOnTimeoutClears DEF ConvergedTimeout
  <2>3. \/ \E n \in 0 .. MaxRetries : st' = [ObserveMiss(st) EXCEPT !.retry_count = n]
        \/ st' = d
    BY <1>8 DEF ConvergedTimeout
  <2> HIDE DEF d
  <2>4. /\ st'.mode = st.mode /\ st'.gate = st.gate /\ st'.driver = st.driver
        /\ st'.done = st.done /\ st'.ack_ok = st.ack_ok /\ st'.kind = st.kind
        /\ st'.result_ready = st.result_ready /\ st'.skip = st.skip
    <3>1. CASE st' = d
      BY <1>6, <3>1
    <3>2. CASE \E n \in 0 .. MaxRetries : st' = [ObserveMiss(st) EXCEPT !.retry_count = n]
      BY <1>4, <3>2 DEF Same, StType
    <3> QED
      BY <2>3, <3>1, <3>2
  <2> QED
    BY <1>2, <1>3, <2>1, <2>2, <2>4, InSlotInv
<1> HIDE DEF r, d
<1>9. CASE st' = r /\ rf' = Transmit(Stop(rf))
  BY <1>2, <1>3, <1>5, <1>7, <1>9, InSlotInv
<1>10. CASE st' = d /\ rf' = Stop(rf)
  BY <1>2, <1>3, <1>6, <1>7, <1>10, InSlotInv
<1>11. InlineTimeout => \/ st' = r /\ rf' = Transmit(Stop(rf))
                        \/ st' = d /\ rf' = Stop(rf)
  BY DEF InlineTimeout, r, d
<1> QED
  BY <1>8, <1>9, <1>10, <1>11 DEF AckTimeout

\* What a step that leaves or stays out of a slot keeps of the invariant.
LEMMA OutOfSlotInv ==
  ASSUME PtxInv, mpsl' # "slot",
         st'.mode = st.mode, st'.gate = st.gate, st.mode # "poll" => ~st'.driver,
         st.mode # "poll" => st'.skip = st.skip /\ st'.kind = "earliest",
         st.mode # "event" => ~st'.result_ready,
         Basic => st'.phase = st.phase,
         mpsl' = "requested" /\ st'.kind = "normal" => st'.locked,
         lapses' = {} => rf'.mode = "off" /\ ~(rf'.disabled /\ rf'.inten),
         rf'.mode = "tx" => ~rf'.disabled,
         st.mode = "event" /\ mpsl' = "requested"
           => sending' /\ ~st'.done /\ ~st'.result_ready,
         st'.result_ready /\ st'.ack_ok => delivered'
  PROVE  ModeInv' /\ QuietInv' /\ AckInv'
<1>1. ModeInv
  BY DEF PtxInv
<1>2. ModeInv'
  BY <1>1 DEF ModeInv, Basic
<1>3. QuietInv'
  BY DEF QuietInv, RadioLine
<1>4. AckInv'
  BY DEF AckInv, InSlot, AckOkIsDelivered
<1> QED
  BY <1>2, <1>3, <1>4

\* The end of a slot keeps the invariant: an inline engine at work is stopped,
\* and what an event session reports is the ACK of this slot.
LEMMA SlotEndsInv ==
  ASSUME PtxInv, SlotEnds
  PROVE  ModeInv' /\ QuietInv' /\ AckInv'
<1>1. /\ TypeOK /\ ModeInv /\ QuietInv /\ AckInv
      /\ st \in StType /\ rf \in RadioType
  BY DEF PtxInv, TypeOK
<1> DEFINE s == [st EXCEPT !.cc1 = FALSE, !.phase = IF Basic THEN @ ELSE "Done"]
<1>2. /\ InSlot /\ UNCHANGED <<delivered, sending>> /\ SlotAction(s)
      /\ lapses' = {} => ~st.driver /\ lapses = {}
  BY DEF SlotEnds
<1>3. /\ s \in StType /\ s.mode = st.mode /\ s.gate = st.gate /\ s.driver = st.driver
      /\ s.done = st.done /\ s.ack_ok = st.ack_ok /\ s.kind = st.kind
      /\ s.result_ready = st.result_ready /\ s.skip = st.skip /\ s.acked = st.acked
      /\ Basic => s.phase = st.phase
  BY <1>1 DEF StType, PtxPhase
<1>4. Stop(rf).mode = "off" /\ ~Stop(rf).disabled
  BY <1>1 DEF Stop, RadioType
<1>5. /\ lapses' = {} => rf'.mode = "off" /\ ~(rf'.disabled /\ rf'.inten)
      /\ rf'.mode = "tx" => ~rf'.disabled
  <2>1. \/ rf' = Stop(rf)
        \/ rf' = rf /\ (st.driver \/ ~StopsInline)
    BY DEF SlotEnds, StopEngine, TsForceStop
  <2>2. CASE rf' = Stop(rf)
    BY <1>4, <2>2
  <2>3. CASE rf' = rf /\ (st.driver \/ ~StopsInline)
    <3>1. lapses' = {} => rf.mode = "off" /\ ~RadioLine
      BY <1>1, <1>2, <2>3 DEF QuietInv, StopsInline
    <3>2. rf.mode = "tx" => ~rf.disabled
      BY <1>1 DEF AckInv
    <3> QED
      BY <2>3, <3>1, <3>2 DEF RadioLine
  <2> QED
    BY <2>1, <2>2, <2>3
<1> HIDE DEF s
<1>6. CASE s.mode = "event" /\ st' = EventEnds(s) /\ mpsl' = "idle"
  <2>1. /\ st'.mode = st.mode /\ st'.gate = st.gate /\ st'.driver = st.driver
        /\ st'.kind = st.kind /\ st'.skip = st.skip /\ st'.ack_ok = st.acked
        /\ st'.phase = s.phase
    BY <1>3, <1>6 DEF EventEnds, StType
  <2>2. st.acked => delivered
    BY <1>1, <1>2, <1>3, <1>6 DEF AckInv
  <2>3. st.kind = "earliest" /\ ~st.driver
    BY <1>1, <1>3, <1>6 DEF ModeInv
  <2> QED
    BY <1>2, <1>3, <1>5, <1>6, <2>1, <2>2, <2>3, OutOfSlotInv
<1>7. CASE s.mode = "poll" /\ st' = NextPollRequest(PollEnds(s)) /\ mpsl' = Requested
  <2>1. PollEnds(s) \in StType
    BY <1>3, SlotOpsType
  <2>2. LET t == PollEnds(s) IN Same(s, t) /\ t.result_ready = s.result_ready
    BY <1>3, CountersSame
  <2>3. LET t == PollEnds(s) IN
          /\ Same(t, st') /\ st'.result_ready = t.result_ready
          /\ st'.kind = "normal" => st'.locked
    BY <1>7, <2>1, GateSame
  <2>4. ~st.result_ready
    BY <1>1, <1>3, <1>7 DEF ModeInv
  <2>5. mpsl' # "slot"
    BY <1>7 DEF Requested
  <2>6. st'.mode = st.mode /\ st'.gate = st.gate /\ ~st'.result_ready
    BY <1>3, <2>2, <2>3, <2>4 DEF Same
  <2>7. st.mode = "poll" /\ ~Basic
    BY <1>3, <1>7 DEF Basic
  <2> QED
    BY <1>2, <1>5, <2>3, <2>5, <2>6, <2>7, OutOfSlotInv
<1>8. CASE /\ s.mode \notin {"event", "poll"} /\ mpsl' # "slot"
           /\ st' = s \/ st' = [s EXCEPT !.done = TRUE]
  <2>1. /\ st'.mode = st.mode /\ st'.gate = st.gate /\ st'.driver = st.driver
        /\ st'.kind = st.kind /\ st'.skip = st.skip /\ st'.phase = s.phase
        /\ st'.result_ready = st.result_ready
    BY <1>3, <1>8 DEF StType
  <2>2. st.kind = "earliest" /\ ~st.driver /\ ~st.result_ready
    BY <1>1, <1>3, <1>8 DEF ModeInv
  <2>3. st.mode # "poll" /\ st.mode # "event"
    BY <1>3, <1>8
  <2> QED
    BY <1>2, <1>3, <1>5, <1>8, <2>1, <2>2, <2>3, OutOfSlotInv
<1>9. Chains => s.mode \notin {"event", "poll"}
  BY <1>3 DEF Chains
<1> QED
  BY <1>2, <1>6, <1>7, <1>8, <1>9 DEF SlotAction, Requested

\* So do the signals of a slot that went wrong.
LEMMA OverstayedInv ==
  ASSUME PtxInv, Overstayed \/ BasicOverstayed
  PROVE  ModeInv' /\ QuietInv' /\ AckInv'
<1>1. /\ TypeOK /\ ModeInv /\ QuietInv /\ AckInv
      /\ st \in StType /\ rf \in RadioType
  BY DEF PtxInv, TypeOK
<1>2. CASE BasicOverstayed
  <2>1. /\ InSlot /\ Basic /\ st' = [st EXCEPT !.done = TRUE] /\ mpsl' = "idle"
        /\ UNCHANGED <<rf, lapses, delivered>>
    BY <1>2 DEF BasicOverstayed, airVars, taskVars
  <2>2. /\ st'.mode = st.mode /\ st'.gate = st.gate /\ st'.driver = st.driver
        /\ st'.kind = st.kind /\ st'.skip = st.skip /\ st'.phase = st.phase
        /\ st'.result_ready = st.result_ready
    BY <1>1, <2>1 DEF StType
  <2>3. /\ st.mode # "poll" /\ st.mode # "event" /\ st.phase = "Idle" /\ ~st.driver
        /\ st.kind = "earliest" /\ ~st.result_ready
    BY <1>1, <2>1 DEF ModeInv, Basic
  <2>4. lapses' = {} => rf.mode = "off" /\ ~(rf.disabled /\ rf.inten)
    BY <1>1, <2>1, <2>3 DEF QuietInv, RadioLine
  <2>5. rf.mode = "tx" => ~rf.disabled
    BY <1>1 DEF AckInv
  <2> QED
    BY <2>1, <2>2, <2>3, <2>4, <2>5, OutOfSlotInv
<1>3. CASE Overstayed
  <2> DEFINE s == [st EXCEPT !.phase = "Idle"]
  <2>1. /\ ~Basic /\ lapses' # {} /\ mpsl' # "slot" /\ UNCHANGED delivered
        /\ rf' = Stop(rf) \/ rf' = rf
        /\ IF st.mode = "poll" THEN st' = Earliest(Unlock(s))
                               ELSE st' = OverstayedEnds(s) /\ mpsl' = "idle"
    BY <1>3 DEF Overstayed, TsForceStop, Requested, airVars
  <2>2. /\ s \in StType /\ s.mode = st.mode /\ s.gate = st.gate /\ s.driver = st.driver
        /\ s.kind = st.kind /\ s.skip = st.skip /\ s.result_ready = st.result_ready
    BY <1>1 DEF StType, PtxPhase
  <2>3. Stop(rf).mode = "off"
    BY <1>1 DEF Stop, RadioType
  <2>4. rf'.mode = "tx" => ~rf'.disabled
    BY <1>1, <2>1, <2>3 DEF AckInv
  <2> HIDE DEF s
  <2>5. CASE st.mode = "poll"
    <3>1. /\ Same(s, st') /\ st'.result_ready = s.result_ready /\ st'.kind = "earliest"
      BY <2>1, <2>2, <2>5, GateSame
    <3>2. ~st.result_ready
      BY <1>1, <2>5 DEF ModeInv
    <3>3. st'.mode = st.mode /\ st'.gate = st.gate /\ ~st'.result_ready
      BY <2>2, <3>1, <3>2 DEF Same
    <3> QED
      BY <2>1, <2>4, <2>5, <3>1, <3>3, OutOfSlotInv
  <2>6. CASE st.mode # "poll"
    <3>1. /\ st'.mode = st.mode /\ st'.gate = st.gate /\ st'.driver = st.driver
          /\ st'.kind = st.kind /\ st'.skip = st.skip
          /\ st.mode = "event" => ~st'.ack_ok
          /\ st.mode # "event" => st'.result_ready = st.result_ready
      BY <2>1, <2>2, <2>6 DEF OverstayedEnds, StType
    <3>2. /\ st.kind = "earliest" /\ ~st.driver
          /\ st.mode # "event" => ~st.result_ready
      BY <1>1, <2>6 DEF ModeInv
    <3> QED
      BY <2>1, <2>4, <2>6, <3>1, <3>2, OutOfSlotInv
  <2> QED
    BY <2>5, <2>6
<1> QED
  BY <1>2, <1>3

\* The signals outside a slot change the kind of the request, the report and
\* whether the session is done; what is done is not requested again.
LEMMA RequestEffect ==
  ASSUME PtxInv, Blocked \/ BasicBlocked \/ SessionIdle \/ InvalidReturn \/ SessionClosed
  PROVE  /\ st'.mode = st.mode /\ st'.gate = st.gate /\ st'.driver = st.driver
         /\ st'.phase = st.phase /\ st'.ack_ok = st.ack_ok /\ st'.acked = st.acked
         /\ st'.result_ready = st.result_ready /\ st'.skip = st.skip
         /\ st'.kind = "earliest" \/ (st'.kind = st.kind /\ st'.locked = st.locked)
         /\ st.mode = "event" /\ mpsl' \in {"slot", "requested"} => st'.done = st.done
<1>1. st \in StType
  BY DEF PtxInv, TypeOK
<1>2. ASSUME NEW t \in {st, Earliest(st), Earliest(Unlock(st))}
      PROVE  /\ t \in StType /\ Same(st, t) /\ t.skip = st.skip
             /\ t.result_ready = st.result_ready
             /\ t.kind = "earliest" \/ (t.kind = st.kind /\ t.locked = st.locked)
  <2>1. CASE t = st
    BY <1>1, <2>1 DEF Same
  <2>2. CASE t = Earliest(st)
    BY <1>1, <2>2, GateType, GateSame
  <2>3. CASE t = Earliest(Unlock(st))
    BY <1>1, <2>3, GateType, GateSame
  <2> QED
    BY <1>2, <2>1, <2>2, <2>3
<1>3. ASSUME NEW t \in {st, Earliest(st), Earliest(Unlock(st))},
             NEW u \in {t, [t EXCEPT !.done = TRUE], [t EXCEPT !.report_ready = TRUE],
                        [t EXCEPT !.report_ready = TRUE, !.done = TRUE]}
      PROVE  /\ u.mode = st.mode /\ u.gate = st.gate /\ u.driver = st.driver
             /\ u.phase = st.phase /\ u.ack_ok = st.ack_ok /\ u.acked = st.acked
             /\ u.result_ready = st.result_ready /\ u.skip = st.skip
             /\ u.kind = "earliest" \/ (u.kind = st.kind /\ u.locked = st.locked)
             /\ u = t => u.done = st.done
  <2>1. /\ t \in StType /\ Same(st, t) /\ t.skip = st.skip
        /\ t.result_ready = st.result_ready
        /\ t.kind = "earliest" \/ (t.kind = st.kind /\ t.locked = st.locked)
    BY <1>2
  <2> QED
    BY <2>1 DEF Same, StType
<1>4. PICK t \in {st, Earliest(st), Earliest(Unlock(st))} :
        /\ st' \in {t, [t EXCEPT !.done = TRUE], [t EXCEPT !.report_ready = TRUE],
                    [t EXCEPT !.report_ready = TRUE, !.done = TRUE]}
        /\ st.mode = "event" /\ mpsl' \in {"slot", "requested"} => st' = t
  <2>1. CASE Blocked
    <3>1. PICK t \in {Earliest(st), Earliest(Unlock(st))} : Rerequest(t)
      BY <2>1 DEF Blocked
    <3> QED
      BY <3>1 DEF Rerequest
  <2>2. CASE BasicBlocked
    BY <2>2 DEF BasicBlocked, Rerequest
  <2>3. CASE SessionIdle
    <3>1. CASE st.mode = "poll"
      BY <2>3, <3>1 DEF SessionIdle
    <3>2. CASE st.mode # "poll"
      BY <2>3, <3>2 DEF SessionIdle
    <3> QED
      BY <3>1, <3>2
  <2>4. CASE InvalidReturn
    BY <2>4 DEF InvalidReturn
  <2>5. CASE SessionClosed
    BY <2>5 DEF SessionClosed
  <2> QED
    BY <2>1, <2>2, <2>3, <2>4, <2>5
<1> QED
  BY <1>3, <1>4

\* Those signals keep the invariant.
LEMMA RequestInv ==
  ASSUME PtxInv, Blocked \/ BasicBlocked \/ SessionIdle \/ InvalidReturn \/ SessionClosed
  PROVE  ModeInv' /\ QuietInv' /\ AckInv'
<1>1. /\ TypeOK /\ ModeInv /\ QuietInv /\ AckInv
  BY DEF PtxInv
<1>2. UNCHANGED <<rf, answer, delivered, sending, lapses>>
  BY DEF Blocked, BasicBlocked, SessionIdle, InvalidReturn, SessionClosed, airVars, taskVars
<1>3. /\ mpsl' # mpsl => mpsl' \in {"closed", "idle"} \/ (SessionIdle /\ st.mode = "poll")
      /\ mpsl' = "slot" <=> mpsl = "slot"
  BY DEF Blocked, BasicBlocked, SessionIdle, InvalidReturn, SessionClosed, Rerequest, InSlot
<1>4. SessionIdle /\ mpsl' = "requested" /\ mpsl # "requested" => st'.kind = "earliest"
  <2>1. ASSUME SessionIdle, mpsl' = "requested", mpsl # "requested"
        PROVE  st'.kind = "earliest"
    <3> DEFINE s == Earliest(IF st.gate = "lock" THEN Unlock(st) ELSE st)
    <3>1. st' = [s EXCEPT !.report_ready = TRUE]
      BY <2>1 DEF SessionIdle
    <3>2. s \in StType /\ s.kind = "earliest"
      BY <1>1, GateType, GateSame DEF TypeOK
    <3> HIDE DEF s
    <3> QED
      BY <3>1, <3>2 DEF StType
  <2> QED
    BY <2>1
<1>5. mpsl' \in {"slot", "requested"} =>
        \/ mpsl' = mpsl
        \/ mpsl' = "requested" /\ st.mode = "poll" /\ st'.kind = "earliest"
  BY <1>3, <1>4
<1>6. ModeInv'
  BY <1>1, <1>5, RequestEffect DEF ModeInv, Basic
<1>7. QuietInv'
  BY <1>1, <1>2, <1>3, RequestEffect DEF QuietInv, InSlot, RadioLine
<1>8. AckInv'
  BY <1>1, <1>2, <1>5, RequestEffect DEF AckInv, InSlot, AckOkIsDelivered
<1> QED
  BY <1>6, <1>7, <1>8

\* A step that leaves MPSL, the radio and the transaction alone keeps it too.
LEMMA UntouchedInv ==
  ASSUME PtxInv, UNCHANGED <<mpsl, rf, answer, delivered, sending, lapses>>,
         st'.mode = st.mode, st'.gate = st.gate, st'.driver = st.driver,
         st'.phase = st.phase, st'.done = st.done, st'.acked = st.acked,
         st'.ack_ok = st.ack_ok, st'.result_ready = st.result_ready,
         st'.skip = st.skip, st'.kind = st.kind, st'.locked = st.locked
  PROVE  ModeInv' /\ QuietInv' /\ AckInv'
<1>1. ModeInv /\ QuietInv /\ AckInv
  BY DEF PtxInv
<1>2. ModeInv'
  BY <1>1 DEF ModeInv, Basic
<1>3. QuietInv'
  BY <1>1 DEF QuietInv, InSlot, RadioLine
<1>4. AckInv'
  BY <1>1 DEF AckInv, InSlot, AckOkIsDelivered
<1> QED
  BY <1>2, <1>3, <1>4

\* A new session starts without a slot, an answer or a result.
LEMMA OpensInv ==
  ASSUME PtxInv, NEW mode \in RunModes \cup {"poll", "event"}, NEW gate, Opens(mode, gate),
         mode # "poll" => gate = "off", mode = "event" => mpsl' = "idle",
         mpsl' \in {"idle", "requested"}
  PROVE  ModeInv' /\ QuietInv' /\ AckInv'
<1>1. /\ st' = FreshState(mode, gate) /\ mpsl = "closed"
      /\ UNCHANGED <<rf, answer, delivered, sending, lapses>>
  BY DEF Opens, airVars
<1>2. /\ st'.mode = mode /\ st'.gate = gate /\ st'.driver = FALSE /\ st'.phase = "Idle"
      /\ st'.result_ready = FALSE /\ st'.skip = 0 /\ st'.kind = "earliest"
  BY <1>1 DEF FreshState
<1>3. ModeInv'
  BY <1>2 DEF ModeInv, Basic
<1>4. QuietInv'
  BY <1>1 DEF PtxInv, QuietInv, InSlot, RadioLine
<1>5. AckInv'
  BY <1>1, <1>2 DEF PtxInv, AckInv, InSlot, AckOkIsDelivered
<1> QED
  BY <1>3, <1>4, <1>5

\* The calls of the application keep the invariant: while a slot lasts, the
\* send that asked for it waits, and no other begins.
LEMMA TaskInv ==
  ASSUME PtxInv, Task
  PROVE  ModeInv' /\ QuietInv' /\ AckInv'
<1>1. /\ TypeOK /\ ModeInv /\ QuietInv /\ AckInv /\ st \in StType
  BY DEF PtxInv, TypeOK
<1>2. CASE \E gate \in Gates : OpenPollSession(gate)
  BY <1>2, OpensInv DEF OpenPollSession
<1>3. CASE OpenEventSession
  BY <1>3, OpensInv DEF OpenEventSession
<1>4. CASE \E mode \in RunModes : RunSlots(mode)
  BY <1>4, OpensInv DEF RunSlots, RunModes
<1>5. CASE NextReport
  <2>1. st' = [st EXCEPT !.report_ready = FALSE]
    BY <1>5 DEF NextReport
  <2>2. UNCHANGED <<mpsl, rf, answer, delivered, sending, lapses>>
    BY <1>5 DEF NextReport, mpslVars, airVars, taskVars
  <2> QED
    BY <1>1, <2>1, <2>2, UntouchedInv DEF StType
<1>6. CASE QueuePacket \/ RunReturns \/ DropRun
  <2>1. UNCHANGED <<st, mpsl, rf, answer, delivered, sending, lapses>>
    BY <1>6 DEF QueuePacket, RunReturns, DropRun, CloseRun, mpslVars, airVars, taskVars
  <2> QED
    BY <2>1, UntouchedInv
<1>7. CASE SetPtxDriver
  <2>1. /\ st.mode = "poll" /\ st' = [st EXCEPT !.driver = TRUE]
        /\ UNCHANGED <<mpsl, rf, answer, delivered, sending, lapses>>
    BY <1>7 DEF SetPtxDriver, mpslVars, airVars, taskVars
  <2>2. /\ st'.mode = st.mode /\ st'.gate = st.gate /\ st'.result_ready = st.result_ready
        /\ st'.ack_ok = st.ack_ok /\ st'.phase = st.phase /\ st'.kind = st.kind
        /\ st'.locked = st.locked
    BY <1>1, <2>1 DEF StType
  <2>3. ModeInv'
    BY <1>1, <2>1, <2>2 DEF ModeInv, Basic
  <2>4. QuietInv'
    BY <1>1, <2>1 DEF QuietInv, InSlot, RadioLine
  <2>5. AckInv'
    BY <1>1, <2>1, <2>2 DEF AckInv, InSlot, AckOkIsDelivered
  <2> QED
    BY <2>3, <2>4, <2>5
<1>8. CASE DropSession
  <2>1. /\ ~sending /\ st' = [st EXCEPT !.driver = FALSE, !.pending = FALSE]
        /\ UNCHANGED <<mpsl, rf, answer, delivered, sending>>
        /\ lapses' = {} => lapses = {} /\ ~(st.driver /\ InSlot)
    BY <1>8 DEF DropSession, airVars
  <2>2. /\ st'.mode = st.mode /\ st'.gate = st.gate /\ st'.result_ready = st.result_ready
        /\ st'.ack_ok = st.ack_ok /\ st'.phase = st.phase /\ st'.kind = st.kind
        /\ st'.locked = st.locked /\ st'.acked = st.acked /\ st'.driver = FALSE
        /\ st'.skip = st.skip /\ st'.done = st.done
    BY <1>1, <2>1 DEF StType
  <2>3. ModeInv'
    BY <1>1, <2>1, <2>2 DEF ModeInv, Basic
  <2>4. QuietInv'
    BY <1>1, <2>1, <2>2 DEF QuietInv, InSlot, RadioLine
  <2>5. AckInv'
    BY <1>1, <2>1, <2>2 DEF AckInv, InSlot, AckOkIsDelivered
  <2> QED
    BY <2>3, <2>4, <2>5
<1>9. CASE Send
  <2> DEFINE s == [st EXCEPT !.pending = TRUE, !.result_ready = FALSE, !.ack_ok = FALSE,
                             !.done = FALSE]
  <2>1. /\ st.mode = "event" /\ ~sending
        /\ UNCHANGED <<rf, answer, lapses>> /\ st' \in {s, [s EXCEPT !.pending = FALSE]}
        /\ \/ mpsl' = "requested" /\ sending'
           \/ UNCHANGED <<mpsl, sending>>
    BY <1>9 DEF Send
  <2>2. /\ st'.mode = st.mode /\ st'.gate = st.gate /\ ~st'.result_ready
        /\ ~st'.done /\ st'.phase = st.phase /\ st'.kind = st.kind
        /\ st'.driver = st.driver /\ st'.skip = st.skip
    BY <1>1, <2>1 DEF StType
  <2>3. mpsl \notin {"slot", "requested"}
    BY <1>1, <2>1 DEF AckInv
  <2>4. st.kind = "earliest" /\ ~st.driver
    BY <1>1, <2>1 DEF ModeInv
  <2>5. rf.mode = "tx" => ~rf.disabled
    BY <1>1 DEF AckInv
  <2>6. lapses = {} => rf.mode = "off" /\ ~(rf.disabled /\ rf.inten)
    BY <1>1, <2>3 DEF QuietInv, InSlot, RadioLine
  <2> HIDE DEF s
  <2> QED
    BY <2>1, <2>2, <2>3, <2>4, <2>5, <2>6, OutOfSlotInv
<1>10. CASE SendReturns
  <2> DEFINE s == [st EXCEPT !.result_ready = FALSE, !.pending = FALSE]
  <2>1. /\ st.result_ready \/ st.done
        /\ IF st.result_ready THEN st' = s ELSE st' = st
        /\ UNCHANGED <<mpsl, rf, answer, delivered, lapses>>
    BY <1>10 DEF SendReturns, mpslVars, airVars
  <2>2. /\ st'.mode = st.mode /\ st'.gate = st.gate /\ ~st'.result_ready
        /\ st'.phase = st.phase /\ st'.kind = st.kind /\ st'.driver = st.driver
        /\ st'.skip = st.skip /\ st'.locked = st.locked /\ st'.acked = st.acked
    BY <1>1, <2>1 DEF StType
  <2>3. st.mode = "event" => mpsl \notin {"slot", "requested"}
    BY <1>1, <2>1 DEF AckInv
  <2>4. ModeInv'
    BY <1>1, <2>1, <2>2 DEF ModeInv, Basic
  <2>5. QuietInv'
    BY <1>1, <2>1, <2>2 DEF QuietInv, InSlot, RadioLine
  <2>6. AckInv'
    <3>1. ~(st'.mode = "event" /\ mpsl' \in {"slot", "requested"})
      BY <2>1, <2>2, <2>3
    <3> QED
      BY <1>1, <2>1, <2>2, <3>1 DEF AckInv, InSlot, AckOkIsDelivered
  <2> QED
    BY <2>4, <2>5, <2>6
<1> QED
  BY <1>2, <1>3, <1>4, <1>5, <1>6, <1>7, <1>8, <1>9, <1>10 DEF Task

\* The radio ends what it does; the peer's answer belongs to the transmission
\* before it.
LEMMA AirInv ==
  ASSUME PtxInv, Air
  PROVE  ModeInv' /\ QuietInv' /\ AckInv'
<1>1. /\ TypeOK /\ ModeInv /\ QuietInv /\ AckInv /\ rf \in RadioType
      /\ answer \in BOOLEAN /\ delivered \in BOOLEAN
  BY DEF PtxInv, TypeOK
<1>2. UNCHANGED <<mpsl, st, sending, lapses>> /\ (TxEnds \/ AckEnds)
  BY DEF Air, mpslVars, taskVars
<1>3. ModeInv'
  BY <1>1, <1>2 DEF ModeInv, Basic
<1>4. CASE TxEnds
  <2>1. /\ rf.mode = "tx" /\ rf'.mode \in {"rx", "off"}
        /\ (delivered => delivered') /\ (answer' => delivered')
    <3>1. /\ rf.mode = "tx"
          /\ rf' = [rf EXCEPT !.mode = IF rf.rxen THEN "rx" ELSE "off", !.disabled = TRUE]
          /\ \E heard \in BOOLEAN : answer' = heard /\ delivered' = (delivered \/ heard)
      BY <1>4 DEF TxEnds
    <3>2. rf'.mode \in {"rx", "off"}
      BY <1>1, <3>1 DEF RadioType
    <3>3. (delivered => delivered') /\ (answer' => delivered')
      BY <1>1, <3>1
    <3> QED
      BY <3>1, <3>2, <3>3
  <2>2. QuietInv'
    BY <1>1, <1>2, <2>1 DEF QuietInv, InSlot, RadioLine
  <2>3. AckInv'
    <3>1. rf'.mode # "tx"
      BY <2>1
    <3>2. ~(InSlot /\ st.mode = "event" /\ st.phase = "WaitAck")
      BY <1>1, <2>1 DEF AckInv
    <3>3. AckOkIsDelivered'
      BY <1>1, <1>2, <2>1 DEF AckInv, AckOkIsDelivered
    <3>4. InSlot /\ st.mode = "event" /\ st.acked => delivered'
      BY <1>1, <2>1 DEF AckInv
    <3> QED
      BY <1>1, <1>2, <2>1, <3>1, <3>2, <3>3, <3>4 DEF AckInv, InSlot
  <2> QED
    BY <1>3, <2>2, <2>3
<1>5. CASE AckEnds
  <2>1. PICK ok \in BOOLEAN :
          /\ ok => answer
          /\ rf' = [rf EXCEPT !.mode = IF rf.rxen THEN "rx" ELSE "off",
                               !.disabled = TRUE, !.crcok = ok]
    BY <1>5 DEF AckEnds
  <2>2. rf.mode = "rx" /\ ~answer' /\ UNCHANGED delivered
    BY <1>5 DEF AckEnds
  <2>3. rf'.mode # "tx" /\ (rf'.crcok => answer)
    BY <1>1, <2>1 DEF RadioType
  <2>4. QuietInv'
    BY <1>1, <1>2, <2>2 DEF QuietInv, InSlot, RadioLine
  <2>5. AckInv'
    BY <1>1, <1>2, <2>2, <2>3 DEF AckInv, InSlot, AckOkIsDelivered
  <2> QED
    BY <1>3, <2>4, <2>5
<1> QED
  BY <1>2, <1>4, <1>5

\* Every step keeps the invariant.
LEMMA InvNext == PtxInv /\ [Next]_vars => PtxInv'
<1> SUFFICES ASSUME PtxInv, [Next]_vars PROVE PtxInv'
  OBVIOUS
<1>1. TypeOK'
  BY NextType DEF PtxInv
<1>2. ModeInv' /\ QuietInv' /\ AckInv'
  <2>1. CASE Mpsl
    BY <2>1, StartInv, RadioSignalInv, AckTimeoutInv, SlotEndsInv, OverstayedInv,
       RequestInv DEF Mpsl
  <2>2. CASE Task
    BY <2>2, TaskInv
  <2>3. CASE Air
    BY <2>3, AirInv
  <2>4. CASE UNCHANGED vars
    <3>1. UNCHANGED <<st, mpsl, rf, answer, delivered, sending, lapses>>
      BY <2>4 DEF vars, mpslVars, airVars, taskVars
    <3> QED
      BY <3>1, UntouchedInv
  <2> QED
    BY <2>1, <2>2, <2>3, <2>4 DEF Next
<1> QED
  BY <1>1, <1>2 DEF PtxInv

-----------------------------------------------------------------------------
(* The theorems                                                            *)

\* The invariant holds, whatever sessions the application opens and whatever
\* MPSL refuses, blocks, takes for invalid or lets overstay.
THEOREM TimeslotPtxInvariant == Spec => []PtxInv
<1> QED
  BY InvInit, InvNext, PTL DEF Spec

\* What send() returns as acknowledged the peer has (PtxEventReport::ack_ok).
THEOREM TimeslotPtxAckOk == Spec => []AckOkIsDelivered
<1>1. PtxInv => AckOkIsDelivered
  BY DEF PtxInv, AckInv
<1> QED
  BY <1>1, TimeslotPtxInvariant, PTL

\* A slot of the inline engine that ends in time leaves the radio quiet for the
\* slots of BLE after it (the CC0 branch of ptx_timeslot_callback).
THEOREM TimeslotPtxQuiet == Spec => []QuietOutsideSlot
<1>1. PtxInv => QuietOutsideSlot
  BY DEF PtxInv, QuietInv, QuietOutsideSlot
<1> QED
  BY <1>1, TimeslotPtxInvariant, PTL

\* A NORMAL request is made on a hint that few enough misses have followed
\* (ptx_configure_next_poll_request).
THEOREM TimeslotPtxNormalIsLocked == Spec => []NormalIsLocked
<1>1. PtxInv => NormalIsLocked
  <2>1. TypeOK => st.misses < MissLimit
    BY Counters DEF TypeOK, StType
  <2> QED
    BY <2>1 DEF PtxInv, ModeInv, NormalIsLocked
<1> QED
  BY <1>1, TimeslotPtxInvariant, PTL

-----------------------------------------------------------------------------
(* Nobody waits in vain: what the liveness of the sessions rests on        *)

\* A slot is asked for or lasts.
AtWork == mpsl \in {"requested", "slot"}

\* Whoever waits for the session has its result, or a slot is at work for it;
\* a poll session may also have the SESSION_IDLE to come that asks for one.
NoneStranded ==
  /\ sending => AtWork \/ st.result_ready \/ st.done
  /\ owned /\ IsRun => AtWork \/ st.done
  /\ owned /\ st.mode = "poll" => AtWork \/ idle_due \/ st.done

\* A session that is owned is open and not being closed, only an event session
\* sends, and the slot a send asks for finds its packet pending.
StrandInv ==
  /\ closing => ~owned
  /\ owned => mpsl # "closed"
  /\ mpsl = "closed" => ~closing
  /\ sending => owned /\ st.mode = "event"
  /\ sending /\ AtWork => st.pending
  /\ NoneStranded

\* Nothing within a slot takes the pending packet back.
LEMMA PendingSame ==
  ASSUME NEW s \in StType, NEW d \in {"near", "far"}, NEW p \in {"near", "far"}
  PROVE  \A t \in {CountStart(s), SlotState(s), ObserveMiss(s), ObserveHint(s, d, p)} :
           t.pending = s.pending
<1>1. CountStart(s).pending = s.pending /\ SlotState(s).pending = s.pending
  BY DEF CountStart, SlotState, StType
<1>2. ObserveMiss(s).pending = s.pending
  BY DEF ObserveMiss, Unlock, StType
<1>3. ObserveHint(s, d, p).pending = s.pending
  <2>1. CASE s.gate = "off"
    BY <2>1 DEF ObserveHint
  <2>2. CASE s.gate # "off"
    BY <2>2 DEF ObserveHint, StType
  <2> QED
    BY <2>1, <2>2
<1> QED
  BY <1>1, <1>2, <1>3

\* A step that takes nothing from a session strands nobody.
LEMMA StrandFrame ==
  ASSUME StrandInv, UNCHANGED <<mpsl, closing, owned, sending>>, st'.mode = st.mode,
         st.done => st'.done, st.result_ready => st'.result_ready,
         st.pending => st'.pending, idle_due => idle_due' \/ AtWork
  PROVE  StrandInv'
BY DEF StrandInv, NoneStranded, AtWork, IsRun

\* A slot starts for somebody: the packet of the send that asked for it is still
\* pending, and nothing in the slot takes it back.
LEMMA SlotStrand ==
  ASSUME PtxInv, StrandInv, Start \/ RadioSignal \/ AckTimeout
  PROVE  StrandInv'
<1>1. st \in StType /\ AckInv
  BY DEF PtxInv, TypeOK
<1>2. CASE Start
  <2>1. /\ mpsl = "requested" /\ st'.mode = st.mode /\ st'.done = st.done
        /\ st'.result_ready = st.result_ready
    BY <1>2, StartEffect
  <2>2. UNCHANGED <<closing, owned, sending>>
    BY <1>2 DEF Start
  <2>3. ~NothingPending
    BY <1>1, <2>1 DEF AckInv, StrandInv, AtWork, NothingPending
  <2>4. mpsl' = "slot"
    BY <1>2, <2>3 DEF Start
  <2>5. st.mode = "event" => st'.pending = st.pending
    <3>1. CountStart(st) \in StType
      BY <1>1, SlotOpsType
    <3>2. /\ CountStart(st).pending = st.pending
          /\ SlotState(CountStart(st)).pending = st.pending
      BY <1>1, <3>1, PendingSame
    <3>3. \/ st' = CountStart(st) \/ st' = SlotState(CountStart(st)) \/ SkippedStart
      <4>1. st.skip > 0 \/ st.skip = 0
        BY <1>1, Counters DEF StType
      <4>2. st.driver \in BOOLEAN
        BY <1>1 DEF StType
      <4>3. TRUE =>
              CASE Basic -> BasicStart
                [] ~Basic /\ st.skip > 0 -> SkippedStart
                [] ~Basic /\ st.skip = 0 /\ st.driver -> ConvergedStart
                [] ~Basic /\ st.skip = 0 /\ ~st.driver -> InlineStart
        BY <1>2, <2>3 DEF Start
      <4>4. BasicStart \/ SkippedStart \/ ConvergedStart \/ InlineStart
        BY <4>1, <4>2, <4>3
      <4> QED
        BY <4>4 DEF BasicStart, ConvergedStart, InlineStart
    <3>4. SkippedStart => st'.pending = CountStart(st).pending
      <4>1. ASSUME NEW x \in StType, NEW n
            PROVE  [x EXCEPT !.skip = n, !.phase = "Done", !.cc1 = FALSE].pending = x.pending
        BY DEF StType
      <4> QED
        BY <3>1, <4>1 DEF SkippedStart
    <3> QED
      BY <3>2, <3>3, <3>4
  <2> QED
    BY <2>1, <2>2, <2>4, <2>5 DEF StrandInv, NoneStranded, AtWork, IsRun
<1>3. CASE RadioSignal
  <2>1. /\ InSlot /\ UNCHANGED <<mpsl, idle_due, closing, owned, sending>>
    BY <1>3 DEF RadioSignal, mpslVars, taskVars
  <2>2. ASSUME NEW x \in StType, NEW y,
               \/ y = [x EXCEPT !.acked = TRUE, !.cc1 = FALSE, !.phase = "Done"]
               \/ y = [x EXCEPT !.phase = "Done"]
               \/ y = [x EXCEPT !.phase = "WaitAck", !.cc1 = TRUE]
        PROVE  /\ y \in StType /\ y.mode = x.mode /\ y.done = x.done
               /\ y.result_ready = x.result_ready /\ y.pending = x.pending
    <3>1. CASE y = [x EXCEPT !.acked = TRUE, !.cc1 = FALSE, !.phase = "Done"]
      BY <3>1 DEF StType, PtxPhase
    <3>2. CASE y = [x EXCEPT !.phase = "Done"]
      BY <3>2 DEF StType, PtxPhase
    <3>3. CASE y = [x EXCEPT !.phase = "WaitAck", !.cc1 = TRUE]
      BY <3>3 DEF StType, PtxPhase
    <3> QED
      BY <2>2, <3>1, <3>2, <3>3
  <2> DEFINE s == [st EXCEPT !.acked = TRUE, !.cc1 = FALSE, !.phase = "Done"]
  <2>3. /\ s \in StType /\ s.mode = st.mode /\ s.done = st.done
        /\ s.result_ready = st.result_ready /\ s.pending = st.pending
    BY <1>1, <2>2
  <2>4. /\ ObserveMiss(st) \in StType /\ Same(st, ObserveMiss(st))
        /\ ObserveMiss(st).result_ready = st.result_ready
        /\ ObserveMiss(st).pending = st.pending
    BY <1>1, GateType, GateSame, PendingSame
  <2>5. \A d, p \in {"near", "far"} :
          LET t == ObserveHint(s, d, p) IN
            Same(s, t) /\ t.result_ready = s.result_ready /\ t.pending = s.pending
    <3> HIDE DEF s
    <3> TAKE d, p \in {"near", "far"}
    <3> QED
      BY <2>3, GateSame, PendingSame
  <2>6. \/ st' = s \/ st' = st \/ st' = [st EXCEPT !.cc1 = TRUE]
        \/ st' = [st EXCEPT !.phase = "WaitAck", !.cc1 = TRUE]
        \/ \E d, p \in {"near", "far"} : st' = ObserveHint(s, d, p)
        \/ st' = [ObserveMiss(st) EXCEPT !.phase = "Done"]
    <3>1. CASE ConvergedRadio
      BY <1>1, <3>1, ConvergedRadioEffect DEF PtxInv
    <3>2. CASE InlineRadio
      BY <3>2 DEF InlineRadio, InlineTxEnd, InlineReceived
    <3> QED
      BY <1>3, <3>1, <3>2 DEF RadioSignal
  <2>7. /\ st'.mode = st.mode /\ st'.done = st.done
        /\ st'.result_ready = st.result_ready /\ st'.pending = st.pending
    <3>1. CASE st' = s \/ st' = st
      BY <2>3, <3>1
    <3>2. CASE \/ st' = [st EXCEPT !.phase = "WaitAck", !.cc1 = TRUE]
               \/ st' = [st EXCEPT !.cc1 = TRUE]
      BY <1>1, <3>2 DEF StType
    <3>3. CASE \E d, p \in {"near", "far"} : st' = ObserveHint(s, d, p)
      <4> HIDE DEF s
      <4> QED
        BY <2>3, <2>5, <3>3 DEF Same
    <3>4. CASE st' = [ObserveMiss(st) EXCEPT !.phase = "Done"]
      BY <2>2, <2>4, <3>4 DEF Same
    <3> QED
      BY <2>6, <3>1, <3>2, <3>3, <3>4
  <2> QED
    BY <2>1, <2>7, StrandFrame
<1>4. CASE AckTimeout
  <2>1. /\ UNCHANGED <<mpsl, idle_due, closing, owned, sending>>
    BY <1>4 DEF AckTimeout, mpslVars, taskVars
  <2>2. /\ ObserveMiss(st) \in StType /\ Same(st, ObserveMiss(st))
        /\ ObserveMiss(st).result_ready = st.result_ready
        /\ ObserveMiss(st).pending = st.pending
    BY <1>1, GateType, GateSame, PendingSame
  <2> DEFINE m == ObserveMiss(st)
  <2>3. \/ st' = [m EXCEPT !.retry_count = m.retry_count + 1, !.phase = "Tx"]
        \/ st' = [m EXCEPT !.phase = "Done", !.cc1 = FALSE]
        \/ \E n \in 0 .. MaxRetries : st' = [m EXCEPT !.retry_count = n]
    BY <1>4 DEF AckTimeout, InlineTimeout, ConvergedTimeout
  <2>4. /\ m \in StType /\ m.mode = st.mode /\ m.done = st.done
        /\ m.result_ready = st.result_ready /\ m.pending = st.pending
    BY <2>2 DEF Same
  <2> HIDE DEF m
  <2>5. /\ st'.mode = m.mode /\ st'.done = m.done
        /\ st'.result_ready = m.result_ready /\ st'.pending = m.pending
    BY <2>3, <2>4 DEF StType
  <2>6. /\ st'.mode = st.mode /\ st'.done = st.done
        /\ st'.result_ready = st.result_ready /\ st'.pending = st.pending
    BY <2>4, <2>5
  <2> QED
    BY <2>1, <2>6, StrandFrame
<1> QED
  BY <1>2, <1>3, <1>4

\* A slot that ends, or that went wrong, has a result for who waits, or another
\* slot is asked for.
LEMMA EndStrand ==
  ASSUME PtxInv, StrandInv, SlotEnds \/ Overstayed \/ BasicOverstayed
  PROVE  StrandInv'
<1>1. st \in StType
  BY DEF PtxInv, TypeOK
<1>2. UNCHANGED <<closing, owned, sending>> /\ InSlot
  BY DEF SlotEnds, Overstayed, BasicOverstayed, taskVars
<1>3. ASSUME st'.mode = st.mode, mpsl' \in {"idle", "requested"},
             st.mode = "event" => mpsl' = "idle" /\ st'.result_ready,
             st.mode = "poll" => mpsl' = Requested,
             IsRun => mpsl' = Requested \/ st'.done
      PROVE  StrandInv'
  BY <1>2, <1>3 DEF StrandInv, NoneStranded, AtWork, IsRun, RunModes, Requested
<1>4. CASE SlotEnds
  <2> DEFINE s == [st EXCEPT !.cc1 = FALSE, !.phase = IF Basic THEN @ ELSE "Done"]
  <2>1. s \in StType /\ s.mode = st.mode
    BY <1>1 DEF StType, PtxPhase
  <2>2. SlotAction(s)
    BY <1>4 DEF SlotEnds
  <2> HIDE DEF s
  <2>3. CASE s.mode = "event" /\ st' = EventEnds(s) /\ mpsl' = "idle"
    <3>1. st'.mode = s.mode /\ st'.result_ready
      BY <2>1, <2>3 DEF EventEnds, StType
    <3> QED
      BY <1>3, <2>1, <2>3, <3>1 DEF IsRun, RunModes
  <2>4. CASE s.mode = "poll" /\ st' = NextPollRequest(PollEnds(s)) /\ mpsl' = Requested
    <3>1. PollEnds(s) \in StType /\ Same(s, PollEnds(s))
      BY <2>1, SlotOpsType, CountersSame
    <3>2. Same(PollEnds(s), NextPollRequest(PollEnds(s)))
      BY <3>1, GateSame
    <3>3. st'.mode = st.mode
      BY <2>1, <2>4, <3>1, <3>2 DEF Same
    <3> QED
      BY <1>3, <2>1, <2>4, <3>3 DEF IsRun, RunModes, Requested
  <2>5. CASE Chains /\ st' = s /\ mpsl' = Requested
    BY <1>3, <2>1, <2>5 DEF Chains, Requested
  <2>6. CASE s.mode \notin {"event", "poll"} /\ st' = [s EXCEPT !.done = TRUE] /\ mpsl' = "idle"
    <3>1. st'.mode = s.mode /\ st'.done
      BY <2>1, <2>6 DEF StType
    <3> QED
      BY <1>3, <2>1, <2>6, <3>1
  <2> QED
    BY <2>2, <2>3, <2>4, <2>5, <2>6 DEF SlotAction
<1>5. CASE Overstayed
  <2> DEFINE s == [st EXCEPT !.phase = "Idle"]
  <2>1. s \in StType /\ s.mode = st.mode
    BY <1>1 DEF StType, PtxPhase
  <2>2. IF s.mode = "poll"
        THEN st' = Earliest(Unlock(s)) /\ mpsl' = Requested
        ELSE st' = OverstayedEnds(s) /\ mpsl' = "idle"
    BY <1>5, <2>1 DEF Overstayed
  <2> HIDE DEF s
  <2>3. CASE s.mode = "poll"
    <3>1. Same(s, Earliest(Unlock(s)))
      BY <2>1, GateSame
    <3> QED
      BY <1>3, <2>1, <2>2, <2>3, <3>1 DEF Same, IsRun, RunModes, Requested
  <2>4. CASE s.mode # "poll"
    <3>1. /\ OverstayedEnds(s).mode = s.mode
          /\ IF s.mode = "event" THEN OverstayedEnds(s).result_ready
                                 ELSE OverstayedEnds(s).done
      BY <2>1 DEF OverstayedEnds, StType
    <3> QED
      BY <1>3, <2>1, <2>2, <2>4, <3>1 DEF IsRun, RunModes
  <2> QED
    BY <2>3, <2>4
<1>6. CASE BasicOverstayed
  <2>1. Basic /\ mpsl' = "idle" /\ st' = [st EXCEPT !.done = TRUE]
    BY <1>6 DEF BasicOverstayed
  <2>2. st'.mode = st.mode /\ st'.done
    BY <1>1, <2>1 DEF StType
  <2> QED
    BY <1>3, <2>1, <2>2 DEF Basic
<1> QED
  BY <1>4, <1>5, <1>6

\* Nor do the signals outside a slot strand anybody: a request that was blocked
\* is made again or the session is done, and an invalid one, which only a poll
\* session makes, is followed by the SESSION_IDLE that asks again.
LEMMA RequestStrand ==
  ASSUME PtxInv, StrandInv,
         Blocked \/ BasicBlocked \/ SessionIdle \/ InvalidReturn \/ SessionClosed
  PROVE  StrandInv'
<1>1. st \in StType /\ AckInv /\ ModeInv
  BY DEF PtxInv, TypeOK
<1>2. st'.mode = st.mode /\ st'.result_ready = st.result_ready /\ UNCHANGED <<owned, sending>>
  BY RequestEffect DEF Blocked, BasicBlocked, SessionIdle, InvalidReturn, SessionClosed,
     taskVars
<1>3. ASSUME NEW t \in {st, Earliest(st), Earliest(Unlock(st))},
             NEW u \in {t, [t EXCEPT !.done = TRUE], [t EXCEPT !.report_ready = TRUE],
                        [t EXCEPT !.report_ready = TRUE, !.done = TRUE]}
      PROVE  /\ u.pending = st.pending /\ (st.done => u.done)
             /\ u \in {[t EXCEPT !.done = TRUE],
                       [t EXCEPT !.report_ready = TRUE, !.done = TRUE]} => u.done
  <2>1. t \in StType /\ t.pending = st.pending /\ t.done = st.done
    <3>1. \A x \in StType :
            /\ Unlock(x) \in StType /\ Earliest(x) \in StType
            /\ Unlock(x).pending = x.pending /\ Unlock(x).done = x.done
            /\ Earliest(x).pending = x.pending /\ Earliest(x).done = x.done
      <4> TAKE x \in StType
      <4>1. Unlock(x) \in StType /\ Earliest(x) \in StType
        BY GateType
      <4>2. Unlock(x).pending = x.pending /\ Unlock(x).done = x.done
        BY DEF Unlock, StType
      <4>3. Earliest(x).pending = x.pending /\ Earliest(x).done = x.done
        BY DEF Earliest, StType
      <4> QED
        BY <4>1, <4>2, <4>3
    <3> QED
      BY <1>1, <3>1
  <2> QED
    BY <2>1 DEF StType
<1>4. CASE Blocked \/ BasicBlocked
  <2>1. /\ mpsl = "requested" /\ UNCHANGED closing
        /\ \E t \in {st, Earliest(st), Earliest(Unlock(st))} : Rerequest(t)
    BY <1>4 DEF Blocked, BasicBlocked
  <2>2. PICK t \in {st, Earliest(st), Earliest(Unlock(st))} : Rerequest(t)
    BY <2>1
  <2>3. CASE st' = t /\ UNCHANGED <<mpsl, idle_due>>
    <3>1. st'.pending = st.pending /\ (st.done => st'.done)
      BY <1>3, <2>3
    <3> QED
      BY <1>2, <2>1, <2>3, <3>1, StrandFrame
  <2>4. CASE st' = [t EXCEPT !.done = TRUE] /\ mpsl' = "idle"
    <3>1. st'.done
      BY <1>3, <2>4
    <3> QED
      BY <1>2, <2>1, <2>4, <3>1 DEF StrandInv, NoneStranded, AtWork
  <2> QED
    BY <2>2, <2>3, <2>4 DEF Rerequest
<1>5. CASE SessionIdle
  <2>1. UNCHANGED closing
    BY <1>5 DEF SessionIdle
  <2>2. CASE UNCHANGED <<mpsl, st>> /\ (st.mode # "poll" \/ closing \/ mpsl # "idle")
    <3>1. PtxInv /\ mpsl \in {"closed", "idle", "requested", "slot"}
      BY DEF PtxInv, TypeOK
    <3> QED
      BY <1>2, <2>1, <2>2, <3>1 DEF StrandInv, NoneStranded, AtWork, IsRun, RunModes
  <2>3. CASE /\ st.mode = "poll" /\ mpsl = "idle" /\ ~closing
             /\ mpsl' = "requested" \/ UNCHANGED mpsl
    <3> DEFINE t == Earliest(IF st.gate = "lock" THEN Unlock(st) ELSE st)
    <3>1. t \in {st, Earliest(st), Earliest(Unlock(st))}
      OBVIOUS
    <3>2. \/ mpsl' = "requested"
          \/ st' = [t EXCEPT !.report_ready = TRUE, !.done = TRUE]
      BY <1>5, <2>3 DEF SessionIdle
    <3>3. mpsl' = "requested" \/ st'.done
      <4> HIDE DEF t
      <4> QED
        BY <1>3, <3>1, <3>2
    <3> QED
      BY <1>2, <2>1, <2>3, <3>3 DEF StrandInv, NoneStranded, AtWork, IsRun, RunModes
  <2> QED
    BY <1>5, <2>2, <2>3 DEF SessionIdle
<1>6. CASE InvalidReturn
  <2>1. /\ mpsl' = "idle" /\ idle_due' /\ UNCHANGED <<closing, st>> /\ st.kind = "normal"
    BY <1>6 DEF InvalidReturn
  <2>2. st.mode = "poll"
    BY <1>1, <2>1 DEF ModeInv
  <2> QED
    BY <1>2, <2>1, <2>2 DEF StrandInv, NoneStranded, IsRun, RunModes
<1>7. CASE SessionClosed
  <2>1. closing /\ ~closing'
    BY <1>7 DEF SessionClosed
  <2>2. ~owned /\ ~sending
    BY <2>1 DEF StrandInv
  <2> QED
    BY <1>2, <2>1, <2>2 DEF StrandInv, NoneStranded
<1> QED
  BY <1>4, <1>5, <1>6, <1>7

\* The calls of the application strand nobody: a send that MPSL refuses does
\* not wait, and one that waits has its packet staged before the request.
LEMMA TaskStrand ==
  ASSUME PtxInv, StrandInv, Task
  PROVE  StrandInv'
<1>1. st \in StType /\ AckInv
  BY DEF PtxInv, TypeOK
<1>2. ASSUME NEW m, NEW gate, Opens(m, gate), mpsl' # "closed",
             m # "event" => mpsl' = "requested"
      PROVE  StrandInv'
  <2>1. /\ mpsl = "closed" /\ ~owned /\ st' = FreshState(m, gate)
        /\ UNCHANGED <<closing, sending>>
    BY <1>2 DEF Opens
  <2>2. st'.mode = m
    BY <2>1 DEF FreshState
  <2>3. ~sending /\ ~closing
    BY <2>1 DEF StrandInv
  <2> QED
    BY <1>2, <2>1, <2>2, <2>3 DEF StrandInv, NoneStranded, AtWork, IsRun, RunModes
<1>3. CASE \/ \E gate \in Gates : OpenPollSession(gate)
           \/ OpenEventSession \/ \E mode \in RunModes : RunSlots(mode)
  BY <1>2, <1>3 DEF OpenPollSession, OpenEventSession, RunSlots
<1>4. CASE SetPtxDriver \/ NextReport
  <2>1. /\ st' \in {[st EXCEPT !.driver = TRUE], [st EXCEPT !.report_ready = FALSE]}
        /\ UNCHANGED <<mpsl, idle_due, closing, owned, sending>>
    BY <1>4 DEF SetPtxDriver, NextReport, mpslVars, taskVars
  <2>2. /\ st'.mode = st.mode /\ st'.done = st.done
        /\ st'.result_ready = st.result_ready /\ st'.pending = st.pending
    BY <1>1, <2>1 DEF StType
  <2> QED
    BY <2>1, <2>2, StrandFrame
<1>5. CASE QueuePacket
  <2>1. UNCHANGED <<st, mpsl, idle_due, closing, owned, sending>>
    BY <1>5 DEF QueuePacket, mpslVars, taskVars
  <2> QED
    BY <2>1, StrandFrame
<1>6. CASE Send
  <2> DEFINE s == [st EXCEPT !.pending = TRUE, !.result_ready = FALSE, !.ack_ok = FALSE,
                             !.done = FALSE]
  <2>1. /\ owned /\ st.mode = "event" /\ ~sending /\ UNCHANGED <<closing, owned>>
        /\ \/ mpsl' = "requested" /\ sending' /\ st' = s
           \/ UNCHANGED <<mpsl, sending>> /\ st' = [s EXCEPT !.pending = FALSE]
    BY <1>6 DEF Send
  <2>2. s.mode = "event" /\ s.pending /\ [s EXCEPT !.pending = FALSE].mode = "event"
    BY <1>1, <2>1 DEF StType
  <2>3. st'.mode = "event"
    BY <2>1, <2>2
  <2>4. CASE mpsl' = "requested" /\ st' = s
    BY <2>1, <2>2, <2>3, <2>4 DEF StrandInv, NoneStranded, AtWork, IsRun, RunModes
  <2>5. CASE UNCHANGED <<mpsl, sending>>
    BY <2>1, <2>3, <2>5 DEF StrandInv, NoneStranded, AtWork, IsRun, RunModes
  <2> QED
    BY <2>1, <2>4, <2>5
<1>7. CASE SendReturns
  <2>1. /\ sending /\ ~sending' /\ UNCHANGED <<mpsl, closing, owned>>
        /\ st' \in {st, [st EXCEPT !.result_ready = FALSE, !.pending = FALSE]}
    BY <1>7 DEF SendReturns, mpslVars
  <2>2. st'.mode = "event" /\ owned
    BY <1>1, <2>1 DEF StrandInv, StType
  <2> QED
    BY <2>1, <2>2 DEF StrandInv, NoneStranded, IsRun, RunModes
<1>8. CASE DropSession \/ RunReturns \/ DropRun
  <2>1. owned /\ ~owned' /\ ~sending /\ UNCHANGED <<mpsl, sending>>
    BY <1>8 DEF DropSession, RunReturns, DropRun, CloseRun, StrandInv, IsRun, RunModes
  <2> QED
    BY <2>1 DEF StrandInv, NoneStranded
<1> QED
  BY <1>3, <1>4, <1>5, <1>6, <1>7, <1>8 DEF Task

\* Nobody is stranded: whatever MPSL blocks, refuses, takes for invalid or lets
\* overstay, a send() in its await, a run and a poll session have their result,
\* a slot, a request for one or the signal that makes it.  That those come in
\* the end is the fairness of the runs (SessionsGoOn).
THEOREM TimeslotPtxNoneStranded == Spec => []NoneStranded
<1>1. Init => StrandInv
  BY DEF Init, NewTimeslotDriver, StrandInv, NoneStranded, FreshState
<1>2. PtxInv /\ StrandInv /\ [Next]_vars => StrandInv'
  <2> SUFFICES ASSUME PtxInv, StrandInv, [Next]_vars PROVE StrandInv'
    OBVIOUS
  <2>1. CASE Mpsl
    BY <2>1, SlotStrand, EndStrand, RequestStrand DEF Mpsl
  <2>2. CASE Task
    BY <2>2, TaskStrand
  <2>3. CASE Air
    <3>1. UNCHANGED <<st, mpsl, idle_due, closing, owned, sending>>
      BY <2>3 DEF Air, mpslVars, taskVars
    <3> QED
      BY <3>1, StrandFrame
  <2>4. CASE UNCHANGED vars
    <3>1. UNCHANGED <<st, mpsl, idle_due, closing, owned, sending>>
      BY <2>4 DEF vars, mpslVars, taskVars
    <3> QED
      BY <3>1, StrandFrame
  <2> QED
    BY <2>1, <2>2, <2>3, <2>4 DEF Next
<1>3. StrandInv => NoneStranded
  BY DEF StrandInv
<1> QED
  BY <1>1, <1>2, <1>3, TimeslotPtxInvariant, PTL DEF Spec
=============================================================================
