---------------------------- MODULE EsbPtxProofs ----------------------------
(***************************************************************************)
(* Proofs about EsbPtx, for every number of buffers, every timing and      *)
(* every set of calls.  First the types of the radio and timer operators,  *)
(* then TypeOK, the suspend protocol, the ownership of the buffers, that   *)
(* no received packet is lost, and what the liveness rests on: no wake-up  *)
(* is lost, no packet in flight stalls, and each state brings it forward.  *)
(***************************************************************************)
EXTENDS EsbPtx, PacketPoolProofs

-----------------------------------------------------------------------------
(* The operators of the radio and the timer.                               *)

\* The missing index is no buffer.
LEMMA NoIdxFacts == NoIdx \notin Buf /\ NoIdx \in Nat /\ Buf \subseteq Opt /\ NoIdx \in Opt
BY NAssumption DEF NoIdx, Buf, Opt

\* Every register sequence on RADIO leaves a well-typed radio.
LEMMA RadioOpsType ==
  ASSUME NEW r \in RadioType, NEW i \in Opt, NEW b \in BOOLEAN
  PROVE  /\ IntOff(r) \in RadioType
         /\ Stop(r) \in RadioType
         /\ Transmit(r, i, b) \in RadioType
         /\ PrepareForAck(r, i) \in RadioType
         /\ TxEnd(r) \in RadioType
         /\ RxEnd(r, b) \in RadioType
         /\ [r EXCEPT !.disabled = FALSE] \in RadioType
         /\ RadioReset \in RadioType
<1> USE DEF RadioType
<1>0. NoIdx \in Opt /\ 0 \in 0 .. TxTicks /\ TxTicks \in 0 .. TxTicks
  BY PtxAssumption DEF Opt
<1>1. IntOff(r) \in RadioType
  BY DEF IntOff
<1>2. Stop(r) \in RadioType
  BY <1>0 DEF Stop
<1>3. Transmit(r, i, b) \in RadioType
  BY <1>0 DEF Transmit
<1>4. PrepareForAck(r, i) \in RadioType
  BY <1>0 DEF PrepareForAck
<1>5. TxEnd(r) \in RadioType
  BY <1>0 DEF TxEnd
<1>6. RxEnd(r, b) \in RadioType
  BY <1>0 DEF RxEnd
<1>7. [r EXCEPT !.disabled = FALSE] \in RadioType
  OBVIOUS
<1>8. RadioReset \in RadioType
  BY <1>0 DEF RadioReset
<1>9. QED
  BY <1>1, <1>2, <1>3, <1>4, <1>5, <1>6, <1>7, <1>8

\* Every register sequence on TIMER leaves a well-typed timer.
LEMMA TimerOpsType ==
  ASSUME NEW t \in TimerType
  PROVE  /\ StopTimer(t) \in TimerType
         /\ DisarmRetransmit(t) \in TimerType
         /\ DisarmAckTimeout(t) \in TimerType
         /\ ArmBoth(t) \in TimerType
         /\ Count(t) \in TimerType
         /\ TimerReset \in TimerType
<1> USE DEF TimerType, CompareState
<1>1. StopTimer(t) \in TimerType
  BY DEF StopTimer
<1>2. DisarmRetransmit(t) \in TimerType
  BY <1>1 DEF DisarmRetransmit
<1>3. DisarmAckTimeout(t) \in TimerType
  BY DEF DisarmAckTimeout
<1>4. ArmBoth(t) \in TimerType
  BY DEF ArmBoth
<1>5. Count(t) \in TimerType
  <2>1. \A cc \in CompareState : \A at, c : Match(cc, at, c) \in CompareState
    BY DEF Match
  <2>2. /\ t.cc0 \in CompareState /\ t.cc1 \in CompareState
        /\ t.count + 1 \in Nat
    OBVIOUS
  <2>3. /\ Match(t.cc0, RetransmitCC, t.count + 1) \in CompareState
        /\ Match(t.cc1, AckCC, t.count + 1) \in CompareState
    BY <2>1, <2>2
  <2>4. QED
    BY <2>2, <2>3 DEF Count
<1>6. TimerReset \in TimerType
  BY DEF TimerReset
<1>7. QED
  BY <1>1, <1>2, <1>3, <1>4, <1>5, <1>6

-----------------------------------------------------------------------------
(* Type correctness.                                                       *)

\* The types of what the RADIO handler writes
HandlerType ==
  /\ pool \in [Buf -> BufState] /\ rx_queue \in Seq(Buf)
  /\ state \in StatePtx /\ attempts \in Nat /\ pid \in 0 .. 3
  /\ tx_idx \in Opt /\ ack_rx_idx \in Opt
  /\ max_attempts_flag \in BOOLEAN
  /\ rf \in RadioType /\ tm \in TimerType
  /\ air_pid \in -1 .. 3 /\ acked \in BOOLEAN

\* The types of everything else
RestType ==
  /\ timer_flag \in BOOLEAN /\ suspend_requested \in BOOLEAN
  /\ suspend_signal \in {"none", "registered", "woken"}
  /\ saved \in {"none", "Idle", "ForcedIdle"}
  /\ no_ack \in [Buf -> BOOLEAN]
  /\ nvic \in [radio : BOOLEAN, timer : BOOLEAN]
  /\ ctl \in MaskedCtl \cup {"idle", "busy", "flagged", "poll", "registered",
                              "wait", "ready"}
  /\ sender \in {"idle", "alloc", "queued"} /\ send_idx \in Opt
  /\ held \subseteq Buf

\* TypeOK of the next state, in the parts the handler and the rest may change.
LEMMA TypePrime == TypeOK' <=> HandlerType' /\ RestType'
BY DEF TypeOK, HandlerType, RestType

\* Starting the next packet, a left-over one or none (state_machine.rs:520-548)
LEMMA SendNextType ==
  ASSUME TypeOK, NEW t \in Opt, NEW p \in [Buf -> BufState],
         NEW r \in RadioType, NEW d \in 0 .. 3, SendNext(t, p, r, d)
  PROVE  /\ pool' \in [Buf -> BufState] /\ state' \in StatePtx
         /\ tx_idx' \in Opt /\ rf' \in RadioType
         /\ air_pid' \in -1 .. 3 /\ acked' \in BOOLEAN
<1>1. CASE t # NoIdx
  <2>1. /\ rf' = Transmit(r, t, TRUE) /\ state' = "Tx"
        /\ tx_idx' = t /\ pool' = p /\ UNCHANGED <<air_pid, acked>>
    BY <1>1 DEF SendNext
  <2>2. QED
    BY <2>1, RadioOpsType DEF StatePtx, TypeOK
<1>2. CASE t = NoIdx /\ DequeueTxChoice(p) # {}
  <2>1. PICK i \in DequeueTxChoice(p) :
          /\ pool' = ToDma(p, i) /\ tx_idx' = i
          /\ rf' = Transmit(r, i, ~no_ack[i])
          /\ state' = IF no_ack[i] THEN "TxNoAck" ELSE "Tx"
          /\ air_pid' = d /\ acked' = FALSE
    BY <1>2 DEF SendNext
  <2>2. i \in Buf /\ i \in Opt
    BY ChoiceType, NoIdxFacts
  <2>3. rf' \in RadioType
    BY <2>1, <2>2, RadioOpsType
  <2>4. pool' \in [Buf -> BufState] /\ tx_idx' \in Opt
    BY <2>1, <2>2, PoolOpsType
  <2>5. state' \in StatePtx
    BY <2>1, Zenon DEF StatePtx
  <2>6. air_pid' = d /\ acked' = FALSE
    BY <2>1, Zenon
  <2>7. air_pid' \in -1 .. 3
    BY <2>6
  <2>8. acked' \in BOOLEAN
    BY <2>6, Zenon
  <2>9. QED
    BY <2>3, <2>4, <2>5, <2>7, <2>8
<1>3. CASE t = NoIdx /\ DequeueTxChoice(p) = {}
  <2>1. /\ rf' = IntOff(r) /\ state' = "Idle"
        /\ tx_idx' = NoIdx /\ pool' = p /\ UNCHANGED <<air_pid, acked>>
    BY <1>3 DEF SendNext
  <2>2. QED
    BY <2>1, RadioOpsType, NoIdxFacts DEF StatePtx, TypeOK
<1>4. QED
  BY <1>1, <1>2, <1>3

\* The common end of a packet
LEMMA FinishPacketType ==
  ASSUME TypeOK, NEW p \in [Buf -> BufState], NEW r \in RadioType,
         FinishPacket(p, r)
  PROVE  /\ pool' \in [Buf -> BufState] /\ state' \in StatePtx
         /\ pid' \in 0 .. 3 /\ tx_idx' \in Opt /\ rf' \in RadioType
         /\ air_pid' \in -1 .. 3 /\ acked' \in BOOLEAN
<1>1. AdvancePid \in 0 .. 3 /\ pid' = AdvancePid
  BY DEF FinishPacket, AdvancePid, TypeOK
<1>2. Release(p, tx_idx) \in [Buf -> BufState]
  BY PoolOpsType
<1>3. CASE suspend_requested
  <2>1. GoIdle(Release(p, tx_idx), r)
    BY <1>3 DEF FinishPacket
  <2>2. QED
    BY <1>1, <1>2, <2>1, RadioOpsType, NoIdxFacts DEF GoIdle, StatePtx, TypeOK
<1>4. CASE ~suspend_requested
  <2>1. SendNext(NoIdx, Release(p, tx_idx), r, AdvancePid)
    BY <1>4 DEF FinishPacket
  <2>2. QED
    BY <1>1, <1>2, <2>1, SendNextType, NoIdxFacts
<1>5. QED
  BY <1>3, <1>4

\* The radio as the handler finds it is well typed.
LEMMA SeenType == TypeOK => Seen \in RadioType
BY RadioOpsType, NoIdxFacts DEF TypeOK, Seen

\* A user event that is ignored keeps the types.
LEMMA IgnoreUserEventType == TypeOK /\ IgnoreUserEvent => HandlerType'
BY SeenType DEF TypeOK, IgnoreUserEvent, HandlerType, smVars

\* The handler in Idle keeps the types.
LEMMA OnIdleType == TypeOK /\ OnIdle => HandlerType'
<1> SUFFICES ASSUME TypeOK, OnIdle PROVE HandlerType'
  OBVIOUS
<1>1. UNCHANGED <<attempts, pid, ack_rx_idx, rx_queue, tm, max_attempts_flag>>
  BY DEF OnIdle
<1>2. CASE suspend_requested
  <2>1. rf' = Seen /\ UNCHANGED <<state, tx_idx, pool, air_pid, acked>>
    BY <1>2 DEF OnIdle
  <2>2. QED
    BY <1>1, <2>1, SeenType DEF TypeOK, HandlerType
<1>3. CASE ~suspend_requested
  <2>1. SendNext(tx_idx, pool, Seen, pid)
    BY <1>3 DEF OnIdle
  <2>2. /\ pool' \in [Buf -> BufState] /\ state' \in StatePtx
        /\ tx_idx' \in Opt /\ rf' \in RadioType
        /\ air_pid' \in -1 .. 3 /\ acked' \in BOOLEAN
    BY <2>1, SendNextType, SeenType DEF TypeOK
  <2>3. QED
    BY <1>1, <2>2 DEF TypeOK, HandlerType
<1>4. QED
  BY <1>2, <1>3

\* The end of a NoAck transmission keeps the types.
LEMMA OnTxNoAckType == TypeOK /\ OnTxNoAck => HandlerType'
<1> SUFFICES ASSUME TypeOK, OnTxNoAck PROVE HandlerType'
  OBVIOUS
<1>1. /\ FinishPacket(pool, IntOff(Seen))
      /\ UNCHANGED <<attempts, ack_rx_idx, rx_queue, tm, max_attempts_flag>>
  BY DEF OnTxNoAck
<1>2. IntOff(Seen) \in RadioType
  BY SeenType, RadioOpsType, NoIdxFacts
<1>3. /\ pool' \in [Buf -> BufState] /\ state' \in StatePtx
      /\ pid' \in 0 .. 3 /\ tx_idx' \in Opt /\ rf' \in RadioType
      /\ air_pid' \in -1 .. 3 /\ acked' \in BOOLEAN
  BY <1>1, <1>2, FinishPacketType DEF TypeOK
<1>4. QED
  BY <1>1, <1>3 DEF TypeOK, HandlerType

\* The end of a transmission that wants an ACK keeps the types.
LEMMA OnTxType == TypeOK /\ OnTx => HandlerType'
<1> SUFFICES ASSUME TypeOK, OnTx PROVE HandlerType'
  OBVIOUS
<1>1. UNCHANGED <<attempts, pid, tx_idx, rx_queue, max_attempts_flag, air_pid, acked>>
  BY DEF OnTx
<1>2. CASE RxToDmaChoice(pool) # {}
  <2>1. PICK i \in RxToDmaChoice(pool) :
          /\ pool' = ToDma(pool, i) /\ ack_rx_idx' = i
          /\ rf' = PrepareForAck(Seen, i)
    BY <1>2 DEF OnTx
  <2>2. state' = "WaitAck" /\ tm' = ArmBoth(tm)
    BY <1>2 DEF OnTx
  <2>3. i \in Buf /\ i \in Opt
    BY ChoiceType, NoIdxFacts
  <2>4. rf' \in RadioType /\ tm' \in TimerType
    BY <2>1, <2>2, <2>3, SeenType, RadioOpsType, TimerOpsType DEF TypeOK
  <2>5. pool' \in [Buf -> BufState]
    BY <2>1, PoolOpsType DEF TypeOK
  <2>6. QED
    BY <1>1, <2>1, <2>2, <2>3, <2>4, <2>5 DEF TypeOK, HandlerType, StatePtx
<1>3. CASE RxToDmaChoice(pool) = {}
  <2>1. rf' = Stop(Seen) /\ state' = "Idle" /\ UNCHANGED <<pool, ack_rx_idx, tm>>
    BY <1>3 DEF OnTx
  <2>2. rf' \in RadioType
    BY <2>1, SeenType, RadioOpsType, NoIdxFacts
  <2>3. QED
    BY <1>1, <2>1, <2>2 DEF TypeOK, HandlerType, StatePtx
<1>4. QED
  BY <1>2, <1>3

\* The end of an ACK's reception keeps the types.
LEMMA OnAckType == TypeOK /\ OnAck => HandlerType'
<1> SUFFICES ASSUME TypeOK, OnAck PROVE HandlerType'
  OBVIOUS
<1>1. /\ tm' = DisarmRetransmit(DisarmAckTimeout(tm))
      /\ attempts' = 0 /\ UNCHANGED max_attempts_flag
  BY DEF OnAck
<1>2. tm' \in TimerType
  BY <1>1, TimerOpsType DEF TypeOK
<1>3. Stop(Seen) \in RadioType
  BY SeenType, RadioOpsType, NoIdxFacts
<1>4. PICK hasPayload \in AckPayloads :
        IF hasPayload /\ ack_rx_idx # NoIdx
        THEN /\ rx_queue' = RxSend(rx_queue, ack_rx_idx)
             /\ FinishPacket(RxComplete(pool, ack_rx_idx), Stop(Seen))
             /\ UNCHANGED ack_rx_idx
        ELSE /\ FinishPacket(Release(pool, ack_rx_idx), Stop(Seen))
             /\ ack_rx_idx' = NoIdx /\ UNCHANGED rx_queue
  BY DEF OnAck
<1>5. CASE hasPayload /\ ack_rx_idx # NoIdx
  <2>1. rx_queue' \in Seq(Buf) /\ ack_rx_idx' \in Opt
    BY <1>4, <1>5, RxSendType DEF TypeOK, Opt
  <2>2. /\ pool' \in [Buf -> BufState] /\ state' \in StatePtx
        /\ pid' \in 0 .. 3 /\ tx_idx' \in Opt /\ rf' \in RadioType
        /\ air_pid' \in -1 .. 3 /\ acked' \in BOOLEAN
    BY <1>3, <1>4, <1>5, PoolOpsType, FinishPacketType DEF TypeOK
  <2>3. QED
    BY <1>1, <1>2, <2>1, <2>2 DEF TypeOK, HandlerType
<1>6. CASE ~(hasPayload /\ ack_rx_idx # NoIdx)
  <2>1. rx_queue' \in Seq(Buf) /\ ack_rx_idx' \in Opt
    BY <1>4, <1>6, NoIdxFacts DEF TypeOK
  <2>2. /\ pool' \in [Buf -> BufState] /\ state' \in StatePtx
        /\ pid' \in 0 .. 3 /\ tx_idx' \in Opt /\ rf' \in RadioType
        /\ air_pid' \in -1 .. 3 /\ acked' \in BOOLEAN
    BY <1>3, <1>4, <1>6, PoolOpsType, FinishPacketType DEF TypeOK
  <2>3. QED
    BY <1>1, <1>2, <2>1, <2>2 DEF TypeOK, HandlerType
<1>7. QED
  BY <1>5, <1>6

\* An ACK timeout keeps the types.
LEMMA OnNoAckType == TypeOK /\ OnNoAck => HandlerType'
<1> SUFFICES ASSUME TypeOK, OnNoAck PROVE HandlerType'
  OBVIOUS
<1> DEFINE p == Release(pool, ack_rx_idx)
           r == Stop(Seen)
<1>1. /\ tm' = DisarmAckTimeout(tm) /\ ack_rx_idx' = NoIdx /\ UNCHANGED rx_queue
      /\ IF attempts + 1 >= MaxAttempts
         THEN /\ FinishPacket(p, r)
              /\ attempts' = 0 /\ max_attempts_flag' = TRUE
         ELSE /\ state' = "WaitRetransmit" /\ attempts' = attempts + 1
              /\ rf' = r /\ pool' = p
              /\ UNCHANGED <<pid, tx_idx, max_attempts_flag, air_pid, acked>>
  BY DEF OnNoAck
<1>2. /\ tm' \in TimerType /\ ack_rx_idx' \in Opt /\ rx_queue' \in Seq(Buf)
  BY <1>1, TimerOpsType, NoIdxFacts DEF TypeOK
<1>3. p \in [Buf -> BufState] /\ r \in RadioType
  BY PoolOpsType, SeenType, RadioOpsType, NoIdxFacts DEF TypeOK
<1> HIDE DEF p, r
<1>4. CASE attempts + 1 >= MaxAttempts
  <2>1. /\ pool' \in [Buf -> BufState] /\ state' \in StatePtx
        /\ pid' \in 0 .. 3 /\ tx_idx' \in Opt /\ rf' \in RadioType
        /\ air_pid' \in -1 .. 3 /\ acked' \in BOOLEAN
    BY <1>1, <1>3, <1>4, FinishPacketType
  <2>2. attempts' = 0 /\ max_attempts_flag' = TRUE
    BY <1>1, <1>4
  <2>3. QED
    BY <1>2, <2>1, <2>2 DEF HandlerType
<1>5. CASE ~(attempts + 1 >= MaxAttempts)
  BY <1>1, <1>2, <1>3, <1>5 DEF TypeOK, HandlerType, StatePtx
<1>6. QED
  BY <1>4, <1>5

\* The retransmit timer keeps the types.
LEMMA OnWaitRetransmitType == TypeOK /\ OnWaitRetransmit => HandlerType'
<1> SUFFICES ASSUME TypeOK, OnWaitRetransmit PROVE HandlerType'
  OBVIOUS
<1>1. rf' = Transmit(Seen, tx_idx, TRUE) \/ rf' = IntOff(Seen)
  BY Zenon DEF OnWaitRetransmit
<1>2. Seen \in RadioType /\ tx_idx \in Opt
  BY SeenType DEF TypeOK
<1>3. Transmit(Seen, tx_idx, TRUE) \in RadioType /\ IntOff(Seen) \in RadioType
  BY <1>2, RadioOpsType
<1>4. state' \in StatePtx
  BY DEF OnWaitRetransmit, StatePtx
<1>5. rf' \in RadioType
  BY <1>1, <1>3, Zenon
<1>6. QED
  BY <1>4, <1>5 DEF OnWaitRetransmit, TypeOK, HandlerType

\* Clearing the pending bit gives a pending bit.
LEMMA UnpendType ==
  ASSUME NEW n \in [radio : BOOLEAN, timer : BOOLEAN], NEW r \in RadioType
  PROVE  /\ UnpendRadio(n, r) \in [radio : BOOLEAN, timer : BOOLEAN]
         /\ PendRadio(n) \in [radio : BOOLEAN, timer : BOOLEAN]
         /\ Line(r) \in BOOLEAN
BY DEF UnpendRadio, PendRadio, Line, RadioType

\* What the wrapper adds to a handler keeps the types (isr.rs:240-261).
LEMMA RadioIsrType ==
  ASSUME TypeOK, HandlerType',
         timer_flag' = FALSE,
         suspend_signal' = IF /\ suspend_requested /\ state' = "Idle"
                              /\ suspend_signal = "registered"
                           THEN "woken" ELSE suspend_signal,
         nvic' = UnpendRadio(nvic, rf'),
         UNCHANGED <<suspend_requested, saved, no_ack, taskVars>>
  PROVE  TypeOK'
<1>1. nvic' \in [radio : BOOLEAN, timer : BOOLEAN]
  BY UnpendType DEF TypeOK, HandlerType
<1>2. suspend_signal' \in {"none", "registered", "woken"}
  BY DEF TypeOK
<1>3. RestType'
  BY <1>1, <1>2 DEF TypeOK, RestType, taskVars, MaskedCtl
<1>4. QED
  BY <1>3, TypePrime

\* The interrupt handlers keep the types.
LEMMA IsrType == TypeOK /\ Isr => TypeOK'
<1> SUFFICES ASSUME TypeOK, Isr PROVE TypeOK'
  OBVIOUS
<1>1. CASE RadioIsr(IgnoreUserEvent)
  BY <1>1, IgnoreUserEventType, RadioIsrType DEF RadioIsr
<1>2. CASE RadioIsr(OnIdle)
  BY <1>2, OnIdleType, RadioIsrType DEF RadioIsr
<1>3. CASE RadioIsr(OnTxNoAck)
  BY <1>3, OnTxNoAckType, RadioIsrType DEF RadioIsr
<1>4. CASE RadioIsr(OnTx)
  BY <1>4, OnTxType, RadioIsrType DEF RadioIsr
<1>5. CASE RadioIsr(OnAck)
  BY <1>5, OnAckType, RadioIsrType DEF RadioIsr
<1>6. CASE RadioIsr(OnNoAck)
  BY <1>6, OnNoAckType, RadioIsrType DEF RadioIsr
<1>7. CASE RadioIsr(OnWaitRetransmit)
  BY <1>7, OnWaitRetransmitType, RadioIsrType DEF RadioIsr
<1>8. CASE TimerIsr
  <2>1. tm' \in TimerType
    BY <1>8, TimerOpsType DEF TimerIsr, TypeOK
  <2>2. QED
    BY <1>8, <2>1 DEF TimerIsr, TypeOK, poolVars, smVars, taskVars, MaskedCtl
<1>9. QED
  BY <1>1, <1>2, <1>3, <1>4, <1>5, <1>6, <1>7, <1>8 DEF Isr

\* Time and the peer keep the types.
LEMMA TickType == TypeOK /\ Tick => TypeOK'
<1> SUFFICES ASSUME TypeOK, Tick PROVE TypeOK'
  OBVIOUS
<1>1. tm' \in TimerType
  BY TimerOpsType DEF Tick, TypeOK
<1>2. rf' \in RadioType /\ acked' \in BOOLEAN
  <2>1. CASE UNCHANGED <<rf, acked>>
    BY <2>1 DEF TypeOK
  <2>2. CASE /\ rf' = IF rf.left <= 1 THEN TxEnd(rf) ELSE [rf EXCEPT !.left = @ - 1]
             /\ UNCHANGED acked
    <3>1. TxEnd(rf) \in RadioType
      BY RadioOpsType, NoIdxFacts DEF TypeOK
    <3>2. ~(rf.left <= 1) => [rf EXCEPT !.left = @ - 1] \in RadioType
      BY PtxAssumption DEF TypeOK, RadioType
    <3>3. QED
      BY <2>2, <3>1, <3>2 DEF TypeOK
  <2>3. CASE \E ok \in BOOLEAN : rf' = RxEnd(rf, ok) /\ acked' = (acked \/ ok)
    <3>1. PICK ok \in BOOLEAN : rf' = RxEnd(rf, ok) /\ acked' = (acked \/ ok)
      BY <2>3
    <3>2. rf' \in RadioType
      BY <3>1, RadioOpsType, NoIdxFacts DEF TypeOK
    <3>3. acked' \in BOOLEAN
      BY <3>1
    <3>4. QED
      BY <3>2, <3>3
  <2>4. QED
    BY <2>1, <2>2, <2>3 DEF Tick
<1>3. nvic' \in [radio : BOOLEAN, timer : BOOLEAN]
  <2>1. Line(rf') \in BOOLEAN
    BY <1>2, UnpendType DEF TypeOK
  <2>2. QED
    BY <2>1 DEF Tick
<1>4. QED
  BY <1>1, <1>2, <1>3 DEF Tick, TypeOK, poolVars, smVars, taskVars, MaskedCtl

\* The sending task keeps the types.
LEMMA SendingType == TypeOK /\ Sending => TypeOK'
<1> SUFFICES ASSUME TypeOK, Sending PROVE TypeOK'
  OBVIOUS
<1> USE DEF TypeOK, smVars, driverVars, hwVars, poolVars, MaskedCtl
<1>1. CASE SendAlloc
  <2>1. PICK i \in AllocTxChoice(pool), na \in NoAckKinds :
          /\ pool' = AllocTx(pool, i) /\ send_idx' = i
          /\ no_ack' = [no_ack EXCEPT ![i] = na]
    BY <1>1 DEF SendAlloc
  <2>2. i \in Opt /\ na \in BOOLEAN
    BY ChoiceType, NoIdxFacts, PtxAssumption
  <2>3. pool' \in [Buf -> BufState] /\ no_ack' \in [Buf -> BOOLEAN]
    BY <2>1, <2>2, PoolOpsType
  <2>4. QED
    BY <1>1, <2>1, <2>2, <2>3 DEF SendAlloc
<1>2. CASE SendEnqueue
  BY <1>2, PoolOpsType, NoIdxFacts DEF SendEnqueue
<1>3. CASE SendTrigger
  BY <1>3, UnpendType DEF SendTrigger
<1>4. QED
  BY <1>1, <1>2, <1>3 DEF Sending

\* The receiving task keeps the types.
LEMMA ReceivingType == TypeOK /\ Receiving => TypeOK'
<1> SUFFICES ASSUME TypeOK, Receiving PROVE TypeOK'
  OBVIOUS
<1> USE DEF smVars, driverVars, hwVars, poolVars, taskVars
<1>1. CASE Receive
  <2>1. Head(rx_queue) \in Buf /\ Tail(rx_queue) \in Seq(Buf)
    BY <1>1 DEF Receive, TypeOK
  <2>2. QED
    BY <1>1, <2>1 DEF Receive, TypeOK, MaskedCtl
<1>2. CASE DropReceived
  <2>1. PICK i \in held : pool' = Release(pool, i) /\ held' = held \ {i}
    BY <1>2 DEF DropReceived
  <2>2. pool' \in [Buf -> BufState] /\ held' \subseteq Buf
    BY <2>1, PoolOpsType DEF TypeOK
  <2>3. UNCHANGED <<rx_queue, smVars, driverVars, no_ack, hwVars, ctl, sender,
                    send_idx, air_pid, acked>>
    BY <1>2 DEF DropReceived
  <2>4. QED
    BY <2>2, <2>3 DEF TypeOK, MaskedCtl
<1>3. CASE TakeMaxAttempts
  <2>1. max_attempts_flag' = FALSE
    BY <1>3, Zenon DEF TakeMaxAttempts
  <2>2. max_attempts_flag' \in BOOLEAN
    BY <2>1, Zenon
  <2>3. QED
    BY <1>3, <2>2 DEF TakeMaxAttempts, TypeOK, MaskedCtl
<1>4. QED
  BY <1>1, <1>2, <1>3 DEF Receiving

\* A step of the control task that changes only its control state
LEMMA MoveType ==
  ASSUME TypeOK, NEW from,
         NEW to \in MaskedCtl \cup {"idle", "busy", "flagged", "poll",
                                     "registered", "wait", "ready"},
         Move(from, to)
  PROVE  TypeOK'
BY DEF Move, TypeOK, poolVars, smVars, driverVars, hwVars, MaskedCtl

\* do_suspend keeps the types.
LEMMA SuspendType ==
  ASSUME TypeOK, NEW c, Suspend(c)
  PROVE  TypeOK'
<1>1. pool' \in [Buf -> BufState] /\ saved' \in {"none", "Idle", "ForcedIdle"}
  BY PoolOpsType DEF Suspend, DoSuspend, TypeOK
<1>2. rf' \in RadioType
  BY RadioOpsType, NoIdxFacts DEF Suspend, DoSuspend, TypeOK
<1>3. tm' \in TimerType
  BY TimerOpsType DEF Suspend, DoSuspend, TypeOK
<1>4. nvic' \in [radio : BOOLEAN, timer : BOOLEAN]
  BY <1>2, UnpendType DEF Suspend, DoSuspend, TypeOK
<1>5. state' \in StatePtx /\ attempts' \in Nat /\ tx_idx' \in Opt
      /\ ack_rx_idx' \in Opt /\ suspend_requested' \in BOOLEAN
  BY NoIdxFacts DEF Suspend, DoSuspend, StatePtx
<1>6. ctl' \in MaskedCtl
  BY DEF Suspend, MaskedCtl
<1>7. QED
  BY <1>1, <1>2, <1>3, <1>4, <1>5, <1>6 DEF Suspend, TypeOK

\* The control task keeps the types.
LEMMA ControlType ==
  TypeOK /\ (BeginCall \/ Control \/ CancelSuspend \/ Restore) => TypeOK'
<1> SUFFICES ASSUME TypeOK, BeginCall \/ Control \/ CancelSuspend \/ Restore
             PROVE  TypeOK'
  OBVIOUS
<1>m. \A from, to : /\ Move(from, to)
                    /\ to \in MaskedCtl \cup {"idle", "busy", "flagged", "poll",
                                               "registered", "wait", "ready"}
                    => TypeOK'
  BY MoveType
<1>s. \A c : Suspend(c) => TypeOK'
  BY SuspendType
<1>1. CASE BeginCall
  BY <1>1, <1>m DEF BeginCall, MaskedCtl
<1>2. CASE SetPipe
  BY <1>2, UnpendType
  DEF SetPipe, TypeOK, poolVars, smVars, driverVars, MaskedCtl
<1>3. CASE Query
  BY <1>3, <1>m DEF Query
<1>4. CASE TrySuspend \/ SuspendFast \/ SuspendRecheck
  BY <1>4, <1>m, <1>s
  DEF TrySuspend, SuspendFast, SuspendRecheck, SuspendIfIdle, MaskedCtl
<1>5. CASE SuspendFinal
  BY <1>5, <1>m, <1>s DEF SuspendFinal, MaskedCtl
<1>6. CASE PollRead
  BY <1>6, <1>m DEF PollRead, MaskedCtl
<1>7. CASE RequestSuspend \/ PollRegister \/ PollAgain \/ CancelSuspend
  <2>1. CASE RequestSuspend
    BY <2>1 DEF RequestSuspend, TypeOK, poolVars, smVars, hwVars, MaskedCtl
  <2>2. CASE PollRegister
    BY <2>2 DEF PollRegister, TypeOK, poolVars, smVars, hwVars, MaskedCtl
  <2>3. CASE PollAgain
    BY <2>3 DEF PollAgain, TypeOK, poolVars, smVars, hwVars, MaskedCtl
  <2>4. CASE CancelSuspend
    BY <2>4 DEF CancelSuspend, TypeOK, poolVars, smVars, hwVars, MaskedCtl
  <2>5. QED
    BY <1>7, <2>1, <2>2, <2>3, <2>4
<1>8. CASE Restore
  <2>1. rf' \in RadioType
    BY <1>8, RadioOpsType, NoIdxFacts DEF Restore, DoRestore, TypeOK
  <2>2. nvic' \in [radio : BOOLEAN, timer : BOOLEAN]
    BY <1>8, <2>1, UnpendType DEF Restore, DoRestore, TypeOK
  <2>3. QED
    BY <1>8, <2>1, <2>2 DEF Restore, DoRestore, TypeOK, poolVars, StatePtx, MaskedCtl
<1>9. QED
  BY <1>1, <1>2, <1>3, <1>4, <1>5, <1>6, <1>7, <1>8 DEF Control

\* The driver starts well typed.
LEMMA InitType == Init => TypeOK
<1> SUFFICES ASSUME Init PROVE TypeOK
  OBVIOUS
<1>1. rf \in RadioType /\ tm \in TimerType
  BY PtxAssumption, NoIdxFacts
  DEF Init, NewMachine, NewDriver, RadioReset, TimerReset, RadioType, TimerType, CompareState
<1>2. pool \in [Buf -> BufState] /\ rx_queue \in Seq(Buf)
  BY DEF Init, NewMachine, NewDriver, PoolInit, BufState
<1>3. /\ state \in StatePtx /\ attempts \in Nat /\ pid \in 0 .. 3
      /\ tx_idx \in Opt /\ ack_rx_idx \in Opt /\ send_idx \in Opt
      /\ held \subseteq Buf /\ air_pid \in -1 .. 3
  BY NoIdxFacts DEF Init, NewMachine, NewDriver, StatePtx
<1>4. /\ timer_flag \in BOOLEAN /\ max_attempts_flag \in BOOLEAN
      /\ suspend_requested \in BOOLEAN /\ acked \in BOOLEAN
      /\ suspend_signal \in {"none", "registered", "woken"}
      /\ saved \in {"none", "Idle", "ForcedIdle"}
      /\ sender \in {"idle", "alloc", "queued"}
  BY DEF Init, NewMachine, NewDriver
<1>5. no_ack \in [Buf -> BOOLEAN] /\ nvic \in [radio : BOOLEAN, timer : BOOLEAN]
  BY DEF Init, NewMachine, NewDriver
<1>6. ctl \in MaskedCtl \cup {"idle", "busy", "flagged", "poll", "registered",
                              "wait", "ready"}
  BY DEF Init, NewMachine, NewDriver
<1>7. QED
  BY <1>1, <1>2, <1>3, <1>4, <1>5, <1>6 DEF TypeOK

\* Every step keeps the types.
LEMMA NextType == TypeOK /\ [Next]_vars => TypeOK'
<1> SUFFICES ASSUME TypeOK, [Next]_vars PROVE TypeOK'
  OBVIOUS
<1>1. CASE UNCHANGED vars
  BY <1>1 DEF vars, TypeOK, smVars, hwVars, taskVars
<1>2. CASE Next
  BY <1>2, IsrType, TickType, SendingType, ReceivingType, ControlType DEF Next
<1>3. QED
  BY <1>1, <1>2

\* Every variable of the PTX driver always holds a value of its type, in
\* particular tx_idx and ack_rx_idx are buffers or NO_IDX, the PID stays in
\* two bits and the pool only ever holds the five ownership states.
THEOREM PtxTypeCorrect == Spec => []TypeOK
BY InitType, NextType, PTL DEF Spec

-----------------------------------------------------------------------------
(* The suspend protocol.                                                   *)

\* Why suspend finds the driver idle when it comes to do_suspend: the
\* request stays up while it waits, and an idle handler that sees the
\* request does not start a packet.
SuspendInv ==
  /\ ctl \in {"flagged", "recheck", "poll", "registered", "read", "wait",
              "ready", "final"} => suspend_requested
  /\ ctl \in {"ready", "final"} => state = "Idle"
  /\ SuspendNeverForces

\* The handlers leave Idle alone once a suspend is requested.
LEMMA SuspendInvIsr == SuspendInv /\ Isr => SuspendInv'
<1> SUFFICES ASSUME SuspendInv, Isr PROVE SuspendInv'
  OBVIOUS
<1>1. UNCHANGED <<ctl, suspend_requested, saved>>
  BY DEF Isr, RadioIsr, TimerIsr, taskVars
<1>2. ctl \in {"ready", "final"} => UNCHANGED state
  <2> SUFFICES ASSUME ctl \in {"ready", "final"} PROVE UNCHANGED state
    OBVIOUS
  <2>1. suspend_requested /\ state = "Idle"
    BY DEF SuspendInv
  <2>2. QED
    BY <2>1 DEF Isr, RadioIsr, TimerIsr, IgnoreUserEvent, OnIdle, OnTxNoAck, OnTx,
       OnAck, OnNoAck, OnWaitRetransmit, smVars
<1>3. QED
  BY <1>1, <1>2 DEF SuspendInv, SuspendNeverForces

\* The control task goes past its check in Idle only.
LEMMA SuspendInvControl ==
  SuspendInv /\ (BeginCall \/ Control \/ CancelSuspend \/ Restore) => SuspendInv'
<1> SUFFICES ASSUME SuspendInv,
                    BeginCall \/ Control \/ CancelSuspend \/ Restore
             PROVE  SuspendInv'
  OBVIOUS
<1> USE DEF SuspendInv, SuspendNeverForces
<1>m. \A from, to : Move(from, to) =>
        ctl = from /\ ctl' = to /\ UNCHANGED <<state, suspend_requested, saved>>
  BY DEF Move, smVars, driverVars
<1>s. \A c : state = "Idle" /\ Suspend(c) => saved' = "Idle" /\ ctl' = "suspended"
  BY DEF Suspend, DoSuspend
<1>1. CASE BeginCall
  BY <1>1, <1>m DEF BeginCall
<1>2. CASE SetPipe \/ Query
  BY <1>2, <1>m DEF SetPipe, Query, smVars, driverVars
<1>3. CASE TrySuspend \/ SuspendFast \/ SuspendRecheck
  BY <1>3, <1>m, <1>s DEF TrySuspend, SuspendFast, SuspendRecheck, SuspendIfIdle
<1>4. CASE RequestSuspend \/ PollRegister \/ PollAgain \/ CancelSuspend
  BY <1>4 DEF RequestSuspend, PollRegister, PollAgain, CancelSuspend, smVars
<1>5. CASE PollRead
  BY <1>5, <1>m DEF PollRead
<1>6. CASE SuspendFinal
  <2>1. CASE Move("ready", "final")
    BY <2>1, <1>m
  <2>2. CASE Suspend("final")
    <3>1. state = "Idle"
      BY <2>2 DEF Suspend
    <3>2. QED
      BY <2>2, <3>1, <1>s
  <2>3. QED
    BY <1>6, <2>1, <2>2 DEF SuspendFinal
<1>7. CASE Restore
  BY <1>7 DEF Restore, DoRestore
<1>8. QED
  BY <1>1, <1>2, <1>3, <1>4, <1>5, <1>6, <1>7 DEF Control

\* Every step keeps what suspend relies on.
LEMMA SuspendInvNext == SuspendInv /\ [Next]_vars => SuspendInv'
<1> SUFFICES ASSUME SuspendInv, [Next]_vars PROVE SuspendInv'
  OBVIOUS
<1> USE DEF SuspendInv, SuspendNeverForces
<1>1. CASE Tick
  BY <1>1 DEF Tick, smVars, taskVars
<1>2. CASE Sending
  BY <1>2 DEF Sending, SendAlloc, SendEnqueue, SendTrigger, smVars, driverVars
<1>3. CASE Receiving
  BY <1>3 DEF Receiving, Receive, DropReceived, TakeMaxAttempts, smVars,
              driverVars, taskVars
<1>4. CASE UNCHANGED vars
  BY <1>4 DEF vars, smVars, taskVars
<1>5. QED
  BY <1>1, <1>2, <1>3, <1>4, SuspendInvIsr, SuspendInvControl DEF Next

\* No call of suspend or try_suspend ever finds a transaction in progress at
\* the point where it stops the radio: do_suspend never reports ForcedIdle
\* (isr.rs:430-493, state_machine.rs:605-640).
THEOREM PtxSuspendNeverForces == Spec => []SuspendNeverForces
<1>1. Init => SuspendInv
  BY DEF Init, NewMachine, NewDriver, SuspendInv, SuspendNeverForces
<1>2. SuspendInv => SuspendNeverForces
  BY DEF SuspendInv
<1>3. QED
  BY <1>1, <1>2, SuspendInvNext, PTL DEF Spec

-----------------------------------------------------------------------------
(* Silence while suspended.                                                *)

\* No handler starts the radio of a suspended driver.
LEMMA QuietIsr == QuietWhileSuspended /\ Isr => QuietWhileSuspended'
<1> SUFFICES ASSUME QuietWhileSuspended, Isr, ctl' = "suspended"
             PROVE  QuietWhileSuspended'
  BY DEF QuietWhileSuspended
<1>1. ctl = "suspended"
  BY DEF Isr, RadioIsr, TimerIsr, taskVars
<1>2. TimerIsr
  BY <1>1 DEF Isr, RadioIsr, RadioReady, RadioMasked, MaskedCtl
<1>3. ~tm.running /\ tm.cc0 = "off" /\ tm.cc1 = "off"
  BY <1>1 DEF QuietWhileSuspended
<1>4. UNCHANGED <<ctl, state, rf, tm>>
  BY <1>2, <1>3 DEF TimerIsr, smVars, taskVars
<1>5. QED
  BY <1>4 DEF QuietWhileSuspended

\* What do_suspend leaves behind is silent whatever it found.
LEMMA SuspendQuiet ==
  ASSUME TypeOK, NEW c, Suspend(c)
  PROVE  QuietWhileSuspended'
<1>1. state' = "Idle"
  BY DEF Suspend, DoSuspend
<1>2. rf' = Stop(rf) /\ rf \in RadioType
  BY DEF Suspend, DoSuspend, TypeOK
<1>3. rf'.mode = "off" /\ ~rf'.inten /\ ~rf'.disabled
  BY <1>2 DEF Stop, RadioType
<1>4. tm' = DisarmAckTimeout(DisarmRetransmit(StopTimer(tm))) /\ tm \in TimerType
  BY DEF Suspend, DoSuspend, TypeOK
<1>5. ~tm'.running /\ tm'.cc0 = "off" /\ tm'.cc1 = "off"
  BY <1>4 DEF DisarmAckTimeout, DisarmRetransmit, StopTimer, TimerType
<1>6. QED
  BY <1>1, <1>3, <1>5 DEF QuietWhileSuspended

\* The control task leaves a suspended driver quiet.
LEMMA QuietControl ==
  TypeOK /\ QuietWhileSuspended /\ (BeginCall \/ Control \/ CancelSuspend \/ Restore)
    => QuietWhileSuspended'
<1> SUFFICES ASSUME TypeOK, BeginCall \/ Control \/ CancelSuspend \/ Restore
             PROVE  QuietWhileSuspended'
  OBVIOUS
<1>m. \A from, to : to # "suspended" /\ Move(from, to) => QuietWhileSuspended'
  BY DEF Move, QuietWhileSuspended
<1>s. \A c : Suspend(c) => QuietWhileSuspended'
  BY SuspendQuiet
<1>1. CASE BeginCall \/ Query \/ PollRead
  BY <1>1, <1>m DEF BeginCall, Query, PollRead
<1>2. CASE SetPipe \/ RequestSuspend \/ PollRegister \/ PollAgain
             \/ CancelSuspend \/ Restore
  BY <1>2 DEF SetPipe, RequestSuspend, PollRegister, PollAgain, CancelSuspend,
              Restore, QuietWhileSuspended
<1>3. CASE TrySuspend \/ SuspendFast \/ SuspendRecheck \/ SuspendFinal
  BY <1>3, <1>m, <1>s
  DEF TrySuspend, SuspendFast, SuspendRecheck, SuspendFinal, SuspendIfIdle
<1>4. QED
  BY <1>1, <1>2, <1>3 DEF Control

\* Every step keeps a suspended driver quiet.
LEMMA QuietNext ==
  TypeOK /\ QuietWhileSuspended /\ [Next]_vars => QuietWhileSuspended'
<1> SUFFICES ASSUME TypeOK, QuietWhileSuspended, [Next]_vars
             PROVE  QuietWhileSuspended'
  OBVIOUS
<1>1. CASE Tick
  <2>1. ctl # "suspended"
    BY <1>1 DEF Tick, QuietWhileSuspended
  <2>2. QED
    BY <1>1, <2>1 DEF Tick, taskVars, QuietWhileSuspended
<1>2. CASE Sending
  BY <1>2 DEF Sending, SendAlloc, SendEnqueue, SendTrigger, smVars, hwVars,
              QuietWhileSuspended
<1>3. CASE Receiving
  BY <1>3 DEF Receiving, Receive, DropReceived, TakeMaxAttempts, smVars, hwVars,
              taskVars, QuietWhileSuspended
<1>4. CASE UNCHANGED vars
  BY <1>4 DEF vars, smVars, hwVars, taskVars, QuietWhileSuspended
<1>5. QED
  BY <1>1, <1>2, <1>3, <1>4, QuietIsr, QuietControl DEF Next

\* From the end of suspend to restore nothing transmits, listens, counts or
\* can interrupt, whatever was pending and whatever the tasks queue
\* (state_machine.rs:605-640, isr.rs:430-560).
THEOREM PtxQuietWhileSuspended == Spec => []QuietWhileSuspended
<1>1. Init => TypeOK /\ QuietWhileSuspended
  BY InitType DEF Init, NewMachine, NewDriver, QuietWhileSuspended
<1>2. TypeOK /\ QuietWhileSuspended /\ [Next]_vars => TypeOK' /\ QuietWhileSuspended'
  BY NextType, QuietNext
<1>3. QED
  BY <1>1, <1>2, PTL DEF Spec

-----------------------------------------------------------------------------
(* Ownership of the buffers.                                               *)

\* From pool p to pool q no buffer of the sending task, the receive queue or
\* the application changes state, and none is received.
Untouched(p, q) ==
  \A i \in Buf :
    /\ p[i] \in {"tx_allocated", "rx_queued"} => q[i] = p[i]
    /\ q[i] = "rx_queued" => p[i] = "rx_queued"

\* Who does not write the pool state of the others' buffers leaves them theirs.
LEMMA Frame ==
  ASSUME TypeOK, SenderOwns, ReceiverOwns, Untouched(pool, pool'),
         UNCHANGED <<rx_queue, sender, send_idx, held>>
  PROVE  SenderOwns' /\ ReceiverOwns'
<1>1. SenderOwns'
  BY DEF TypeOK, SenderOwns, Untouched, Opt
<1>2. \A k \in 1 .. Len(rx_queue) : rx_queue[k] \in Buf
  BY DEF TypeOK
<1>3. ReceiverOwns'
  BY <1>2 DEF TypeOK, ReceiverOwns, Untouched
<1>4. QED
  BY <1>1, <1>3

\* Releasing a buffer in DMA, or one that is none, touches nobody else's.
LEMMA ReleaseUntouched ==
  ASSUME NEW p \in [Buf -> BufState], NEW i \in Opt,
         i # NoIdx => p[i] = "in_dma"
  PROVE  /\ Untouched(p, Release(p, i))
         /\ \A j \in Buf : j # i => Release(p, i)[j] = p[j]
BY NoIdxFacts DEF Untouched, Release, Store, Opt

\* Handing a buffer to the DMA touches no other buffer.
LEMMA ToDmaUntouched ==
  ASSUME NEW p \in [Buf -> BufState], NEW i \in Buf,
         p[i] \in {"free", "tx_queued"}
  PROVE  /\ Untouched(p, ToDma(p, i)) /\ ToDma(p, i)[i] = "in_dma"
         /\ \A j \in Buf : j # i => ToDma(p, i)[j] = p[j]
BY DEF Untouched, ToDma, Store

\* What two pool operations in turn leave alone, both leave alone.
LEMMA UntouchedTrans ==
  ASSUME NEW p, NEW q, NEW r, Untouched(p, q), Untouched(q, r)
  PROVE  Untouched(p, r)
BY DEF Untouched

\* Starting the next packet: what tx_idx names afterwards is in DMA.
LEMMA SendNextOwns ==
  ASSUME TypeOK, NEW t \in Opt, NEW p \in [Buf -> BufState], NEW r, NEW d,
         t # NoIdx => p[t] = "in_dma", SendNext(t, p, r, d)
  PROVE  MachineOwns' /\ Untouched(p, pool')
<1>1. CASE t # NoIdx
  <2>1. state' = "Tx" /\ tx_idx' = t /\ pool' = p
    BY <1>1 DEF SendNext
  <2>2. QED
    BY <1>1, <2>1 DEF MachineOwns, Untouched
<1>2. CASE t = NoIdx /\ DequeueTxChoice(p) # {}
  <2>1. PICK i \in DequeueTxChoice(p) :
          /\ pool' = ToDma(p, i) /\ tx_idx' = i
          /\ state' = IF no_ack[i] THEN "TxNoAck" ELSE "Tx"
    BY <1>2 DEF SendNext
  <2>2. i \in Buf /\ i # NoIdx /\ p[i] = "tx_queued"
    BY ChoiceType, NoIdxFacts
  <2>3. Untouched(p, pool') /\ pool'[i] = "in_dma"
    BY <2>1, <2>2, ToDmaUntouched
  <2>4. state' # "WaitAck"
    BY <2>1
  <2>5. QED
    BY <2>1, <2>2, <2>3, <2>4 DEF MachineOwns
<1>3. CASE t = NoIdx /\ DequeueTxChoice(p) = {}
  <2>1. state' = "Idle" /\ tx_idx' = NoIdx /\ pool' = p
    BY <1>3 DEF SendNext
  <2>2. QED
    BY <2>1 DEF MachineOwns, Untouched
<1>4. QED
  BY <1>1, <1>2, <1>3

\* Finishing a packet keeps one owner for each buffer.
LEMMA FinishPacketOwns ==
  ASSUME TypeOK, NEW p \in [Buf -> BufState], NEW r,
         tx_idx # NoIdx => p[tx_idx] = "in_dma", FinishPacket(p, r)
  PROVE  MachineOwns' /\ Untouched(p, pool')
<1> DEFINE q == Release(p, tx_idx)
<1>1. q \in [Buf -> BufState] /\ Untouched(p, q)
  BY PoolOpsType, ReleaseUntouched DEF TypeOK
<1>2. CASE suspend_requested
  <2>1. state' = "Idle" /\ tx_idx' = NoIdx /\ pool' = q
    BY <1>2 DEF FinishPacket, GoIdle
  <2>2. QED
    BY <1>1, <2>1 DEF MachineOwns
<1>3. CASE ~suspend_requested
  <2>1. SendNext(NoIdx, q, r, AdvancePid)
    BY <1>3 DEF FinishPacket
  <2>2. MachineOwns' /\ Untouched(q, pool')
    BY <1>1, <2>1, SendNextOwns, NoIdxFacts
  <2>3. QED
    BY <1>1, <2>2, UntouchedTrans
<1>4. QED
  BY <1>2, <1>3

\* The end of a transmission keeps one owner for each buffer.
LEMMA OnTxOwns ==
  ASSUME TypeOK, OneOwner, OnTx
  PROVE  MachineOwns' /\ Untouched(pool, pool')
<1>1. tx_idx \in Buf /\ pool[tx_idx] = "in_dma" /\ UNCHANGED tx_idx
  BY DEF OnTx, OneOwner, MachineOwns, TypeOK, Opt
<1>2. CASE RxToDmaChoice(pool) # {}
  <2>1. PICK i \in RxToDmaChoice(pool) : pool' = ToDma(pool, i) /\ ack_rx_idx' = i
    BY <1>2 DEF OnTx
  <2>2. i \in Buf /\ pool[i] = "free" /\ i # tx_idx
    BY <1>1, ChoiceType
  <2>3. /\ Untouched(pool, pool') /\ pool'[i] = "in_dma"
        /\ pool'[tx_idx] = "in_dma"
    BY <1>1, <2>1, <2>2, ToDmaUntouched DEF TypeOK
  <2>4. QED
    BY <1>1, <2>1, <2>2, <2>3, NoIdxFacts DEF MachineOwns
<1>3. CASE RxToDmaChoice(pool) = {}
  <2>1. state' = "Idle" /\ UNCHANGED pool
    BY <1>3 DEF OnTx
  <2>2. QED
    BY <1>1, <2>1 DEF MachineOwns, Untouched
<1>4. QED
  BY <1>2, <1>3

\* An ACK timeout keeps one owner for each buffer.
LEMMA OnNoAckOwns ==
  ASSUME TypeOK, OneOwner, OnNoAck
  PROVE  MachineOwns' /\ Untouched(pool, pool')
<1> DEFINE p == Release(pool, ack_rx_idx)
           r == Stop(Seen)
<1>1. /\ tx_idx \in Buf /\ pool[tx_idx] = "in_dma"
      /\ ack_rx_idx \in Buf /\ ack_rx_idx # tx_idx
      /\ pool[ack_rx_idx] = "in_dma"
  BY DEF OnNoAck, OneOwner, MachineOwns, TypeOK, Opt
<1>2. /\ p \in [Buf -> BufState] /\ p[tx_idx] = "in_dma" /\ Untouched(pool, p)
  BY <1>1, PoolOpsType, ReleaseUntouched, NoIdxFacts DEF TypeOK
<1>3. \/ FinishPacket(p, r)
      \/ state' = "WaitRetransmit" /\ pool' = p /\ UNCHANGED tx_idx
  BY DEF OnNoAck
<1> HIDE DEF p, r
<1>4. CASE FinishPacket(p, r)
  BY <1>2, <1>4, FinishPacketOwns, UntouchedTrans
<1>5. CASE state' = "WaitRetransmit" /\ pool' = p /\ UNCHANGED tx_idx
  BY <1>1, <1>2, <1>5, NoIdxFacts DEF MachineOwns
<1>6. QED
  BY <1>3, <1>4, <1>5

\* The handlers that leave the receive queue alone
LEMMA HandlerOwns ==
  ASSUME TypeOK, OneOwner,
         IgnoreUserEvent \/ OnIdle \/ OnTxNoAck \/ OnTx \/ OnNoAck
           \/ OnWaitRetransmit
  PROVE  MachineOwns' /\ Untouched(pool, pool') /\ UNCHANGED rx_queue
<1>1. CASE IgnoreUserEvent
  BY <1>1 DEF IgnoreUserEvent, OneOwner, MachineOwns, Untouched, smVars
<1>2. CASE OnIdle
  <2>1. CASE suspend_requested
    BY <1>2, <2>1 DEF OnIdle, OneOwner, MachineOwns, Untouched
  <2>2. CASE ~suspend_requested
    BY <1>2, <2>2, SendNextOwns DEF OnIdle, OneOwner, MachineOwns, TypeOK
  <2>3. QED
    BY <2>1, <2>2
<1>3. CASE OnTxNoAck
  BY <1>3, FinishPacketOwns DEF OnTxNoAck, OneOwner, MachineOwns, TypeOK
<1>4. CASE OnTx
  BY <1>4, OnTxOwns DEF OnTx
<1>5. CASE OnNoAck
  BY <1>5, OnNoAckOwns DEF OnNoAck
<1>6. CASE OnWaitRetransmit
  <2>1. UNCHANGED <<tx_idx, pool, rx_queue>> /\ state' \in {"Tx", "Idle"}
    BY <1>6 DEF OnWaitRetransmit
  <2>2. QED
    BY <1>6, <2>1 DEF OnWaitRetransmit, OneOwner, MachineOwns, Untouched
<1>7. QED
  BY <1>1, <1>2, <1>3, <1>4, <1>5, <1>6

\* A received buffer moves from the state machine to the receive queue.
LEMMA RxSendOwns ==
  ASSUME TypeOK, ReceiverOwns, NEW i \in Buf, pool[i] = "in_dma",
         rx_queue' = RxSend(rx_queue, i), UNCHANGED held,
         Untouched(RxComplete(pool, i), pool')
  PROVE  ReceiverOwns'
<1>1. /\ RxComplete(pool, i)[i] = "rx_queued"
      /\ \A j \in Buf : j # i => RxComplete(pool, i)[j] = pool[j]
  BY DEF RxComplete, Store, TypeOK
<1>2. \A j \in Buf : j = i \/ pool[j] = "rx_queued" => pool'[j] = "rx_queued"
  BY <1>1 DEF Untouched
<1>3. i \notin held /\ \A k \in 1 .. Len(rx_queue) : rx_queue[k] \in Buf \ {i}
  BY DEF ReceiverOwns, TypeOK
<1>4. \A j \in held' : pool'[j] = "rx_queued"
  BY <1>2 DEF ReceiverOwns, TypeOK
<1>5. CASE Len(rx_queue) < N
  <2>1. /\ rx_queue' = Append(rx_queue, i) /\ Len(rx_queue') = Len(rx_queue) + 1
        /\ \A k \in 1 .. Len(rx_queue) : rx_queue'[k] = rx_queue[k]
        /\ rx_queue'[Len(rx_queue) + 1] = i
    BY <1>5 DEF RxSend, TypeOK
  <2>2. \A k \in 1 .. Len(rx_queue') :
          k \in 1 .. Len(rx_queue) \/ k = Len(rx_queue) + 1
    BY <2>1 DEF TypeOK
  <2>3. ASSUME NEW k \in 1 .. Len(rx_queue')
        PROVE  pool'[rx_queue'[k]] = "rx_queued" /\ rx_queue'[k] \notin held'
    BY <1>2, <1>3, <2>1, <2>2 DEF ReceiverOwns
  <2>4. ASSUME NEW k \in 1 .. Len(rx_queue'), NEW l \in 1 .. Len(rx_queue'),
               rx_queue'[k] = rx_queue'[l]
        PROVE  k = l
    BY <1>3, <2>1, <2>2, <2>4 DEF ReceiverOwns
  <2>5. QED
    BY <1>4, <2>3, <2>4 DEF ReceiverOwns
<1>6. CASE ~(Len(rx_queue) < N)
  <2>1. rx_queue' = rx_queue
    BY <1>6 DEF RxSend
  <2>2. QED
    BY <1>2, <1>3, <1>4, <2>1 DEF ReceiverOwns
<1>7. QED
  BY <1>5, <1>6

\* The end of an ACK keeps one owner for each buffer.
LEMMA OnAckOwns ==
  ASSUME TypeOK, OneOwner, OnAck, UNCHANGED <<sender, send_idx, held>>
  PROVE  OneOwner'
<1>1. /\ tx_idx \in Buf /\ pool[tx_idx] = "in_dma"
      /\ ack_rx_idx \in Buf /\ ack_rx_idx # tx_idx
      /\ pool[ack_rx_idx] = "in_dma"
  BY DEF OnAck, OneOwner, MachineOwns, TypeOK, Opt
<1>2. PICK hasPayload \in AckPayloads :
        IF hasPayload /\ ack_rx_idx # NoIdx
        THEN /\ rx_queue' = RxSend(rx_queue, ack_rx_idx)
             /\ FinishPacket(RxComplete(pool, ack_rx_idx), Stop(Seen))
             /\ UNCHANGED ack_rx_idx
        ELSE /\ FinishPacket(Release(pool, ack_rx_idx), Stop(Seen))
             /\ ack_rx_idx' = NoIdx /\ UNCHANGED rx_queue
  BY DEF OnAck
<1>3. CASE hasPayload
  <2> DEFINE p == RxComplete(pool, ack_rx_idx)
  <2>1. rx_queue' = RxSend(rx_queue, ack_rx_idx) /\ FinishPacket(p, Stop(Seen))
    BY <1>1, <1>2, <1>3, NoIdxFacts
  <2>2. /\ p \in [Buf -> BufState] /\ p[tx_idx] = "in_dma"
        /\ \A j \in Buf : j # ack_rx_idx => p[j] = pool[j]
    BY <1>1, PoolOpsType DEF TypeOK, RxComplete, Store
  <2>3. MachineOwns' /\ Untouched(p, pool')
    BY <2>1, <2>2, FinishPacketOwns
  <2>4. SenderOwns'
    BY <1>1, <2>2, <2>3 DEF OneOwner, SenderOwns, Untouched, TypeOK, Opt
  <2>5. ReceiverOwns'
    BY <1>1, <2>1, <2>3, RxSendOwns DEF OneOwner
  <2>6. QED
    BY <2>3, <2>4, <2>5 DEF OneOwner
<1>4. CASE ~hasPayload
  <2> DEFINE p == Release(pool, ack_rx_idx)
  <2>1. UNCHANGED rx_queue /\ FinishPacket(p, Stop(Seen))
    BY <1>2, <1>4
  <2>2. /\ p \in [Buf -> BufState] /\ p[tx_idx] = "in_dma" /\ Untouched(pool, p)
    BY <1>1, PoolOpsType, ReleaseUntouched, NoIdxFacts DEF TypeOK
  <2>3. MachineOwns' /\ Untouched(p, pool')
    BY <2>1, <2>2, FinishPacketOwns
  <2>4. Untouched(pool, pool')
    BY <2>2, <2>3, UntouchedTrans
  <2>5. QED
    BY <2>1, <2>3, <2>4, Frame DEF OneOwner
<1>5. QED
  BY <1>3, <1>4

\* The interrupt handlers keep one owner for each buffer.
LEMMA IsrOwns == TypeOK /\ OneOwner /\ Isr => OneOwner'
<1> SUFFICES ASSUME TypeOK, OneOwner, Isr PROVE OneOwner'
  OBVIOUS
<1>1. UNCHANGED <<ctl, sender, send_idx, held>>
  BY DEF Isr, RadioIsr, TimerIsr, taskVars
<1>2. CASE TimerIsr
  <2>1. UNCHANGED <<state, tx_idx, ack_rx_idx, pool, rx_queue>>
    BY <1>2 DEF TimerIsr, smVars, poolVars
  <2>2. QED
    BY <1>1, <2>1 DEF OneOwner, MachineOwns, SenderOwns, ReceiverOwns
<1>3. CASE OnAck
  BY <1>1, <1>3, OnAckOwns
<1>4. CASE IgnoreUserEvent \/ OnIdle \/ OnTxNoAck \/ OnTx \/ OnNoAck
             \/ OnWaitRetransmit
  BY <1>1, <1>4, HandlerOwns, Frame DEF OneOwner
<1>5. QED
  BY <1>2, <1>3, <1>4 DEF Isr, RadioIsr

\* The sending task keeps one owner for each buffer.
LEMMA SendingOwns == TypeOK /\ OneOwner /\ Sending => OneOwner'
<1> SUFFICES ASSUME TypeOK, OneOwner, Sending PROVE OneOwner'
  OBVIOUS
<1> USE DEF OneOwner, MachineOwns, SenderOwns, ReceiverOwns
<1>1. CASE SendAlloc
  <2>1. PICK i \in AllocTxChoice(pool) : pool' = AllocTx(pool, i) /\ send_idx' = i
    BY <1>1 DEF SendAlloc
  <2>2. i \in Buf /\ i # NoIdx /\ pool[i] = "free"
    BY ChoiceType, NoIdxFacts
  <2>3. /\ pool'[i] = "tx_allocated"
        /\ \A j \in Buf : j # i => pool'[j] = pool[j]
    BY <2>1, <2>2 DEF AllocTx, Store, TypeOK
  <2>4. UNCHANGED <<state, tx_idx, ack_rx_idx, rx_queue, held>>
    BY <1>1 DEF SendAlloc, smVars
  <2>5. QED
    BY <2>1, <2>2, <2>3, <2>4 DEF TypeOK, Opt
<1>2. CASE SendEnqueue
  <2>1. send_idx \in Buf /\ pool[send_idx] = "tx_allocated"
    BY <1>2 DEF SendEnqueue, TypeOK, Opt
  <2>2. \A j \in Buf : j # send_idx => pool'[j] = pool[j]
    BY <1>2, <2>1 DEF SendEnqueue, EnqueueTx, Store, TypeOK
  <2>3. /\ UNCHANGED <<state, tx_idx, ack_rx_idx, rx_queue, held>>
        /\ sender' = "queued" /\ send_idx' = NoIdx
    BY <1>2 DEF SendEnqueue, smVars
  <2>4. QED
    BY <2>1, <2>2, <2>3 DEF TypeOK, Opt
<1>3. CASE SendTrigger
  BY <1>3 DEF SendTrigger, smVars, poolVars
<1>4. QED
  BY <1>1, <1>2, <1>3 DEF Sending

\* The receiving task keeps one owner for each buffer.
LEMMA ReceivingOwns == TypeOK /\ OneOwner /\ Receiving => OneOwner'
<1> SUFFICES ASSUME TypeOK, OneOwner, Receiving PROVE OneOwner'
  OBVIOUS
<1> USE DEF OneOwner, MachineOwns, SenderOwns, ReceiverOwns
<1>1. CASE Receive
  <2>1. /\ UNCHANGED <<state, tx_idx, ack_rx_idx, pool, sender, send_idx>>
        /\ held' = held \cup {Head(rx_queue)} /\ rx_queue' = Tail(rx_queue)
    BY <1>1 DEF Receive, smVars
  <2>2. /\ Len(rx_queue) \in Nat \ {0} /\ Head(rx_queue) = rx_queue[1]
        /\ Len(rx_queue') = Len(rx_queue) - 1
        /\ \A k \in 1 .. Len(rx_queue') : rx_queue'[k] = rx_queue[k + 1]
    BY <1>1, <2>1 DEF Receive, TypeOK
  <2>3. ReceiverOwns'
    <3>1. \A k \in 1 .. Len(rx_queue') :
            k + 1 \in 1 .. Len(rx_queue) /\ k + 1 # 1
      BY <2>2
    <3>2. QED
      BY <2>1, <2>2, <3>1
  <2>4. QED
    BY <2>1, <2>3
<1>2. CASE DropReceived
  <2>1. PICK i \in held : pool' = Release(pool, i) /\ held' = held \ {i}
    BY <1>2 DEF DropReceived
  <2>2. i \in Buf /\ pool[i] = "rx_queued"
        /\ \A j \in Buf : j # i => pool'[j] = pool[j]
    BY <2>1 DEF Release, Store, TypeOK
  <2>3. UNCHANGED <<state, tx_idx, ack_rx_idx, rx_queue, sender, send_idx>>
    BY <1>2 DEF DropReceived, smVars
  <2>4. MachineOwns' /\ SenderOwns'
    BY <2>2, <2>3 DEF TypeOK, Opt
  <2>5. \A k \in 1 .. Len(rx_queue) : rx_queue[k] \in Buf \ {i}
    BY <2>1 DEF TypeOK
  <2>6. ReceiverOwns'
    BY <2>1, <2>2, <2>3, <2>5 DEF TypeOK
  <2>7. QED
    BY <2>4, <2>6
<1>3. CASE TakeMaxAttempts
  BY <1>3 DEF TakeMaxAttempts, smVars, poolVars, taskVars
<1>4. QED
  BY <1>1, <1>2, <1>3 DEF Receiving

\* With the driver idle do_suspend changes no buffer; that it is idle is the
\* suspend protocol's invariant.
LEMMA ControlOwns ==
  OneOwner /\ SuspendInv /\ (BeginCall \/ Control \/ CancelSuspend \/ Restore)
    => OneOwner'
<1> SUFFICES ASSUME OneOwner, SuspendInv,
                    BeginCall \/ Control \/ CancelSuspend \/ Restore
             PROVE  OneOwner'
  OBVIOUS
<1> USE DEF OneOwner, MachineOwns, SenderOwns, ReceiverOwns
<1>u. UNCHANGED <<state, tx_idx, ack_rx_idx, pool, rx_queue, sender, send_idx, held>>
        => OneOwner'
  OBVIOUS
<1>m. \A from, to : Move(from, to) => OneOwner'
  BY <1>u DEF Move, smVars, poolVars
<1>s. \A c : state = "Idle" /\ Suspend(c) => OneOwner'
  BY DEF Suspend, DoSuspend
<1>1. CASE BeginCall \/ Query \/ PollRead
  BY <1>1, <1>m DEF BeginCall, Query, PollRead
<1>2. CASE SetPipe \/ RequestSuspend \/ PollRegister \/ PollAgain \/ CancelSuspend
  BY <1>2, <1>u DEF SetPipe, RequestSuspend, PollRegister, PollAgain,
                    CancelSuspend, smVars, poolVars
<1>3. CASE TrySuspend \/ SuspendFast \/ SuspendRecheck
  BY <1>3, <1>m, <1>s DEF TrySuspend, SuspendFast, SuspendRecheck, SuspendIfIdle
<1>4. CASE SuspendFinal
  <2>1. Suspend("final") => state = "Idle"
    BY DEF Suspend, SuspendInv
  <2>2. QED
    BY <1>4, <2>1, <1>m, <1>s DEF SuspendFinal
<1>5. CASE Restore
  BY <1>5 DEF Restore, DoRestore, poolVars
<1>6. QED
  BY <1>1, <1>2, <1>3, <1>4, <1>5 DEF Control

\* OneOwner is inductive relative to the types and the suspend protocol.
PtxInv == TypeOK /\ SuspendInv /\ OneOwner

\* Every step keeps types and owners.
LEMMA PtxInvNext == PtxInv /\ [Next]_vars => PtxInv'
<1> SUFFICES ASSUME PtxInv, [Next]_vars PROVE OneOwner'
  BY NextType, SuspendInvNext DEF PtxInv
<1>1. CASE Tick
  BY <1>1 DEF Tick, smVars, poolVars, taskVars, PtxInv, OneOwner, MachineOwns,
              SenderOwns, ReceiverOwns
<1>2. CASE UNCHANGED vars
  BY <1>2 DEF vars, smVars, taskVars, PtxInv, OneOwner, MachineOwns, SenderOwns,
              ReceiverOwns
<1>3. QED
  BY <1>1, <1>2, IsrOwns, SendingOwns, ReceivingOwns, ControlOwns
  DEF Next, PtxInv

\* The driver starts with every buffer free.
LEMMA PtxInvInit == Init => PtxInv
<1>1. Init => SuspendInv
  BY DEF Init, NewMachine, NewDriver, SuspendInv, SuspendNeverForces
<1>2. Init => OneOwner
  BY DEF Init, NewMachine, NewDriver, PoolInit, OneOwner, MachineOwns, SenderOwns, ReceiverOwns
<1>3. QED
  BY <1>1, <1>2, InitType DEF PtxInv

\* However interrupts and tasks interleave, each buffer has one owner: the
\* compare-exchange states of payload.rs and the index fields of the state
\* machine never disagree.
THEOREM PtxOneOwner == Spec => []OneOwner
<1>1. PtxInv => OneOwner
  BY DEF PtxInv
<1>2. QED
  BY <1>1, PtxInvInit, PtxInvNext, PTL DEF Spec

-----------------------------------------------------------------------------
(* No received packet is lost.                                             *)

\* Every received buffer of pool p is in the receive queue q or in h.
Reclaimable(p, q, h) ==
  \A i \in Buf : p[i] = "rx_queued" =>
    i \in h \/ \E k \in 1 .. Len(q) : q[k] = i

\* The other inclusion of NoLostReception is part of ReceiverOwns.
LEMMA ReclaimableIff ==
  TypeOK /\ OneOwner =>
    (NoLostReception <=> Reclaimable(pool, rx_queue, held))
<1> SUFFICES ASSUME TypeOK, OneOwner
             PROVE  NoLostReception <=> Reclaimable(pool, rx_queue, held)
  OBVIOUS
<1> DEFINE Q == {rx_queue[k] : k \in 1 .. Len(rx_queue)}
<1>1. held \cup Q \subseteq InState(pool, "rx_queued")
  BY DEF TypeOK, OneOwner, ReceiverOwns, InState
<1>2. InState(pool, "rx_queued") \subseteq held \cup Q
        <=> Reclaimable(pool, rx_queue, held)
  BY DEF InState, Reclaimable
<1>3. QED
  BY <1>1, <1>2 DEF NoLostReception

\* The queue has room for the buffer of an ACK.
LEMMA AckQueued ==
  ASSUME TypeOK, ReceiverOwns, NEW i \in Buf, pool[i] = "in_dma",
         rx_queue' = RxSend(rx_queue, i)
  PROVE  /\ \E k \in 1 .. Len(rx_queue') : rx_queue'[k] = i
         /\ \A k \in 1 .. Len(rx_queue) :
              k \in 1 .. Len(rx_queue') /\ rx_queue'[k] = rx_queue[k]
<1>1. rx_queue \in Seq(Buf)
  BY DEF TypeOK
<1>2. /\ \A k, l \in 1 .. Len(rx_queue) : rx_queue[k] = rx_queue[l] => k = l
      /\ \A k \in 1 .. Len(rx_queue) : rx_queue[k] # i
  BY DEF ReceiverOwns
<1>3. Len(rx_queue) < N
  BY <1>1, <1>2, QueueNotFull
<1>4. rx_queue' = Append(rx_queue, i)
  BY <1>3 DEF RxSend
<1>5. /\ Len(rx_queue) \in Nat /\ Len(rx_queue') = Len(rx_queue) + 1
      /\ rx_queue'[Len(rx_queue) + 1] = i
      /\ \A k \in 1 .. Len(rx_queue) : rx_queue'[k] = rx_queue[k]
  BY <1>1, <1>4
<1>6. QED
  BY <1>5

\* A received ACK payload finds room in the channel.
LEMMA OnAckReclaimable ==
  ASSUME TypeOK, OneOwner, Reclaimable(pool, rx_queue, held), OnAck,
         UNCHANGED held
  PROVE  Reclaimable(pool', rx_queue', held')
<1>1. /\ tx_idx \in Buf /\ pool[tx_idx] = "in_dma"
      /\ ack_rx_idx \in Buf /\ ack_rx_idx # tx_idx
      /\ pool[ack_rx_idx] = "in_dma"
  BY DEF OnAck, OneOwner, MachineOwns, TypeOK, Opt
<1>2. PICK hasPayload \in AckPayloads :
        IF hasPayload /\ ack_rx_idx # NoIdx
        THEN /\ rx_queue' = RxSend(rx_queue, ack_rx_idx)
             /\ FinishPacket(RxComplete(pool, ack_rx_idx), Stop(Seen))
             /\ UNCHANGED ack_rx_idx
        ELSE /\ FinishPacket(Release(pool, ack_rx_idx), Stop(Seen))
             /\ ack_rx_idx' = NoIdx /\ UNCHANGED rx_queue
  BY DEF OnAck
<1>3. CASE hasPayload
  <2> DEFINE p == RxComplete(pool, ack_rx_idx)
  <2>1. rx_queue' = RxSend(rx_queue, ack_rx_idx) /\ FinishPacket(p, Stop(Seen))
    BY <1>1, <1>2, <1>3, NoIdxFacts
  <2>2. /\ p \in [Buf -> BufState] /\ p[tx_idx] = "in_dma"
        /\ \A j \in Buf : j # ack_rx_idx => p[j] = pool[j]
    BY <1>1, PoolOpsType DEF TypeOK, RxComplete, Store
  <2>3. Untouched(p, pool')
    BY <2>1, <2>2, FinishPacketOwns
  <2>4. \A j \in Buf : pool'[j] = "rx_queued" => j = ack_rx_idx \/ pool[j] = "rx_queued"
    BY <2>2, <2>3 DEF Untouched
  <2>5. /\ \E k \in 1 .. Len(rx_queue') : rx_queue'[k] = ack_rx_idx
        /\ \A k \in 1 .. Len(rx_queue) :
             k \in 1 .. Len(rx_queue') /\ rx_queue'[k] = rx_queue[k]
    BY <1>1, <2>1, AckQueued DEF OneOwner
  <2>6. QED
    BY <2>4, <2>5 DEF Reclaimable
<1>4. CASE ~hasPayload
  <2> DEFINE p == Release(pool, ack_rx_idx)
  <2>1. UNCHANGED rx_queue /\ FinishPacket(p, Stop(Seen))
    BY <1>2, <1>4
  <2>2. /\ p \in [Buf -> BufState] /\ p[tx_idx] = "in_dma" /\ Untouched(pool, p)
    BY <1>1, PoolOpsType, ReleaseUntouched, NoIdxFacts DEF TypeOK
  <2>3. Untouched(pool, pool')
    BY <2>1, <2>2, FinishPacketOwns, UntouchedTrans
  <2>4. QED
    BY <2>1, <2>3 DEF Reclaimable, Untouched
<1>5. QED
  BY <1>3, <1>4

\* Receiving keeps every received buffer in the channel.
LEMMA ReceivingReclaimable ==
  ASSUME TypeOK, OneOwner, Reclaimable(pool, rx_queue, held), Receiving
  PROVE  Reclaimable(pool', rx_queue', held')
<1>1. CASE Receive
  <2>1. /\ UNCHANGED pool /\ rx_queue # <<>>
        /\ held' = held \cup {Head(rx_queue)} /\ rx_queue' = Tail(rx_queue)
    BY <1>1 DEF Receive
  <2>2. /\ Len(rx_queue) \in Nat \ {0} /\ Head(rx_queue) = rx_queue[1]
        /\ Len(rx_queue') = Len(rx_queue) - 1
        /\ \A k \in 1 .. Len(rx_queue') : rx_queue'[k] = rx_queue[k + 1]
    BY <2>1 DEF TypeOK
  <2>3. \A k \in 1 .. Len(rx_queue) :
          k = 1 \/ (k - 1 \in 1 .. Len(rx_queue') /\ rx_queue'[k - 1] = rx_queue[k])
    BY <2>2
  <2>4. QED
    BY <2>1, <2>2, <2>3 DEF Reclaimable
<1>2. CASE DropReceived
  <2>1. PICK i \in held : pool' = Release(pool, i) /\ held' = held \ {i}
    BY <1>2 DEF DropReceived
  <2>2. /\ i \in Buf /\ pool'[i] = "free"
        /\ \A j \in Buf : j # i => pool'[j] = pool[j]
    BY <2>1 DEF Release, Store, TypeOK
  <2>3. UNCHANGED rx_queue
    BY <1>2 DEF DropReceived
  <2>4. QED
    BY <2>1, <2>2, <2>3 DEF Reclaimable
<1>3. CASE TakeMaxAttempts
  BY <1>3 DEF TakeMaxAttempts, poolVars, taskVars
<1>4. QED
  BY <1>1, <1>2, <1>3 DEF Receiving

\* A send turns a free buffer into an allocated and then a queued one.
LEMMA SendingReclaimable ==
  ASSUME TypeOK, OneOwner, Reclaimable(pool, rx_queue, held), Sending
  PROVE  Reclaimable(pool', rx_queue', held')
<1>1. UNCHANGED <<rx_queue, held>>
  BY DEF Sending, SendAlloc, SendEnqueue, SendTrigger, poolVars
<1>2. \A j \in Buf : pool'[j] = "rx_queued" => pool[j] = "rx_queued"
  <2>1. CASE SendAlloc
    BY <2>1 DEF SendAlloc, AllocTx, Store, TypeOK
  <2>2. CASE SendEnqueue
    BY <2>2 DEF SendEnqueue, EnqueueTx, Store, TypeOK
  <2>3. CASE SendTrigger
    BY <2>3 DEF SendTrigger, poolVars
  <2>4. QED
    BY <2>1, <2>2, <2>3 DEF Sending
<1>3. QED
  BY <1>1, <1>2 DEF Reclaimable

\* With the driver idle no call of the control task changes a buffer.
LEMMA ControlKeepsPool ==
  ASSUME SuspendInv, BeginCall \/ Control \/ CancelSuspend \/ Restore
  PROVE  UNCHANGED <<pool, rx_queue, held>>
<1>m. \A from, to : Move(from, to) => UNCHANGED <<pool, rx_queue, held>>
  BY DEF Move, poolVars
<1>s. \A c : state = "Idle" /\ Suspend(c) => UNCHANGED <<pool, rx_queue, held>>
  BY DEF Suspend, DoSuspend
<1>1. CASE BeginCall \/ Query \/ PollRead
  BY <1>1, <1>m DEF BeginCall, Query, PollRead
<1>2. CASE SetPipe \/ RequestSuspend \/ PollRegister \/ PollAgain \/ CancelSuspend
  BY <1>2 DEF SetPipe, RequestSuspend, PollRegister, PollAgain, CancelSuspend,
              poolVars
<1>3. CASE TrySuspend \/ SuspendFast \/ SuspendRecheck
  BY <1>3, <1>m, <1>s DEF TrySuspend, SuspendFast, SuspendRecheck, SuspendIfIdle
<1>4. CASE SuspendFinal
  <2>1. Suspend("final") => state = "Idle"
    BY DEF Suspend, SuspendInv
  <2>2. QED
    BY <1>4, <2>1, <1>m, <1>s DEF SuspendFinal
<1>5. CASE Restore
  BY <1>5 DEF Restore, DoRestore, poolVars
<1>6. QED
  BY <1>1, <1>2, <1>3, <1>4, <1>5 DEF Control

\* Every step keeps every received buffer in the channel.
LEMMA ReclaimableNext ==
  ASSUME PtxInv, Reclaimable(pool, rx_queue, held), [Next]_vars
  PROVE  Reclaimable(pool', rx_queue', held')
<1>k. UNCHANGED <<pool, rx_queue, held>> => Reclaimable(pool', rx_queue', held')
  OBVIOUS
<1>1. CASE Isr
  <2>1. UNCHANGED held
    BY <1>1 DEF Isr, RadioIsr, TimerIsr, taskVars
  <2>2. CASE TimerIsr
    BY <2>1, <2>2, <1>k DEF TimerIsr, poolVars
  <2>3. CASE OnAck
    BY <2>1, <2>3, OnAckReclaimable DEF PtxInv
  <2>4. CASE IgnoreUserEvent \/ OnIdle \/ OnTxNoAck \/ OnTx \/ OnNoAck
               \/ OnWaitRetransmit
    <3>1. Untouched(pool, pool') /\ UNCHANGED rx_queue
      BY <2>4, HandlerOwns DEF PtxInv
    <3>2. QED
      BY <2>1, <3>1 DEF Reclaimable, Untouched
  <2>5. QED
    BY <1>1, <2>2, <2>3, <2>4 DEF Isr, RadioIsr
<1>2. CASE Tick \/ UNCHANGED vars
  BY <1>2, <1>k DEF Tick, vars, poolVars, taskVars
<1>3. CASE Sending
  BY <1>3, SendingReclaimable DEF PtxInv
<1>4. CASE Receiving
  BY <1>4, ReceivingReclaimable DEF PtxInv
<1>5. CASE BeginCall \/ Control \/ CancelSuspend \/ Restore
  BY <1>5, <1>k, ControlKeepsPool DEF PtxInv
<1>6. QED
  BY <1>1, <1>2, <1>3, <1>4, <1>5 DEF Next

\* A buffer marked received is in the channel or with the application, so it
\* is always freed again: the send whose failure rx_complete ignores
\* (payload.rs:282-287) never fails, for any pool size and interleaving.
THEOREM PtxNoLostReception == Spec => []NoLostReception
<1> DEFINE IInv == PtxInv /\ Reclaimable(pool, rx_queue, held)
<1>1. Init => IInv
  <2>1. Init => Reclaimable(pool, rx_queue, held)
    BY DEF Init, NewMachine, NewDriver, PoolInit, Reclaimable
  <2>2. QED
    BY <2>1, PtxInvInit
<1>2. IInv /\ [Next]_vars => IInv'
  BY PtxInvNext, ReclaimableNext DEF Reclaimable
<1>3. IInv => NoLostReception
  BY ReclaimableIff DEF PtxInv
<1>4. QED
  BY <1>1, <1>2, <1>3, PTL DEF Spec

-----------------------------------------------------------------------------
(* No buffer leaks, and no packet takes the PID of the one before.         *)
(*                                                                         *)
(* Both rest on one fact: a packet is put back to Idle, for want of a      *)
(* buffer for its ACK, only when the pool is exhausted, and a suspend that *)
(* comes then forgets the packet, with its buffer and its PID.             *)

\* The application leaves a buffer free when it sends, or never suspends.
RoomToSuspend == Reserve >= 1 \/ Calls \cap {"suspend", "try_suspend"} = {}

\* A free buffer is left whenever the next ACK may need one, ...
RoomInv ==
  /\ state # "WaitAck" => FreeBufs(pool) # {}
  /\ state = "Idle" => tx_idx = NoIdx

\* ... or no suspend is under way.
CallInv == ctl \in {"idle", "set_pipe", "query"}

\* A packet that is not done has the PID it went on air with; between two
\* packets the next PID is another one.
PidInv == tx_idx = NoIdx <=> pid # air_pid

PacketInv ==
  /\ PtxInv /\ QuietWhileSuspended /\ NoLeak /\ PidInv
  /\ Reserve >= 1 => RoomInv
  /\ Calls \cap {"suspend", "try_suspend"} = {} => CallInv

\* Starting the next packet: the buffers in DMA are those of before and the
\* one that tx_idx names.
LEMMA SendNextKeeps ==
  ASSUME TypeOK, NEW t \in Opt, NEW p \in [Buf -> BufState], NEW r, NEW d,
         t # NoIdx => p[t] = "in_dma", SendNext(t, p, r, d)
  PROVE  /\ \A i \in Buf : pool'[i] = "in_dma" => p[i] = "in_dma" \/ i = tx_idx'
         /\ \A i \in Buf : p[i] = "free" => pool'[i] = "free"
         /\ state' \in {"Idle", "Tx", "TxNoAck"}
         /\ state' = "Idle" => tx_idx' = NoIdx
         /\ \/ tx_idx' = t /\ air_pid' = air_pid /\ pool' = p
            \/ t = NoIdx /\ tx_idx' # NoIdx /\ air_pid' = d
<1>1. CASE t # NoIdx
  <2>1. state' = "Tx" /\ tx_idx' = t /\ pool' = p /\ air_pid' = air_pid
    BY <1>1 DEF SendNext
  <2> QED
    BY <1>1, <2>1
<1>2. CASE t = NoIdx /\ DequeueTxChoice(p) # {}
  <2>1. PICK i \in DequeueTxChoice(p) :
          /\ pool' = ToDma(p, i) /\ tx_idx' = i
          /\ state' = IF no_ack[i] THEN "TxNoAck" ELSE "Tx"
    BY <1>2 DEF SendNext
  <2>2. i \in Buf /\ i # NoIdx /\ p[i] = "tx_queued"
    BY ChoiceType, NoIdxFacts
  <2>3. \A j \in Buf : j # i => pool'[j] = p[j]
    BY <2>1, <2>2, ToDmaUntouched
  <2>4. air_pid' = d
    BY <1>2 DEF SendNext
  <2>5. state' \in {"Tx", "TxNoAck"}
    BY <2>1, Zenon
  <2> QED
    BY <1>2, <2>1, <2>2, <2>3, <2>4, <2>5
<1>3. CASE t = NoIdx /\ DequeueTxChoice(p) = {}
  <2>1. state' = "Idle" /\ tx_idx' = NoIdx /\ pool' = p /\ air_pid' = air_pid
    BY <1>3 DEF SendNext
  <2> QED
    BY <1>3, <2>1
<1> QED
  BY <1>1, <1>2, <1>3

\* The end of a packet: its buffer is free again or is that of the next one,
\* and the PID has moved on.
LEMMA FinishPacketKeeps ==
  ASSUME TypeOK, NEW p \in [Buf -> BufState], NEW r,
         tx_idx \in Buf, p[tx_idx] = "in_dma", air_pid = pid,
         \A i \in Buf : p[i] = "in_dma" => i = tx_idx,
         FinishPacket(p, r)
  PROVE  /\ NoLeak' /\ RoomInv' /\ PidInv'
         /\ \A i \in Buf : p[i] = "tx_queued" /\ pool'[i] = "in_dma"
                             => air_pid' # air_pid
<1> DEFINE q == Release(p, tx_idx)
<1>1. /\ q \in [Buf -> BufState] /\ q[tx_idx] = "free"
      /\ \A i \in Buf : i # tx_idx => q[i] = p[i]
      /\ \A i \in Buf : q[i] # "in_dma"
  BY DEF Release, Store, BufState
<1>2. pid' = AdvancePid /\ AdvancePid # pid
  BY DEF FinishPacket, AdvancePid, TypeOK
<1>3. CASE suspend_requested
  <2>1. state' = "Idle" /\ tx_idx' = NoIdx /\ pool' = q /\ air_pid' = air_pid
    BY <1>3 DEF FinishPacket, GoIdle
  <2> QED
    BY <1>1, <1>2, <2>1 DEF NoLeak, RoomInv, PidInv, FreeBufs, InState
<1>4. CASE ~suspend_requested
  <2>1. SendNext(NoIdx, q, r, AdvancePid)
    BY <1>4 DEF FinishPacket
  <2>2. /\ \A i \in Buf : pool'[i] = "in_dma" => i = tx_idx'
        /\ pool'[tx_idx] = "free" /\ state' \in {"Idle", "Tx", "TxNoAck"}
        /\ state' = "Idle" => tx_idx' = NoIdx
        /\ \/ tx_idx' = NoIdx /\ air_pid' = air_pid /\ pool' = q
           \/ tx_idx' # NoIdx /\ air_pid' = AdvancePid
    BY <1>1, <2>1, SendNextKeeps, NoIdxFacts
  <2>3. NoLeak' /\ RoomInv'
    BY <2>2 DEF NoLeak, RoomInv, FreeBufs, InState
  <2>4. PidInv'
    BY <1>2, <2>2 DEF PidInv
  <2>5. ASSUME NEW i \in Buf, p[i] = "tx_queued", pool'[i] = "in_dma"
        PROVE  air_pid' # air_pid
    BY <1>1, <1>2, <2>2, <2>5
  <2> QED
    BY <2>3, <2>4, <2>5
<1> QED
  BY <1>3, <1>4

\* The step puts no packet on air with the PID of the one before.
FreshStep ==
  \A i \in Buf : pool[i] = "tx_queued" /\ pool'[i] = "in_dma" => air_pid' # air_pid

\* What a step of a handler must leave: the room only if it was there.
PacketKept == NoLeak' /\ PidInv' /\ FreshStep /\ (Reserve >= 1 => RoomInv')

LEMMA OnIdleKeeps ==
  ASSUME PacketInv, OnIdle
  PROVE  PacketKept
<1>1. TypeOK /\ OneOwner /\ NoLeak /\ PidInv /\ (Reserve >= 1 => RoomInv)
  BY DEF PacketInv, PtxInv
<1>2. CASE suspend_requested
  BY <1>1, <1>2 DEF OnIdle, PacketKept, NoLeak, PidInv, RoomInv, FreshStep
<1>3. CASE ~suspend_requested
  <2>1. SendNext(tx_idx, pool, Seen, pid) /\ UNCHANGED <<pid, ack_rx_idx>> /\ state = "Idle"
    BY <1>3 DEF OnIdle
  <2>2. tx_idx \in Opt /\ (tx_idx # NoIdx => pool[tx_idx] = "in_dma")
        /\ \A i \in Buf : pool[i] = "in_dma" => i = tx_idx
    BY <1>1, <2>1 DEF TypeOK, OneOwner, MachineOwns, NoLeak
  <2>3. /\ \A i \in Buf : pool'[i] = "in_dma" => pool[i] = "in_dma" \/ i = tx_idx'
        /\ \A i \in Buf : pool[i] = "free" => pool'[i] = "free"
        /\ state' \in {"Idle", "Tx", "TxNoAck"}
        /\ state' = "Idle" => tx_idx' = NoIdx
        /\ \/ tx_idx' = tx_idx /\ air_pid' = air_pid /\ pool' = pool
           \/ tx_idx = NoIdx /\ tx_idx' # NoIdx /\ air_pid' = pid
    BY <1>1, <2>1, <2>2, SendNextKeeps DEF TypeOK
  <2>4. NoLeak'
    BY <2>2, <2>3, NoIdxFacts DEF NoLeak
  <2>5. PidInv' /\ FreshStep
    BY <1>1, <2>1, <2>3 DEF PidInv, FreshStep
  <2>6. Reserve >= 1 => RoomInv'
    BY <1>1, <2>1, <2>3 DEF RoomInv, FreeBufs, InState
  <2> QED
    BY <2>4, <2>5, <2>6 DEF PacketKept
<1> QED
  BY <1>2, <1>3

\* The packet in flight, as the handlers of its end find it
LEMMA InFlight ==
  ASSUME PacketInv, state # "Idle"
  PROVE  /\ tx_idx \in Buf /\ pool[tx_idx] = "in_dma" /\ air_pid = pid
         /\ \A i \in Buf : pool[i] = "in_dma" =>
              i = tx_idx \/ (state = "WaitAck" /\ i = ack_rx_idx)
         /\ state = "WaitAck" =>
              ack_rx_idx \in Buf /\ ack_rx_idx # tx_idx /\ pool[ack_rx_idx] = "in_dma"
BY DEF PacketInv, PtxInv, TypeOK, Opt, OneOwner, MachineOwns, NoLeak, PidInv

LEMMA OnTxNoAckKeeps ==
  ASSUME PacketInv, OnTxNoAck
  PROVE  PacketKept
<1>1. FinishPacket(pool, IntOff(Seen)) /\ state = "TxNoAck"
  BY DEF OnTxNoAck
<1>2. TypeOK /\ pool \in [Buf -> BufState]
  BY DEF PacketInv, PtxInv, TypeOK
<1> QED
  BY <1>1, <1>2, InFlight, FinishPacketKeeps DEF PacketKept, FreshStep

\* The end of a transmission: with a free buffer left the ACK gets one.
LEMMA OnTxKeeps ==
  ASSUME PacketInv, OnTx
  PROVE  PacketKept
<1>1. state = "Tx" /\ UNCHANGED <<pid, tx_idx, air_pid>>
  BY DEF OnTx
<1>2. TypeOK /\ PidInv /\ (Reserve >= 1 => RoomInv)
  BY DEF PacketInv, PtxInv
<1>3. \A i \in Buf : pool[i] = "in_dma" => i = tx_idx
  BY <1>1, InFlight
<1>4. PidInv'
  BY <1>1, <1>2 DEF PidInv
<1>5. FreeBufs(pool) # {} => RxToDmaChoice(pool) # {}
  BY LowestExists DEF RxToDmaChoice, FreeBufs, InState
<1>6. CASE RxToDmaChoice(pool) # {}
  <2>1. PICK i \in RxToDmaChoice(pool) : pool' = ToDma(pool, i) /\ ack_rx_idx' = i
    BY <1>6 DEF OnTx
  <2>2. state' = "WaitAck"
    BY <1>6 DEF OnTx
  <2>3. i \in Buf /\ pool[i] = "free" /\ \A j \in Buf : j # i => pool'[j] = pool[j]
    BY <1>2, <2>1, ChoiceType, ToDmaUntouched DEF TypeOK
  <2>4. NoLeak' /\ FreshStep /\ RoomInv'
    BY <1>1, <1>3, <2>1, <2>2, <2>3 DEF NoLeak, FreshStep, RoomInv
  <2> QED
    BY <1>4, <2>4 DEF PacketKept
<1>7. CASE RxToDmaChoice(pool) = {}
  <2>1. UNCHANGED pool /\ state' = "Idle"
    BY <1>7 DEF OnTx
  <2>2. NoLeak' /\ FreshStep
    BY <1>1, <1>3, <2>1 DEF NoLeak, FreshStep
  <2>3. ~(Reserve >= 1)
    BY <1>1, <1>2, <1>5, <1>7 DEF RoomInv
  <2> QED
    BY <1>4, <2>2, <2>3 DEF PacketKept
<1> QED
  BY <1>6, <1>7

\* The buffer of the ACK goes to the application or is free again; the packet
\* is done either way.
LEMMA OnAckKeeps ==
  ASSUME PacketInv, OnAck
  PROVE  PacketKept
<1>1. state = "WaitAck" /\ TypeOK
  BY DEF OnAck, PacketInv, PtxInv
<1>2. PICK hasPayload \in AckPayloads :
        IF hasPayload /\ ack_rx_idx # NoIdx
        THEN FinishPacket(RxComplete(pool, ack_rx_idx), Stop(Seen))
        ELSE FinishPacket(Release(pool, ack_rx_idx), Stop(Seen))
  BY DEF OnAck
<1>3. PICK p \in {RxComplete(pool, ack_rx_idx), Release(pool, ack_rx_idx)} :
        FinishPacket(p, Stop(Seen))
  BY <1>2
<1>4. /\ p \in [Buf -> BufState] /\ p[tx_idx] = "in_dma"
      /\ p[ack_rx_idx] # "in_dma"
      /\ \A i \in Buf : i # ack_rx_idx => p[i] = pool[i]
  <2>1. pool \in [Buf -> BufState] /\ ack_rx_idx \in Buf /\ ack_rx_idx # tx_idx
        /\ tx_idx \in Buf /\ pool[tx_idx] = "in_dma"
    BY <1>1, InFlight DEF TypeOK
  <2> QED
    BY <1>3, <2>1 DEF RxComplete, Release, Store, BufState
<1>5. \A i \in Buf : p[i] = "in_dma" => i = tx_idx
  BY <1>1, <1>4, InFlight
<1>6. \A i \in Buf : pool[i] = "tx_queued" => p[i] = "tx_queued"
  BY <1>1, <1>4, InFlight
<1> QED
  BY <1>1, <1>3, <1>4, <1>5, <1>6, InFlight, FinishPacketKeeps
  DEF PacketKept, FreshStep

\* An ACK timeout gives the ACK's buffer back; the packet waits or is done.
LEMMA OnNoAckKeeps ==
  ASSUME PacketInv, OnNoAck
  PROVE  PacketKept
<1> DEFINE p == Release(pool, ack_rx_idx)
           r == Stop(Seen)
<1>1. state = "WaitAck" /\ TypeOK /\ PidInv
  BY DEF OnNoAck, PacketInv, PtxInv
<1>2. \/ FinishPacket(p, r)
      \/ state' = "WaitRetransmit" /\ pool' = p /\ UNCHANGED <<pid, tx_idx, air_pid>>
  BY DEF OnNoAck
<1>3. /\ p \in [Buf -> BufState] /\ p[tx_idx] = "in_dma"
      /\ p[ack_rx_idx] = "free" /\ ack_rx_idx \in Buf
      /\ \A i \in Buf : i # ack_rx_idx => p[i] = pool[i]
  BY <1>1, InFlight DEF Release, Store, BufState, TypeOK
<1>4. /\ \A i \in Buf : p[i] = "in_dma" => i = tx_idx
      /\ \A i \in Buf : pool[i] = "tx_queued" => p[i] = "tx_queued"
  BY <1>1, <1>3, InFlight
<1> HIDE DEF p, r
<1>5. CASE FinishPacket(p, r)
  BY <1>1, <1>3, <1>4, <1>5, InFlight, FinishPacketKeeps DEF PacketKept, FreshStep
<1>6. CASE state' = "WaitRetransmit" /\ pool' = p /\ UNCHANGED <<pid, tx_idx, air_pid>>
  <2>1. NoLeak' /\ RoomInv'
    BY <1>3, <1>4, <1>6 DEF NoLeak, RoomInv, FreeBufs, InState
  <2>2. PidInv' /\ FreshStep
    BY <1>1, <1>3, <1>4, <1>6 DEF PidInv, FreshStep
  <2> QED
    BY <2>1, <2>2 DEF PacketKept
<1> QED
  BY <1>2, <1>5, <1>6

\* The handlers that change no buffer
LEMMA OtherHandlersKeep ==
  ASSUME PacketInv, IgnoreUserEvent \/ OnWaitRetransmit
  PROVE  PacketKept
<1>1. TypeOK /\ OneOwner /\ NoLeak /\ PidInv /\ (Reserve >= 1 => RoomInv)
  BY DEF PacketInv, PtxInv
<1>2. CASE IgnoreUserEvent
  BY <1>1, <1>2 DEF IgnoreUserEvent, smVars, PacketKept, NoLeak, PidInv, FreshStep, RoomInv
<1>3. CASE OnWaitRetransmit
  <2>1. state' = "Tx" /\ state = "WaitRetransmit"
        /\ UNCHANGED <<pid, tx_idx, ack_rx_idx, pool, air_pid>>
    BY <1>1, <1>3 DEF OnWaitRetransmit, OneOwner, MachineOwns
  <2> QED
    BY <1>1, <2>1 DEF PacketKept, NoLeak, PidInv, FreshStep, RoomInv
<1> QED
  BY <1>2, <1>3

LEMMA IsrKeeps ==
  ASSUME PacketInv, Isr
  PROVE  PacketKept
<1>1. CASE TimerIsr
  <2>1. NoLeak /\ PidInv /\ (Reserve >= 1 => RoomInv)
    BY DEF PacketInv
  <2>2. UNCHANGED <<pool, state, tx_idx, ack_rx_idx, pid, air_pid>>
    BY <1>1 DEF TimerIsr, poolVars, smVars
  <2> QED
    BY <2>1, <2>2 DEF PacketKept, NoLeak, PidInv, FreshStep, RoomInv
<1> QED
  BY <1>1, OnIdleKeeps, OnTxNoAckKeeps, OnTxKeeps, OnAckKeeps, OnNoAckKeeps,
     OtherHandlersKeep DEF Isr, RadioIsr

\* The last buffers are not allocated: a send that leaves Reserve of them.
LEMMA AllocLeavesRoom ==
  ASSUME TypeOK, Reserve >= 1, Cardinality(FreeBufs(pool)) > Reserve,
         NEW i \in FreeBufs(pool)
  PROVE  \E j \in Buf : j # i /\ pool[j] = "free"
<1>1. FreeBufs(pool) # {i}
  <2>1. Cardinality({i}) = 1
    BY FS_Singleton
  <2> QED
    BY <2>1, PtxAssumption
<1> QED
  BY <1>1 DEF FreeBufs, InState

LEMMA TasksKeep ==
  ASSUME PacketInv, Sending \/ Receiving
  PROVE  PacketKept
<1>1. TypeOK /\ OneOwner /\ NoLeak /\ PidInv /\ (Reserve >= 1 => RoomInv)
  BY DEF PacketInv, PtxInv
<1>2. UNCHANGED <<state, tx_idx, ack_rx_idx, pid, air_pid>>
  BY DEF Sending, SendAlloc, SendEnqueue, SendTrigger, Receiving, Receive,
     DropReceived, TakeMaxAttempts, smVars
<1>3. PidInv'
  BY <1>1, <1>2 DEF PidInv
<1>4. ASSUME \A i \in Buf : pool'[i] = "in_dma" => pool[i] = "in_dma",
             Reserve >= 1 /\ state # "WaitAck" => FreeBufs(pool)' # {}
      PROVE  PacketKept
  <2>1. NoLeak' /\ FreshStep
    BY <1>1, <1>2, <1>4 DEF NoLeak, FreshStep
  <2>2. Reserve >= 1 => RoomInv'
    BY <1>1, <1>2, <1>4 DEF RoomInv
  <2> QED
    BY <1>3, <2>1, <2>2 DEF PacketKept
<1>5. CASE SendAlloc
  <2>1. PICK i \in AllocTxChoice(pool) : pool' = AllocTx(pool, i)
    BY <1>5 DEF SendAlloc
  <2>2. i \in Buf /\ i \in FreeBufs(pool)
    BY <2>1, ChoiceType DEF FreeBufs, InState
  <2>3. /\ pool'[i] = "tx_allocated"
        /\ \A j \in Buf : j # i => pool'[j] = pool[j]
    BY <1>1, <2>1, <2>2 DEF AllocTx, Store, TypeOK
  <2>4. Reserve >= 1 => FreeBufs(pool)' # {}
    <3>1. Cardinality(FreeBufs(pool)) > Reserve
      BY <1>5 DEF SendAlloc
    <3>2. SUFFICES ASSUME Reserve >= 1 PROVE FreeBufs(pool)' # {}
      OBVIOUS
    <3>3. PICK j \in Buf : j # i /\ pool[j] = "free"
      BY <1>1, <2>2, <3>1, <3>2, AllocLeavesRoom
    <3> QED
      BY <2>3, <3>3 DEF FreeBufs, InState
  <2>5. \A j \in Buf : pool'[j] = "in_dma" => pool[j] = "in_dma"
    BY <2>3
  <2> QED
    BY <1>4, <2>4, <2>5
<1>6. CASE SendEnqueue
  <2>1. /\ \A j \in Buf : pool'[j] = "in_dma" => pool[j] = "in_dma"
        /\ \A j \in Buf : pool[j] = "free" => pool'[j] = "free"
    BY <1>1, <1>6 DEF SendEnqueue, EnqueueTx, Store, TypeOK
  <2> QED
    BY <1>1, <1>4, <2>1 DEF RoomInv, FreeBufs, InState
<1>7. CASE DropReceived
  <2>1. /\ \A j \in Buf : pool'[j] = "in_dma" => pool[j] = "in_dma"
        /\ \A j \in Buf : pool[j] = "free" => pool'[j] = "free"
    BY <1>1, <1>7 DEF DropReceived, Release, Store, TypeOK
  <2> QED
    BY <1>1, <1>4, <2>1 DEF RoomInv, FreeBufs, InState
<1>8. CASE UNCHANGED pool
  BY <1>1, <1>4, <1>8 DEF RoomInv, FreeBufs, InState
<1> QED
  BY <1>5, <1>6, <1>7, <1>8 DEF Sending, SendTrigger, Receiving, Receive,
     TakeMaxAttempts, poolVars

\* A suspend finds the driver idle, and then, with the room or without the
\* calls, it finds no packet put back.
LEMMA SuspendKeeps ==
  ASSUME RoomToSuspend, PacketInv, state = "Idle",
         NEW c \in {"try", "fast", "recheck", "final"}, Suspend(c)
  PROVE  PacketKept /\ ~CallInv
<1>1. ctl = c /\ DoSuspend /\ UNCHANGED <<pid, air_pid>>
  BY DEF Suspend
<1>2. ~CallInv
  BY <1>1 DEF CallInv
<1>3. Reserve >= 1 /\ RoomInv
  BY <1>2 DEF RoomToSuspend, PacketInv
<1>4. UNCHANGED <<pool, tx_idx, state>>
  BY <1>1, <1>3 DEF DoSuspend, RoomInv
<1> QED
  BY <1>1, <1>2, <1>3, <1>4 DEF PacketInv, PacketKept, NoLeak, PidInv, FreshStep, RoomInv

LEMMA ControlKeeps ==
  ASSUME RoomToSuspend, PacketInv, BeginCall \/ Control \/ CancelSuspend \/ Restore
  PROVE  PacketKept /\ (Calls \cap {"suspend", "try_suspend"} = {} => CallInv')
<1> DEFINE Never == Calls \cap {"suspend", "try_suspend"} = {}
<1>1. NoLeak /\ PidInv /\ (Reserve >= 1 => RoomInv) /\ (Never => CallInv)
  BY DEF PacketInv
<1>2. ASSUME UNCHANGED <<pool, state, tx_idx, ack_rx_idx, pid, air_pid>>
      PROVE  PacketKept
  BY <1>1, <1>2 DEF PacketKept, NoLeak, PidInv, FreshStep, RoomInv
<1>m. ASSUME NEW from, NEW to, Move(from, to)
      PROVE  PacketKept /\ ctl = from /\ ctl' = to
  BY <1>2, <1>m DEF Move, smVars, poolVars
<1>s. ASSUME NEW c \in {"try", "fast", "recheck", "final"}, Suspend(c), state = "Idle"
      PROVE  PacketKept /\ ~CallInv
  BY <1>s, SuspendKeeps
<1>3. CASE BeginCall
  <2>1. PacketKept
    BY <1>3, <1>m DEF BeginCall
  <2>2. Never => ctl' \in {"set_pipe", "query"}
    BY <1>3, <1>m DEF BeginCall
  <2> QED
    BY <2>1, <2>2 DEF CallInv
<1>4. CASE Query
  BY <1>4, <1>m DEF Query, CallInv
<1>5. CASE PollRead
  <2>1. PacketKept /\ ctl \in {"registered", "read"}
    BY <1>5, <1>m DEF PollRead
  <2> QED
    BY <1>1, <2>1 DEF CallInv
<1>6. CASE SetPipe \/ RequestSuspend \/ PollRegister \/ PollAgain \/ CancelSuspend
  <2>1. UNCHANGED <<pool, state, tx_idx, ack_rx_idx, pid, air_pid>>
    BY <1>6 DEF SetPipe, RequestSuspend, PollRegister, PollAgain, CancelSuspend,
                smVars, poolVars
  <2>2. Never => CallInv'
    BY <1>1, <1>6 DEF SetPipe, RequestSuspend, PollRegister, PollAgain,
                      CancelSuspend, CallInv
  <2> QED
    BY <1>2, <2>1, <2>2
<1>7. CASE TrySuspend \/ SuspendFast \/ SuspendRecheck
  <2>i. \A c \in {"try", "fast", "recheck"} : \A busy : SuspendIfIdle(c, busy) =>
          PacketKept /\ ~CallInv
    <3> SUFFICES ASSUME NEW c \in {"try", "fast", "recheck"}, NEW busy,
                        SuspendIfIdle(c, busy)
                 PROVE  PacketKept /\ ~CallInv
      OBVIOUS
    <3>1. CASE state = "Idle" /\ Suspend(c)
      BY <1>s, <3>1
    <3>2. CASE Move(c, busy)
      BY <1>m, <3>2 DEF CallInv
    <3> QED
      BY <3>1, <3>2 DEF SuspendIfIdle
  <2>1. CASE TrySuspend \/ SuspendFast
    BY <1>1, <2>1, <2>i DEF TrySuspend, SuspendFast
  <2>2. CASE SuspendRecheck
    BY <1>1, <2>2, <2>i, <1>m DEF SuspendRecheck, CallInv
  <2> QED
    BY <1>1, <1>7, <2>1, <2>2
<1>8. CASE SuspendFinal
  <2>1. CASE Move("ready", "final")
    BY <1>1, <1>m, <2>1 DEF CallInv
  <2>2. CASE Suspend("final")
    <3>1. state = "Idle"
      BY <2>2 DEF Suspend, PacketInv, PtxInv, SuspendInv
    <3> QED
      BY <1>1, <1>s, <2>2, <3>1
  <2> QED
    BY <1>8, <2>1, <2>2 DEF SuspendFinal
<1>9. CASE Restore
  <2>1. ctl = "suspended" /\ state' = "Idle"
        /\ UNCHANGED <<pool, tx_idx, ack_rx_idx, pid, air_pid>>
    BY <1>9 DEF Restore, DoRestore, poolVars
  <2>2. ~CallInv
    BY <2>1 DEF CallInv
  <2>3. state = "Idle"
    BY <2>1 DEF PacketInv, QuietWhileSuspended
  <2> QED
    BY <1>1, <1>2, <2>1, <2>2, <2>3
<1> QED
  BY <1>3, <1>4, <1>5, <1>6, <1>7, <1>8, <1>9 DEF Control

LEMMA PacketInvInit == Init => PacketInv
<1> SUFFICES ASSUME Init PROVE PacketInv
  OBVIOUS
<1>1. NoLeak /\ PidInv /\ CallInv
  BY DEF Init, NewMachine, NewDriver, PoolInit, NoLeak, PidInv, CallInv
<1>2. RoomInv
  <2>1. 0 \in Buf
    BY NAssumption DEF Buf
  <2> QED
    BY <2>1 DEF Init, NewMachine, NewDriver, PoolInit, RoomInv, FreeBufs, InState
<1>3. QuietWhileSuspended
  BY DEF Init, NewMachine, NewDriver, QuietWhileSuspended
<1> QED
  BY <1>1, <1>2, <1>3, PtxInvInit DEF PacketInv

\* Every step keeps the invariant, and puts on air only packets with a new PID.
LEMMA PacketInvNext ==
  ASSUME RoomToSuspend
  PROVE  PacketInv /\ [Next]_vars => PacketInv' /\ FreshStep
<1> SUFFICES ASSUME PacketInv, [Next]_vars PROVE PacketInv' /\ FreshStep
  OBVIOUS
<1>1. PtxInv' /\ QuietWhileSuspended'
  BY PtxInvNext, QuietNext DEF PacketInv, PtxInv
<1>2. CASE Isr
  <2>1. UNCHANGED ctl
    BY <1>2 DEF Isr, RadioIsr, TimerIsr, taskVars
  <2> QED
    BY <1>1, <1>2, <2>1, IsrKeeps DEF PacketInv, PacketKept, CallInv
<1>3. CASE Sending \/ Receiving
  <2>1. UNCHANGED ctl
    BY <1>3 DEF Sending, SendAlloc, SendEnqueue, SendTrigger, Receiving, Receive,
                DropReceived, TakeMaxAttempts, taskVars
  <2> QED
    BY <1>1, <1>3, <2>1, TasksKeep DEF PacketInv, PacketKept, CallInv
<1>4. CASE BeginCall \/ Control \/ CancelSuspend \/ Restore
  BY <1>1, <1>4, ControlKeeps DEF PacketInv, PacketKept
<1>5. CASE Tick \/ UNCHANGED vars
  <2>1. UNCHANGED <<pool, state, tx_idx, ack_rx_idx, pid, air_pid, ctl>>
    BY <1>5 DEF Tick, vars, poolVars, smVars, taskVars
  <2> QED
    BY <1>1, <2>1 DEF PacketInv, NoLeak, PidInv, RoomInv, CallInv, FreshStep
<1> QED
  BY <1>2, <1>3, <1>4, <1>5 DEF Next

\* Each buffer in DMA ownership is one that the state machine still names and
\* will release, provided that the application leaves a buffer free or never
\* suspends.
THEOREM PtxNoLeak ==
  ASSUME RoomToSuspend
  PROVE  Spec => []NoLeak
<1>1. PacketInv /\ [Next]_vars => PacketInv'
  BY PacketInvNext
<1>2. PacketInv => NoLeak
  BY DEF PacketInv
<1> QED
  BY <1>1, <1>2, PacketInvInit, PTL DEF Spec

\* Under the same proviso no packet goes on air with the PID of the packet
\* before: the receiver's filter does not drop it.
THEOREM PtxPidFresh ==
  ASSUME RoomToSuspend
  PROVE  Spec => PidFresh
<1>1. PacketInv /\ [Next]_vars => PacketInv' /\ [FreshStep]_vars
  BY PacketInvNext
<1>2. [FreshStep]_vars =>
        [\A i \in Buf : pool[i] = "tx_queued" /\ pool'[i] = "in_dma"
                          => air_pid' # air_pid]_vars
  BY DEF FreshStep
<1> QED
  BY <1>1, <1>2, PacketInvInit, PTL DEF Spec, PidFresh

-----------------------------------------------------------------------------
(* The DMA pointer.                                                        *)
(*                                                                         *)
(* The state machine takes a TIMER event in TxNoAck for the end of the     *)
(* transmission, and the retransmit timer of an ACKed packet that was      *)
(* dropped may still be running then: an application that sends packets of *)
(* both kinds can have a buffer released under the radio.  One that sends  *)
(* only one kind cannot, for a different reason with each kind.            *)

\* The application asks for an ACK with every packet or with none.
OneKind == NoAckKinds # BOOLEAN

\* With ACKs: wherever the state machine releases a buffer it stops the radio,
\* and where it does not the radio works on the buffers it names.
AckedDma ==
  /\ \A i \in Buf : ~no_ack[i]
  /\ state # "TxNoAck"
  /\ rf.mode = "off" <=> rf.dma = NoIdx
  /\ state \in {"Idle", "WaitRetransmit"} => rf.mode = "off"
  /\ rf.mode # "off" /\ state = "Tx" => rf.dma = tx_idx
  /\ rf.mode # "off" /\ state = "WaitAck" => rf.dma \in {tx_idx, ack_rx_idx}

\* Without: no timer is ever armed, so only the end of the transmission, after
\* which the radio is off, releases the buffer.
UnackedDma ==
  /\ \A i \in Buf : pool[i] \in {"tx_allocated", "tx_queued"} => no_ack[i]
  /\ state \in {"Idle", "TxNoAck"}
  /\ state = "Idle" => tx_idx = NoIdx
  /\ ~timer_flag /\ ~nvic.timer /\ tm.cc0 = "off" /\ tm.cc1 = "off"
  /\ ~rf.rxen /\ rf.mode \in {"off", "tx"}
  /\ rf.mode = "off" <=> rf.dma = NoIdx
  /\ rf.disabled \/ state = "Idle" => rf.mode = "off"
  /\ rf.mode # "off" => rf.dma = tx_idx

\* A packet has just been started; or the radio is off and nothing is due.
OnAir == state = "Tx" /\ rf.mode = "tx" /\ rf.dma = tx_idx /\ tx_idx # NoIdx

OffAir ==
  state \in {"Idle", "WaitRetransmit"} /\ rf.mode = "off" /\ rf.dma = NoIdx

\* What the register sequences do to the DMA
LEMMA StopDma ==
  ASSUME NEW r \in RadioType
  PROVE  Stop(r).mode = "off" /\ Stop(r).dma = NoIdx /\ ~Stop(r).rxen
BY DEF RadioType, Stop

LEMMA IntOffDma ==
  ASSUME NEW r \in RadioType
  PROVE  /\ IntOff(r).mode = r.mode /\ IntOff(r).dma = r.dma
         /\ IntOff(r).rxen = r.rxen /\ IntOff(r).disabled = r.disabled
BY DEF RadioType, IntOff

LEMMA TransmitDma ==
  ASSUME NEW r \in RadioType, r.mode = "off", NEW i \in Opt, NEW b \in BOOLEAN
  PROVE  Transmit(r, i, b).mode = "tx" /\ Transmit(r, i, b).dma = i
BY DEF RadioType, Transmit

LEMMA PrepareDma ==
  ASSUME NEW r \in RadioType, NEW i \in Opt
  PROVE  /\ PrepareForAck(r, i).mode = r.mode
         /\ PrepareForAck(r, i).dma = IF r.mode = "rx" THEN i ELSE r.dma
BY DEF RadioType, PrepareForAck

\* The radio as the handler finds it differs in the event only.
LEMMA SeenDma ==
  TypeOK => /\ Seen \in RadioType /\ Seen.mode = rf.mode /\ Seen.dma = rf.dma
            /\ Seen.rxen = rf.rxen /\ ~Seen.disabled
BY SeenType DEF TypeOK, Seen, RadioType

-----------------------------------------------------------------------------
\* Starting the next ACKed packet from a radio that is off
LEMMA SendNextAcked ==
  ASSUME TypeOK, \A i \in Buf : ~no_ack[i],
         NEW t \in Opt, NEW p \in [Buf -> BufState], NEW d,
         NEW r \in RadioType, r.mode = "off", r.dma = NoIdx, SendNext(t, p, r, d)
  PROVE  OnAir' \/ OffAir'
<1>1. CASE t # NoIdx
  <2>1. rf' = Transmit(r, t, TRUE) /\ state' = "Tx" /\ tx_idx' = t
    BY <1>1 DEF SendNext
  <2> QED
    BY <1>1, <2>1, TransmitDma DEF OnAir
<1>2. CASE t = NoIdx /\ DequeueTxChoice(p) # {}
  <2>1. PICK i \in DequeueTxChoice(p) :
          /\ tx_idx' = i /\ rf' = Transmit(r, i, ~no_ack[i])
          /\ state' = IF no_ack[i] THEN "TxNoAck" ELSE "Tx"
    BY <1>2 DEF SendNext
  <2>2. i \in Buf /\ i \in Opt /\ i # NoIdx
    BY ChoiceType, NoIdxFacts
  <2>3. ~no_ack[i] /\ (~no_ack[i]) \in BOOLEAN
    BY <2>2
  <2>4. state' = "Tx"
    BY <2>1, <2>3
  <2>5. rf'.mode = "tx" /\ rf'.dma = i
    BY <2>1, <2>2, <2>3, TransmitDma
  <2>6. tx_idx' = i
    BY <2>1, Zenon
  <2> QED
    BY <2>2, <2>4, <2>5, <2>6 DEF OnAir
<1>3. CASE t = NoIdx /\ DequeueTxChoice(p) = {}
  <2>1. rf' = IntOff(r) /\ state' = "Idle"
    BY <1>3 DEF SendNext
  <2> QED
    BY <2>1, IntOffDma DEF OffAir
<1> QED
  BY <1>1, <1>2, <1>3

LEMMA FinishPacketAcked ==
  ASSUME TypeOK, \A i \in Buf : ~no_ack[i], NEW p \in [Buf -> BufState],
         NEW r \in RadioType, r.mode = "off", r.dma = NoIdx, FinishPacket(p, r)
  PROVE  OnAir' \/ OffAir'
<1>1. CASE suspend_requested
  <2>1. rf' = IntOff(r) /\ state' = "Idle"
    BY <1>1 DEF FinishPacket, GoIdle
  <2> QED
    BY <2>1, IntOffDma DEF OffAir
<1>2. CASE ~suspend_requested
  <2>1. SendNext(NoIdx, Release(p, tx_idx), r, AdvancePid)
    BY <1>2 DEF FinishPacket
  <2>2. Release(p, tx_idx) \in [Buf -> BufState]
    BY PoolOpsType
  <2> QED
    BY <2>1, <2>2, SendNextAcked, NoIdxFacts
<1> QED
  BY <1>1, <1>2

\* Every handler leaves the radio off or on the buffers of the state machine.
LEMMA HandlerAcked ==
  ASSUME TypeOK, OneOwner, AckedDma, UNCHANGED no_ack,
         IgnoreUserEvent \/ OnIdle \/ OnTxNoAck \/ OnTx \/ OnAck \/ OnNoAck
           \/ OnWaitRetransmit
  PROVE  AckedDma'
<1> USE DEF AckedDma
<1>0. tx_idx \in Opt /\ (state # "Idle" => tx_idx # NoIdx) /\ pool \in [Buf -> BufState]
      /\ ack_rx_idx \in Opt
  BY DEF TypeOK, OneOwner, MachineOwns
<1>1. /\ Stop(Seen) \in RadioType /\ Stop(Seen).mode = "off" /\ Stop(Seen).dma = NoIdx
  BY SeenType, RadioOpsType, StopDma, NoIdxFacts
<1>2. ASSUME OnAir' \/ OffAir'
      PROVE  AckedDma'
  BY <1>2 DEF OnAir, OffAir
<1>3. CASE IgnoreUserEvent
  BY <1>3, SeenDma DEF IgnoreUserEvent, smVars
<1>4. CASE OnIdle
  <2>1. Seen \in RadioType /\ Seen.mode = "off" /\ Seen.dma = NoIdx
    BY <1>4, SeenDma DEF OnIdle
  <2>2. CASE suspend_requested
    BY <1>2, <1>4, <2>1, <2>2 DEF OnIdle, OffAir
  <2>3. CASE ~suspend_requested
    <3>1. SendNext(tx_idx, pool, Seen, pid)
      BY <1>4, <2>3 DEF OnIdle
    <3> QED
      BY <1>0, <1>2, <2>1, <3>1, SendNextAcked
  <2> QED
    BY <2>2, <2>3
<1>5. CASE OnTxNoAck
  BY <1>5 DEF OnTxNoAck
<1>6. CASE OnTx
  <2>1. CASE RxToDmaChoice(pool) # {}
    <3>1. PICK i \in RxToDmaChoice(pool) :
            ack_rx_idx' = i /\ rf' = PrepareForAck(Seen, i)
      BY <1>6, <2>1 DEF OnTx
    <3>2. state' = "WaitAck" /\ state = "Tx" /\ UNCHANGED tx_idx
      BY <1>6, <2>1 DEF OnTx
    <3>3. i \in Opt /\ i # NoIdx
      BY ChoiceType, NoIdxFacts
    <3>4. rf'.mode = rf.mode /\ rf'.dma = IF rf.mode = "rx" THEN i ELSE rf.dma
      BY <3>1, <3>3, SeenDma, PrepareDma
    <3> QED
      BY <3>1, <3>2, <3>3, <3>4
  <2>2. CASE RxToDmaChoice(pool) = {}
    BY <1>1, <1>2, <1>6, <2>2 DEF OnTx, OffAir
  <2> QED
    BY <2>1, <2>2
<1>7. CASE OnAck
  <2>1. PICK p \in {RxComplete(pool, ack_rx_idx), Release(pool, ack_rx_idx)} :
          FinishPacket(p, Stop(Seen))
    BY <1>7 DEF OnAck
  <2>2. p \in [Buf -> BufState]
    BY <1>0, <2>1, PoolOpsType
  <2> QED
    BY <1>1, <1>2, <2>1, <2>2, FinishPacketAcked
<1>8. CASE OnNoAck
  <2>1. Release(pool, ack_rx_idx) \in [Buf -> BufState]
    BY <1>0, PoolOpsType
  <2>2. \/ FinishPacket(Release(pool, ack_rx_idx), Stop(Seen))
        \/ state' = "WaitRetransmit" /\ rf' = Stop(Seen)
    BY <1>8 DEF OnNoAck
  <2> QED
    BY <1>1, <1>2, <2>1, <2>2, FinishPacketAcked DEF OffAir
<1>9. CASE OnWaitRetransmit
  <2>1. /\ rf' = Transmit(Seen, tx_idx, TRUE) /\ state' = "Tx" /\ UNCHANGED tx_idx
        /\ state = "WaitRetransmit" /\ tx_idx # NoIdx
    BY <1>0, <1>9 DEF OnWaitRetransmit
  <2>2. rf'.mode = "tx" /\ rf'.dma = tx_idx
    BY <1>0, <2>1, SeenDma, TransmitDma
  <2> QED
    BY <1>2, <2>1, <2>2 DEF OnAir
<1> QED
  BY <1>3, <1>4, <1>5, <1>6, <1>7, <1>8, <1>9

\* Every step of an application that asks for an ACK with every packet
LEMMA AckedDmaNext ==
  ASSUME NoAckKinds \subseteq {FALSE}, PtxInv, AckedDma, [Next]_vars
  PROVE  AckedDma'
<1>1. TypeOK /\ OneOwner
  BY DEF PtxInv
<1>2. ASSUME UNCHANGED <<no_ack, state, tx_idx, ack_rx_idx, rf>>
      PROVE  AckedDma'
  BY <1>2 DEF AckedDma
<1>3. ASSUME state' = "Idle", rf'.mode = "off", rf'.dma = NoIdx, UNCHANGED no_ack
      PROVE  AckedDma'
  BY <1>3 DEF AckedDma
<1>4. CASE Isr
  <2>1. CASE TimerIsr
    BY <1>2, <2>1 DEF TimerIsr, smVars
  <2> QED
    BY <1>1, <1>4, <2>1, HandlerAcked DEF Isr, RadioIsr
<1>5. CASE Tick
  <2>1. UNCHANGED <<no_ack, state, tx_idx, ack_rx_idx>>
    BY <1>5 DEF Tick, smVars
  <2>2. \/ UNCHANGED rf
        \/ rf.mode = "tx" /\ rf' = TxEnd(rf)
        \/ rf.mode = "tx" /\ rf' = [rf EXCEPT !.left = @ - 1]
        \/ \E ok \in BOOLEAN : rf' = RxEnd(rf, ok)
    BY <1>5 DEF Tick
  <2>3. \/ rf'.mode = "off" /\ rf'.dma = NoIdx
        \/ rf.mode # "off" /\ rf'.mode # "off" /\ rf'.dma = rf.dma
        \/ UNCHANGED rf
    BY <1>1, <2>2 DEF TypeOK, RadioType, TxEnd, RxEnd
  <2> QED
    BY <2>1, <2>3 DEF AckedDma
<1>6. CASE Sending
  <2>1. CASE SendAlloc
    <3>1. \A i \in Buf : ~no_ack'[i]
      <4>1. PICK i \in AllocTxChoice(pool), na \in NoAckKinds :
              no_ack' = [no_ack EXCEPT ![i] = na]
        BY <2>1 DEF SendAlloc
      <4>2. na = FALSE
        OBVIOUS
      <4> QED
        BY <1>1, <4>1, <4>2 DEF AckedDma, TypeOK
    <3>2. UNCHANGED <<state, tx_idx, ack_rx_idx, rf>>
      BY <2>1 DEF SendAlloc, smVars, hwVars
    <3> QED
      BY <3>1, <3>2 DEF AckedDma
  <2>2. CASE SendEnqueue \/ SendTrigger
    BY <1>2, <2>2 DEF SendEnqueue, SendTrigger, smVars, hwVars
  <2> QED
    BY <1>6, <2>1, <2>2 DEF Sending
<1>7. CASE Receiving
  BY <1>2, <1>7 DEF Receiving, Receive, DropReceived, TakeMaxAttempts, smVars, hwVars
<1>8. CASE BeginCall \/ Control \/ CancelSuspend
  <2>m. \A from, to : Move(from, to) => AckedDma'
    BY <1>2 DEF Move, smVars, hwVars
  <2>s. \A c : Suspend(c) => AckedDma'
    <3> SUFFICES ASSUME NEW c, Suspend(c) PROVE AckedDma'
      OBVIOUS
    <3>1. state' = "Idle" /\ rf' = Stop(rf) /\ UNCHANGED no_ack
      BY DEF Suspend, DoSuspend
    <3> QED
      BY <1>1, <1>3, <3>1, StopDma DEF TypeOK
  <2>1. CASE BeginCall \/ Query \/ PollRead \/ TrySuspend \/ SuspendFast
               \/ SuspendRecheck \/ SuspendFinal
    BY <2>1, <2>m, <2>s DEF BeginCall, Query, PollRead, TrySuspend, SuspendFast,
       SuspendRecheck, SuspendFinal, SuspendIfIdle
  <2>2. CASE SetPipe \/ RequestSuspend \/ PollRegister \/ PollAgain \/ CancelSuspend
    BY <1>2, <2>2 DEF SetPipe, RequestSuspend, PollRegister, PollAgain,
                      CancelSuspend, smVars, hwVars
  <2> QED
    BY <1>8, <2>1, <2>2 DEF Control
<1>9. CASE Restore
  BY <1>3, <1>9 DEF Restore, DoRestore, RadioReset
<1>10. CASE UNCHANGED vars
  BY <1>2, <1>10 DEF vars, smVars, hwVars
<1> QED
  BY <1>4, <1>5, <1>6, <1>7, <1>8, <1>9, <1>10 DEF Next

-----------------------------------------------------------------------------
\* The pool and the machine of UnackedDma, and its interrupts and timer
UnackedPool ==
  \A i \in Buf : pool[i] \in {"tx_allocated", "tx_queued"} => no_ack[i]

UnackedTimer == ~timer_flag /\ ~nvic.timer /\ tm.cc0 = "off" /\ tm.cc1 = "off"

UnackedRadio ==
  /\ state \in {"Idle", "TxNoAck"}
  /\ state = "Idle" => tx_idx = NoIdx
  /\ ~rf.rxen /\ rf.mode \in {"off", "tx"}
  /\ rf.mode = "off" <=> rf.dma = NoIdx
  /\ rf.disabled \/ state = "Idle" => rf.mode = "off"
  /\ rf.mode # "off" => rf.dma = tx_idx

LEMMA UnackedParts ==
  /\ UnackedDma <=> UnackedPool /\ UnackedTimer /\ UnackedRadio
  /\ UnackedDma' <=> UnackedPool' /\ UnackedTimer' /\ UnackedRadio'
BY DEF UnackedDma, UnackedPool, UnackedTimer, UnackedRadio

\* Starting the next packet without an ACK from a radio that is off
LEMMA SendNextUnacked ==
  ASSUME TypeOK, NEW p \in [Buf -> BufState], NEW r \in RadioType, NEW d,
         \A i \in Buf : p[i] \in {"tx_allocated", "tx_queued"} => no_ack[i],
         r.mode = "off", r.dma = NoIdx, ~r.rxen, SendNext(NoIdx, p, r, d)
  PROVE  /\ UnackedRadio'
         /\ \A i \in Buf : pool'[i] \in {"tx_allocated", "tx_queued"} => no_ack[i]
<1>1. CASE DequeueTxChoice(p) # {}
  <2>1. PICK i \in DequeueTxChoice(p) :
          /\ pool' = ToDma(p, i) /\ tx_idx' = i
          /\ rf' = Transmit(r, i, ~no_ack[i])
          /\ state' = IF no_ack[i] THEN "TxNoAck" ELSE "Tx"
    BY <1>1 DEF SendNext
  <2>2. i \in Buf /\ i \in Opt /\ i # NoIdx /\ p[i] = "tx_queued"
    BY ChoiceType, NoIdxFacts
  <2>3. no_ack[i]
    BY <2>2
  <2>4. rf' = Transmit(r, i, FALSE) /\ tx_idx' = i /\ pool' = ToDma(p, i)
    <3>1. (~no_ack[i]) = FALSE
      BY <2>3, Zenon
    <3>2. rf' = Transmit(r, i, FALSE)
      BY <2>1, <3>1, Zenon
    <3> QED
      BY <2>1, <3>2, Zenon
  <2>5. state' = "TxNoAck"
    BY <2>1, <2>3, Zenon
  <2>6. rf'.mode = "tx" /\ rf'.dma = i /\ ~rf'.rxen /\ ~rf'.disabled
    BY <2>2, <2>4 DEF Transmit, RadioType
  <2>7. UnackedRadio'
    BY <2>2, <2>4, <2>5, <2>6 DEF UnackedRadio
  <2>8. \A j \in Buf : pool'[j] \in {"tx_allocated", "tx_queued"} => no_ack[j]
    BY <2>2, <2>4, ToDmaUntouched
  <2> QED
    BY <2>7, <2>8
<1>2. CASE DequeueTxChoice(p) = {}
  <2>1. rf' = IntOff(r) /\ state' = "Idle" /\ tx_idx' = NoIdx /\ pool' = p
    BY <1>2, NoIdxFacts DEF SendNext
  <2> QED
    BY <2>1, IntOffDma DEF UnackedRadio
<1> QED
  BY <1>1, <1>2

\* Only two handlers have anything to do, and the end of a transmission is one.
LEMMA HandlerUnacked ==
  ASSUME TypeOK, OneOwner, UnackedDma, UNCHANGED no_ack,
         IgnoreUserEvent \/ OnIdle \/ OnTxNoAck \/ OnTx \/ OnAck \/ OnNoAck
           \/ OnWaitRetransmit
  PROVE  UnackedPool' /\ UnackedRadio' /\ UNCHANGED tm
<1>1. UnackedPool /\ UnackedTimer /\ UnackedRadio
  BY UnackedParts
<1>2. /\ Seen \in RadioType /\ Seen.mode = rf.mode /\ Seen.dma = rf.dma
      /\ ~Seen.rxen /\ ~Seen.disabled
  BY <1>1, SeenDma DEF UnackedRadio
<1>3. pool \in [Buf -> BufState]
      /\ \A i \in Buf : pool[i] \in {"tx_allocated", "tx_queued"} => no_ack[i]
  BY <1>1 DEF TypeOK, UnackedPool
<1>4. CASE IgnoreUserEvent
  BY <1>1, <1>2, <1>4 DEF IgnoreUserEvent, UnackedPool, UnackedRadio, smVars
<1>5. CASE OnIdle
  <2>1. Seen.mode = "off" /\ Seen.dma = NoIdx /\ tx_idx = NoIdx /\ UNCHANGED tm
    BY <1>1, <1>2, <1>5 DEF OnIdle, UnackedRadio
  <2>2. CASE suspend_requested
    BY <1>1, <1>2, <1>5, <2>1, <2>2 DEF OnIdle, UnackedPool, UnackedRadio
  <2>3. CASE ~suspend_requested
    <3>1. SendNext(NoIdx, pool, Seen, pid)
      BY <1>5, <2>1, <2>3 DEF OnIdle
    <3> QED
      BY <1>2, <1>3, <2>1, <3>1, SendNextUnacked DEF UnackedPool
  <2> QED
    BY <2>2, <2>3
<1>6. CASE OnTxNoAck
  <2>1. rf.disabled /\ FinishPacket(pool, IntOff(Seen)) /\ UNCHANGED tm
    BY <1>1, <1>6 DEF OnTxNoAck, UserEvent, UnackedTimer
  <2>2. /\ IntOff(Seen) \in RadioType /\ IntOff(Seen).mode = "off"
        /\ IntOff(Seen).dma = NoIdx /\ ~IntOff(Seen).rxen
    BY <1>1, <1>2, <2>1, RadioOpsType, IntOffDma, NoIdxFacts DEF UnackedRadio
  <2> DEFINE q == Release(pool, tx_idx)
  <2>3. /\ q \in [Buf -> BufState]
        /\ \A i \in Buf : q[i] \in {"tx_allocated", "tx_queued"} => no_ack[i]
    BY <1>3, PoolOpsType DEF Release, Store
  <2> HIDE DEF q
  <2>4. CASE suspend_requested
    <3>1. /\ rf' = IntOff(IntOff(Seen)) /\ state' = "Idle" /\ tx_idx' = NoIdx
          /\ pool' = q
      BY <2>1, <2>4 DEF FinishPacket, GoIdle, q
    <3>2. rf'.mode = "off" /\ rf'.dma = NoIdx /\ ~rf'.rxen
      BY <2>2, <3>1, IntOffDma
    <3> QED
      BY <2>1, <2>3, <3>1, <3>2 DEF UnackedPool, UnackedRadio
  <2>5. CASE ~suspend_requested
    <3>1. SendNext(NoIdx, q, IntOff(Seen), AdvancePid)
      BY <2>1, <2>5 DEF FinishPacket, q
    <3> QED
      BY <2>1, <2>2, <2>3, <3>1, SendNextUnacked DEF UnackedPool
  <2> QED
    BY <2>4, <2>5
<1>7. ~OnTx /\ ~OnAck /\ ~OnNoAck /\ ~OnWaitRetransmit
  BY <1>1 DEF UnackedRadio, OnTx, OnAck, OnNoAck, OnWaitRetransmit
<1> QED
  BY <1>4, <1>5, <1>6, <1>7

\* Every step of an application that never asks for an ACK
LEMMA UnackedDmaNext ==
  ASSUME NoAckKinds \subseteq {TRUE}, PtxInv, QuietWhileSuspended, UnackedDma,
         [Next]_vars
  PROVE  UnackedDma'
<1>1. TypeOK /\ OneOwner /\ UnackedPool /\ UnackedTimer /\ UnackedRadio
  BY UnackedParts DEF PtxInv
<1>2. \A r : UnpendRadio(nvic, r).timer = nvic.timer /\ PendRadio(nvic).timer = nvic.timer
  BY <1>1 DEF UnpendRadio, PendRadio, TypeOK
<1>p. UNCHANGED <<pool, no_ack>> => UnackedPool'
  BY <1>1 DEF UnackedPool
<1>t. UNCHANGED <<timer_flag, tm>> /\ ~nvic'.timer => UnackedTimer'
  BY <1>1 DEF UnackedTimer
<1>r. UNCHANGED <<state, tx_idx, rf>> => UnackedRadio'
  BY <1>1 DEF UnackedRadio
<1>3. CASE Isr
  <2>1. ~TimerIsr
    BY <1>1 DEF TimerIsr, TimerReady, UnackedTimer
  <2>2. UNCHANGED no_ack /\ timer_flag' = FALSE /\ nvic' = UnpendRadio(nvic, rf')
    BY <1>3, <2>1 DEF Isr, RadioIsr
  <2>3. UnackedPool' /\ UnackedRadio' /\ UNCHANGED tm
    BY <1>1, <1>3, <2>1, <2>2, HandlerUnacked DEF Isr, RadioIsr
  <2>4. UnackedTimer'
    BY <1>1, <1>2, <2>2, <2>3 DEF UnackedTimer
  <2> QED
    BY <2>3, <2>4, UnackedParts
<1>4. CASE Tick
  <2>1. UNCHANGED <<state, tx_idx, pool, no_ack, timer_flag>>
    BY <1>4 DEF Tick, smVars, poolVars
  <2>2. tm'.cc0 = "off" /\ tm'.cc1 = "off"
    BY <1>1, <1>4 DEF Tick, Count, Match, UnackedTimer, TypeOK, TimerType
  <2>3. UnackedTimer'
    <3>1. nvic'.timer = (tm'.cc0 = "fired" \/ tm'.cc1 = "fired")
      BY <1>4 DEF Tick
    <3> QED
      BY <1>1, <2>1, <2>2, <3>1 DEF UnackedTimer
  <2>4. \/ UNCHANGED rf
        \/ rf.mode = "tx" /\ rf' = TxEnd(rf)
        \/ rf.mode = "tx" /\ rf' = [rf EXCEPT !.left = @ - 1]
    BY <1>1, <1>4 DEF Tick, UnackedRadio
  <2>5. UnackedRadio'
    BY <1>1, <2>1, <2>4 DEF UnackedRadio, TxEnd, TypeOK, RadioType
  <2> QED
    BY <1>p, <2>1, <2>3, <2>5, UnackedParts
<1>5. CASE Sending
  <2>1. UNCHANGED <<state, tx_idx, rf, timer_flag, tm>> /\ ~nvic'.timer
    BY <1>1, <1>2, <1>5 DEF Sending, SendAlloc, SendEnqueue, SendTrigger, smVars,
       hwVars, driverVars, UnackedTimer
  <2>2. CASE SendAlloc
    <3>1. PICK i \in AllocTxChoice(pool), na \in NoAckKinds :
            pool' = AllocTx(pool, i) /\ no_ack' = [no_ack EXCEPT ![i] = na]
      BY <2>2 DEF SendAlloc
    <3>2. na = TRUE /\ i \in Buf
      BY ChoiceType
    <3>3. no_ack'[i] /\ \A j \in Buf : j # i => no_ack'[j] = no_ack[j] /\ pool'[j] = pool[j]
      BY <1>1, <3>1, <3>2 DEF AllocTx, Store, TypeOK
    <3>4. UnackedPool'
      BY <1>1, <3>3 DEF UnackedPool
    <3> QED
      BY <1>t, <1>r, <2>1, <3>4, UnackedParts
  <2>3. CASE SendEnqueue
    <3>1. \A j \in Buf : pool'[j] \in {"tx_allocated", "tx_queued"} =>
                           pool[j] \in {"tx_allocated", "tx_queued"}
      BY <1>1, <2>3 DEF SendEnqueue, EnqueueTx, Store, TypeOK
    <3>2. UnackedPool'
      BY <1>1, <2>3, <3>1 DEF SendEnqueue, UnackedPool
    <3> QED
      BY <1>t, <1>r, <2>1, <3>2, UnackedParts
  <2>4. CASE SendTrigger
    BY <1>p, <1>t, <1>r, <2>1, <2>4, UnackedParts DEF SendTrigger, poolVars
  <2> QED
    BY <1>5, <2>2, <2>3, <2>4 DEF Sending
<1>6. CASE Receiving
  <2>1. UNCHANGED <<state, tx_idx, rf, timer_flag, tm, nvic, no_ack>>
    BY <1>6 DEF Receiving, Receive, DropReceived, TakeMaxAttempts, smVars, hwVars,
       driverVars
  <2>2. \A j \in Buf : pool'[j] \in {"tx_allocated", "tx_queued"} =>
                         pool[j] \in {"tx_allocated", "tx_queued"}
    BY <1>1, <1>6 DEF Receiving, Receive, DropReceived, TakeMaxAttempts, Release,
       Store, TypeOK, poolVars
  <2>3. UnackedPool'
    BY <1>1, <2>1, <2>2 DEF UnackedPool
  <2> QED
    BY <1>1, <1>t, <1>r, <2>1, <2>3, UnackedParts DEF UnackedTimer
<1>7. CASE BeginCall \/ Control \/ CancelSuspend
  <2>u. ASSUME UNCHANGED <<state, tx_idx, rf, timer_flag, tm, no_ack, pool>>,
               ~nvic'.timer
        PROVE  UnackedDma'
    BY <1>p, <1>t, <1>r, <2>u, UnackedParts
  <2>m. \A from, to : Move(from, to) => UnackedDma'
    BY <1>1, <2>u DEF Move, smVars, hwVars, poolVars, driverVars, UnackedTimer
  <2>s. \A c : Suspend(c) => UnackedDma'
    <3> SUFFICES ASSUME NEW c, Suspend(c) PROVE UnackedDma'
      OBVIOUS
    <3>1. /\ state' = "Idle" /\ rf' = Stop(rf) /\ tx_idx' = NoIdx
          /\ tm' = DisarmAckTimeout(DisarmRetransmit(StopTimer(tm)))
          /\ nvic' = UnpendRadio(nvic, rf') /\ UNCHANGED <<no_ack, timer_flag>>
      BY DEF Suspend, DoSuspend
    <3>2. UnackedRadio'
      BY <1>1, <3>1, StopDma DEF UnackedRadio, TypeOK
    <3>3. tm'.cc0 = "off" /\ tm'.cc1 = "off"
      BY <1>1, <3>1 DEF DisarmAckTimeout, DisarmRetransmit, StopTimer, TypeOK, TimerType
    <3>4. UnackedTimer'
      BY <1>1, <1>2, <3>1, <3>3 DEF UnackedTimer
    <3>5. \A j \in Buf : pool'[j] \in {"tx_allocated", "tx_queued"} =>
                           pool[j] \in {"tx_allocated", "tx_queued"}
      BY <1>1 DEF Suspend, DoSuspend, Release, Store, TypeOK
    <3>6. UnackedPool'
      BY <1>1, <3>1, <3>5 DEF UnackedPool
    <3> QED
      BY <3>2, <3>4, <3>6, UnackedParts
  <2>1. CASE BeginCall \/ Query \/ PollRead \/ TrySuspend \/ SuspendFast
               \/ SuspendRecheck \/ SuspendFinal
    BY <2>1, <2>m, <2>s DEF BeginCall, Query, PollRead, TrySuspend, SuspendFast,
       SuspendRecheck, SuspendFinal, SuspendIfIdle
  <2>2. CASE SetPipe \/ RequestSuspend \/ PollRegister \/ PollAgain \/ CancelSuspend
    <3>1. CASE SetPipe
      <4>1. UNCHANGED <<state, tx_idx, rf, timer_flag, tm, no_ack, pool>>
        BY <3>1 DEF SetPipe, smVars, driverVars, poolVars
      <4>2. ~nvic'.timer
        BY <1>1, <1>2, <3>1 DEF SetPipe, UnackedTimer
      <4> QED
        BY <2>u, <4>1, <4>2
    <3>2. CASE RequestSuspend \/ PollRegister \/ PollAgain \/ CancelSuspend
      <4>1. UNCHANGED <<state, tx_idx, rf, timer_flag, tm, nvic, no_ack, pool>>
        BY <3>2 DEF RequestSuspend, PollRegister, PollAgain, CancelSuspend, smVars,
           hwVars, poolVars
      <4> QED
        BY <1>1, <2>u, <4>1 DEF UnackedTimer
    <3> QED
      BY <2>2, <3>1, <3>2
  <2> QED
    BY <1>7, <2>1, <2>2 DEF Control
<1>8. CASE Restore
  <2>1. /\ ctl = "suspended" /\ state' = "Idle" /\ rf' = RadioReset
        /\ nvic' = UnpendRadio(nvic, rf')
        /\ UNCHANGED <<pool, no_ack, tx_idx, timer_flag, tm>>
    BY <1>8 DEF Restore, DoRestore, poolVars
  <2>2. state = "Idle"
    BY <2>1 DEF QuietWhileSuspended
  <2>3. UnackedRadio'
    BY <1>1, <2>1, <2>2 DEF UnackedRadio, RadioReset
  <2>4. ~nvic'.timer
    BY <1>1, <1>2, <2>1 DEF UnackedTimer
  <2> QED
    BY <1>p, <1>t, <2>1, <2>3, <2>4, UnackedParts
<1>9. CASE UNCHANGED vars
  BY <1>1, <1>p, <1>t, <1>r, <1>9, UnackedParts DEF vars, smVars, hwVars, UnackedTimer
<1> QED
  BY <1>3, <1>4, <1>5, <1>6, <1>7, <1>8, <1>9 DEF Next

DmaInv ==
  /\ PtxInv /\ QuietWhileSuspended
  /\ NoAckKinds \subseteq {FALSE} => AckedDma
  /\ NoAckKinds \subseteq {TRUE} => UnackedDma

LEMMA DmaInvInit == Init => DmaInv
<1> SUFFICES ASSUME Init PROVE DmaInv
  OBVIOUS
<1> USE DEF Init, NewMachine, NewDriver, PoolInit, RadioReset, TimerReset
<1>1. AckedDma
  BY DEF AckedDma
<1>2. UnackedDma
  BY DEF UnackedDma
<1>3. QuietWhileSuspended
  BY DEF QuietWhileSuspended
<1> QED
  BY <1>1, <1>2, <1>3, PtxInvInit DEF DmaInv

\* EasyDMA works on a buffer in DMA ownership only, for applications that send
\* packets of one kind: no buffer is freed, or given to a task, while the radio
\* reads or writes it.
THEOREM PtxDmaOwned ==
  ASSUME OneKind
  PROVE  Spec => []DmaOwned
<1>1. NoAckKinds \subseteq {FALSE} \/ NoAckKinds \subseteq {TRUE}
  BY PtxAssumption DEF OneKind
<1>2. DmaInv /\ [Next]_vars => DmaInv'
  <2> SUFFICES ASSUME DmaInv, [Next]_vars PROVE DmaInv'
    OBVIOUS
  <2>1. PtxInv' /\ QuietWhileSuspended'
    BY PtxInvNext, QuietNext DEF DmaInv, PtxInv
  <2> QED
    BY <2>1, AckedDmaNext, UnackedDmaNext DEF DmaInv
<1>3. DmaInv => DmaOwned
  <2> SUFFICES ASSUME DmaInv, rf.dma # NoIdx PROVE pool[rf.dma] = "in_dma"
    BY DEF DmaOwned
  <2>1. TypeOK /\ MachineOwns
    BY DEF DmaInv, PtxInv, OneOwner
  <2>2. CASE AckedDma
    BY <2>1, <2>2 DEF AckedDma, MachineOwns, TypeOK, StatePtx
  <2>3. CASE UnackedDma
    BY <2>1, <2>3 DEF UnackedDma, MachineOwns
  <2> QED
    BY <1>1, <2>2, <2>3 DEF DmaInv
<1> QED
  BY <1>2, <1>3, DmaInvInit, PTL DEF Spec

-----------------------------------------------------------------------------
(* What the liveness properties rest on.  Liveness itself is checked by    *)
(* TLC; that nothing is ever left without a cause to go on is a safety     *)
(* property, and holds for all constants.                                  *)

\* A suspend() that waits is woken once the machine is idle, at whatever
\* point of its poll the packet ends: the state is read after the waker is
\* registered (isr.rs, suspend).
NoLostWakeup == ctl = "wait" /\ state = "Idle" => suspend_signal = "woken"

WakeInv ==
  /\ ctl \in {"registered", "read", "wait"} =>
       suspend_signal \in {"registered", "woken"}
  /\ NoLostWakeup

LEMMA WakeInvNext ==
  ASSUME PtxInv, WakeInv, [Next]_vars
  PROVE  WakeInv'
<1> USE DEF WakeInv, NoLostWakeup
<1>1. TypeOK /\ SuspendInv
  BY DEF PtxInv
<1>m. \A from, to : Move(from, to) =>
        ctl = from /\ ctl' = to /\ UNCHANGED <<state, suspend_signal>>
  BY DEF Move, smVars, driverVars
<1>s. \A c : Suspend(c) => ctl' = "suspended"
  BY DEF Suspend
<1>2. CASE Isr
  <2>1. CASE TimerIsr
    BY <2>1 DEF TimerIsr, smVars, taskVars
  <2>2. CASE ~TimerIsr
    <3>1. /\ UNCHANGED ctl
          /\ suspend_signal' = IF /\ suspend_requested /\ state' = "Idle"
                                  /\ suspend_signal = "registered"
                               THEN "woken" ELSE suspend_signal
      BY <1>2, <2>2 DEF Isr, RadioIsr, taskVars
    <3> QED
      BY <1>1, <3>1 DEF SuspendInv
  <2> QED
    BY <2>1, <2>2
<1>3. CASE Tick \/ Sending \/ Receiving \/ UNCHANGED vars
  BY <1>3 DEF Tick, Sending, SendAlloc, SendEnqueue, SendTrigger, Receiving,
     Receive, DropReceived, TakeMaxAttempts, vars, smVars, driverVars, taskVars
<1>4. CASE BeginCall \/ Query \/ PollRead
  BY <1>4, <1>m DEF BeginCall, Query, PollRead
<1>5. CASE TrySuspend \/ SuspendFast \/ SuspendRecheck \/ SuspendFinal
  BY <1>5, <1>m, <1>s DEF TrySuspend, SuspendFast, SuspendRecheck, SuspendFinal,
     SuspendIfIdle
<1>6. CASE SetPipe \/ RequestSuspend \/ PollRegister \/ PollAgain
             \/ CancelSuspend \/ Restore
  BY <1>6 DEF SetPipe, RequestSuspend, PollRegister, PollAgain, CancelSuspend,
     Restore
<1> QED
  BY <1>2, <1>3, <1>4, <1>5, <1>6 DEF Next, Control

\* No wake-up of a waiting suspend() is lost, for every timing, pool and order
\* of interrupts: the safety part of SuspendReturns.
THEOREM PtxNoLostWakeup == Spec => []NoLostWakeup
<1>1. Init => PtxInv /\ WakeInv
  BY PtxInvInit DEF Init, WakeInv, NoLostWakeup
<1>2. PtxInv /\ WakeInv /\ [Next]_vars => PtxInv' /\ WakeInv'
  BY PtxInvNext, WakeInvNext
<1>3. WakeInv => NoLostWakeup
  BY DEF WakeInv
<1> QED
  BY <1>1, <1>2, <1>3, PTL DEF Spec

-----------------------------------------------------------------------------
(* A packet in flight never stalls.  validate() accepts settings with an   *)
(* ACK timeout past the retransmit delay, and set_pipe may clear a latched *)
(* TIMER event: with either a packet can wait for ever, so the theorem     *)
(* excludes them.                                                          *)

TimersInOrder == AckCC < RetransmitCC /\ "set_pipe" \notin Calls

\* Something is under way that will call the handler with an event: one is
\* latched, a transmission ends, or a compare channel is still to match.
EventToCome ==
  \/ nvic.radio /\ (timer_flag \/ Line(rf))
  \/ nvic.timer
  \/ rf.mode = "tx" /\ rf.inten
  \/ tm.running /\ tm.cc1 = "armed" /\ tm.count < AckCC
  \/ tm.running /\ tm.cc0 = "armed" /\ tm.count < RetransmitCC

NeverStalls == state # "Idle" => EventToCome

\* Events are latched ...
Latched ==
  /\ timer_flag /\ state # "Idle" => nvic.radio
  /\ Line(rf) => nvic.radio
  /\ ctl # "set_pipe"

\* ... the radio listens only around the wait for an ACK, and sends what the
\* state machine says it sends ...
Radiates ==
  /\ rf.rxen => state = "Tx"
  /\ rf.mode = "rx" => state \in {"Tx", "WaitAck"}
  /\ state \in {"Tx", "TxNoAck"} => rf.inten /\ (rf.mode = "tx" \/ rf.disabled)

\* ... and each wait has a channel to match or an event of it on the way.
AckTimed ==
  state = "WaitAck" =>
    /\ tm.running /\ tm.cc0 = "armed" /\ tm.count <= AckCC
    /\ timer_flag \/ nvic.timer \/ (tm.cc1 = "armed" /\ tm.count < AckCC)

RetransmitTimed ==
  state = "WaitRetransmit" =>
    \/ timer_flag \/ nvic.timer
    \/ tm.running /\ tm.cc0 = "armed" /\ tm.count < RetransmitCC

StallInv == Latched /\ Radiates /\ AckTimed /\ RetransmitTimed

\* The next packet, sent from a radio that neither listens nor will: it is on
\* its way, also when the radio still sends and START is ignored.
LEMMA SendNextRadiates ==
  ASSUME TypeOK, NEW t, NEW p, NEW d, NEW r \in RadioType, ~r.rxen, r.mode # "rx",
         SendNext(t, p, r, d)
  PROVE  /\ state' \in {"Idle", "Tx", "TxNoAck"} /\ Radiates'
<1>1. ASSUME NEW i, NEW b \in BOOLEAN, rf' = Transmit(r, i, b)
      PROVE  rf'.rxen = b /\ rf'.mode = "tx" /\ rf'.inten
  BY <1>1 DEF Transmit, RadioType
<1>2. CASE t # NoIdx
  <2>1. rf' = Transmit(r, t, TRUE) /\ state' = "Tx"
    BY <1>2 DEF SendNext
  <2> QED
    BY <1>1, <2>1 DEF Radiates
<1>3. CASE t = NoIdx /\ DequeueTxChoice(p) # {}
  <2>1. PICK i \in DequeueTxChoice(p) :
          /\ rf' = Transmit(r, i, ~no_ack[i])
          /\ state' = IF no_ack[i] THEN "TxNoAck" ELSE "Tx"
    BY <1>3 DEF SendNext
  <2>2. rf'.rxen = ~no_ack[i] /\ rf'.mode = "tx" /\ rf'.inten
    <3>1. (~no_ack[i]) \in BOOLEAN
      OBVIOUS
    <3> QED
      BY <1>1, <2>1, <3>1
  <2>3. CASE no_ack[i]
    BY <2>1, <2>2, <2>3 DEF Radiates
  <2>4. CASE ~no_ack[i]
    BY <2>1, <2>2, <2>4 DEF Radiates
  <2> QED
    BY <2>3, <2>4
<1>4. CASE t = NoIdx /\ DequeueTxChoice(p) = {}
  <2>1. rf' = IntOff(r) /\ state' = "Idle"
    BY <1>4 DEF SendNext
  <2> QED
    BY <2>1 DEF Radiates, IntOff, RadioType
<1> QED
  BY <1>2, <1>3, <1>4

LEMMA FinishPacketRadiates ==
  ASSUME TypeOK, NEW p, NEW r \in RadioType, ~r.rxen, r.mode # "rx",
         FinishPacket(p, r)
  PROVE  /\ state' \in {"Idle", "Tx", "TxNoAck"} /\ Radiates'
<1>1. CASE suspend_requested
  <2>1. rf' = IntOff(r) /\ state' = "Idle"
    BY <1>1 DEF FinishPacket, GoIdle
  <2> QED
    BY <2>1 DEF Radiates, IntOff, RadioType
<1>2. CASE ~suspend_requested
  BY <1>2, SendNextRadiates DEF FinishPacket
<1> QED
  BY <1>1, <1>2

\* What a run of the handler leaves: events that it has not been called with
\* stay latched.
HandlerTimed ==
  /\ state' = "WaitAck" =>
       /\ tm'.running /\ tm'.cc0 = "armed" /\ tm'.count <= AckCC
       /\ nvic.timer \/ (tm'.cc1 = "armed" /\ tm'.count < AckCC)
  /\ state' = "WaitRetransmit" =>
       \/ nvic.timer
       \/ tm'.running /\ tm'.cc0 = "armed" /\ tm'.count < RetransmitCC

LEMMA SeenRadio ==
  ASSUME TypeOK
  PROVE  /\ Seen \in RadioType /\ IntOff(Seen) \in RadioType
         /\ Stop(Seen) \in RadioType
         /\ Seen.mode = rf.mode /\ Seen.rxen = rf.rxen /\ Seen.inten = rf.inten
         /\ IntOff(Seen).mode = rf.mode /\ IntOff(Seen).rxen = rf.rxen
         /\ Stop(Seen).mode = "off" /\ ~Stop(Seen).rxen
<1>1. Seen \in RadioType /\ rf \in RadioType
  BY SeenType DEF TypeOK
<1>2. IntOff(Seen) \in RadioType /\ Stop(Seen) \in RadioType
  BY <1>1, RadioOpsType, NoIdxFacts
<1>3. Seen.mode = rf.mode /\ Seen.rxen = rf.rxen /\ Seen.inten = rf.inten
  BY <1>1 DEF Seen, RadioType
<1>4. IntOff(Seen).mode = rf.mode /\ IntOff(Seen).rxen = rf.rxen
  BY <1>1, <1>3 DEF IntOff, RadioType
<1>5. Stop(Seen).mode = "off" /\ ~Stop(Seen).rxen
  BY <1>1 DEF Stop, RadioType
<1> QED
  BY <1>1, <1>2, <1>3, <1>4, <1>5

\* An event ends the packet, or moves it to a state that a channel is armed for.
LEMMA HandlerTimes ==
  ASSUME AckCC < RetransmitCC, TypeOK, StallInv,
         OnIdle \/ OnTxNoAck \/ OnTx \/ OnAck \/ OnNoAck \/ OnWaitRetransmit
  PROVE  Radiates' /\ HandlerTimed
<1>1. /\ rf.rxen => state = "Tx"
      /\ rf.mode = "rx" => state \in {"Tx", "WaitAck"}
  BY DEF StallInv, Radiates
<1>2. AckCC \in Nat /\ AckCC > 0 /\ RetransmitCC \in Nat /\ tm \in TimerType
  BY PtxAssumption DEF TypeOK
<1>n. state' \in {"Idle", "Tx", "TxNoAck"} => HandlerTimed
  BY DEF HandlerTimed
<1>3. CASE OnIdle
  <2>1. CASE suspend_requested
    <3>1. rf' = Seen /\ state' = "Idle" /\ state = "Idle"
      BY <1>3, <2>1 DEF OnIdle
    <3> QED
      BY <1>1, <1>n, <3>1, SeenRadio DEF Radiates
  <2>2. CASE ~suspend_requested
    <3>1. SendNext(tx_idx, pool, Seen, pid) /\ state = "Idle"
      BY <1>3, <2>2 DEF OnIdle
    <3> QED
      BY <1>1, <1>n, <3>1, SeenRadio, SendNextRadiates
  <2> QED
    BY <2>1, <2>2
<1>4. CASE OnTxNoAck
  <2>1. FinishPacket(pool, IntOff(Seen)) /\ state = "TxNoAck"
    BY <1>4 DEF OnTxNoAck
  <2> QED
    BY <1>1, <1>n, <2>1, SeenRadio, FinishPacketRadiates
<1>5. CASE OnTx
  <2>1. CASE state' = "WaitAck"
    <3>1. PICK i \in RxToDmaChoice(pool) : rf' = PrepareForAck(Seen, i)
      BY <1>5, <2>1 DEF OnTx
    <3>2. tm' = ArmBoth(tm)
      BY <1>5, <2>1 DEF OnTx
    <3>3. Radiates'
      BY <2>1, <3>1, SeenRadio DEF PrepareForAck, RadioType, Radiates
    <3>4. HandlerTimed
      BY <1>2, <2>1, <3>2 DEF ArmBoth, HandlerTimed
    <3> QED
      BY <3>3, <3>4
  <2>2. CASE state' # "WaitAck"
    <3>1. rf' = Stop(Seen) /\ state' = "Idle"
      BY <1>5, <2>2 DEF OnTx
    <3> QED
      BY <1>n, <3>1, SeenRadio DEF Radiates
  <2> QED
    BY <2>1, <2>2
<1>6. CASE OnAck
  <2>1. PICK p \in {RxComplete(pool, ack_rx_idx), Release(pool, ack_rx_idx)} :
          FinishPacket(p, Stop(Seen))
    BY <1>6 DEF OnAck
  <2> QED
    BY <1>n, <2>1, SeenRadio, FinishPacketRadiates
<1>7. CASE OnNoAck
  <2>1. CASE FinishPacket(Release(pool, ack_rx_idx), Stop(Seen))
    BY <1>n, <2>1, SeenRadio, FinishPacketRadiates
  <2>2. CASE ~FinishPacket(Release(pool, ack_rx_idx), Stop(Seen))
    <3>1. state = "WaitAck" /\ state' = "WaitRetransmit" /\ rf' = Stop(Seen)
          /\ tm' = DisarmAckTimeout(tm)
      BY <1>7, <2>2 DEF OnNoAck
    <3>2. tm.running /\ tm.cc0 = "armed" /\ tm.count <= AckCC
      BY <3>1 DEF StallInv, AckTimed
    <3>3. tm'.running /\ tm'.cc0 = "armed" /\ tm'.count < RetransmitCC
      BY <1>2, <3>1, <3>2 DEF DisarmAckTimeout, TimerType
    <3> QED
      BY <3>1, <3>3, SeenRadio DEF Radiates, HandlerTimed
  <2> QED
    BY <2>1, <2>2
<1>8. CASE OnWaitRetransmit
  <2>1. state = "WaitRetransmit"
    BY <1>8 DEF OnWaitRetransmit
  <2>2. CASE tx_idx # NoIdx
    <3>1. rf' = Transmit(Seen, tx_idx, TRUE) /\ state' = "Tx"
      BY <1>8, <2>2 DEF OnWaitRetransmit
    <3>2. rf'.inten /\ rf'.mode = "tx"
      BY <1>1, <2>1, <3>1, SeenRadio DEF Transmit, RadioType
    <3> QED
      BY <1>n, <3>1, <3>2 DEF Radiates
  <2>3. CASE tx_idx = NoIdx
    <3>1. rf' = IntOff(Seen) /\ state' = "Idle"
      BY <1>8, <2>3 DEF OnWaitRetransmit
    <3> QED
      BY <1>1, <1>n, <2>1, <3>1, SeenRadio DEF Radiates
  <2> QED
    BY <2>2, <2>3
<1> QED
  BY <1>3, <1>4, <1>5, <1>6, <1>7, <1>8

LEMMA StallInvIsr ==
  ASSUME AckCC < RetransmitCC, TypeOK, StallInv, Isr
  PROVE  StallInv'
<1>0. tm \in TimerType /\ rf \in RadioType
  BY DEF TypeOK
<1>1. CASE TimerIsr
  <2>1. /\ UNCHANGED <<state, rf, ctl>> /\ timer_flag' = TRUE
        /\ nvic' = [radio |-> TRUE, timer |-> FALSE]
    BY <1>1 DEF TimerIsr, smVars, taskVars
  <2>2. tm.cc0 = "armed" => UNCHANGED <<tm.running, tm.cc0, tm.count>>
    <3>1. tm.cc0 = "armed" => tm' = DisarmAckTimeout(tm) \/ tm' = tm
      BY <1>1 DEF TimerIsr
    <3> QED
      BY <1>0, <3>1 DEF DisarmAckTimeout, TimerType
  <2>3. Latched' /\ Radiates'
    BY <2>1 DEF StallInv, Latched, Radiates
  <2>4. AckTimed'
    BY <2>1, <2>2 DEF StallInv, AckTimed
  <2>5. RetransmitTimed'
    BY <2>1 DEF RetransmitTimed
  <2> QED
    BY <2>3, <2>4, <2>5 DEF StallInv
<1>2. CASE ~TimerIsr
  <2>1. /\ UNCHANGED ctl /\ ~timer_flag' /\ nvic' = UnpendRadio(nvic, rf')
    BY <1>2 DEF Isr, RadioIsr, taskVars
  <2>2. nvic'.radio = Line(rf') /\ nvic'.timer = nvic.timer
    BY <2>1 DEF UnpendRadio, TypeOK
  <2>3. Latched'
    BY <2>1, <2>2 DEF StallInv, Latched, Line
  <2>4. CASE IgnoreUserEvent
    <3>1. /\ UNCHANGED <<state, tm>> /\ ~timer_flag /\ ~rf.disabled
          /\ rf' = Seen
      BY <2>4 DEF IgnoreUserEvent, UserEvent, smVars
    <3>2. rf'.mode = rf.mode /\ rf'.rxen = rf.rxen /\ rf'.inten = rf.inten
      BY <3>1, SeenRadio
    <3>3. Radiates'
      BY <3>1, <3>2 DEF StallInv, Radiates
    <3>4. AckTimed' /\ RetransmitTimed'
      BY <2>2, <3>1 DEF StallInv, AckTimed, RetransmitTimed
    <3> QED
      BY <2>3, <3>3, <3>4 DEF StallInv
  <2>5. CASE ~IgnoreUserEvent
    <3>1. Radiates' /\ HandlerTimed
      BY <1>2, <2>5, HandlerTimes DEF Isr, RadioIsr
    <3>2. AckTimed' /\ RetransmitTimed'
      BY <2>2, <3>1 DEF HandlerTimed, AckTimed, RetransmitTimed
    <3> QED
      BY <2>3, <3>1, <3>2 DEF StallInv
  <2> QED
    BY <2>4, <2>5
<1> QED
  BY <1>1, <1>2

\* Time passes only when nothing is latched: a transmission goes on or raises
\* its event, a channel counts on or fires.
LEMMA StallInvTick ==
  ASSUME AckCC < RetransmitCC, TypeOK, StallInv, Tick
  PROVE  StallInv'
<1>0. /\ tm \in TimerType /\ rf \in RadioType
      /\ AckCC \in Nat /\ RetransmitCC \in Nat /\ TxTicks \in Nat
  BY PtxAssumption DEF TypeOK
<1>1. /\ ~nvic.radio /\ ~nvic.timer /\ tm' = Count(tm)
      /\ UNCHANGED <<state, timer_flag, ctl>>
      /\ nvic'.radio = Line(rf')
      /\ nvic'.timer = (tm'.cc0 = "fired" \/ tm'.cc1 = "fired")
  BY DEF Tick, smVars, taskVars
<1>2. (state # "Idle" => ~timer_flag) /\ ~Line(rf)
  BY <1>1 DEF StallInv, Latched
<1>3. Latched'
  BY <1>1, <1>2 DEF StallInv, Latched
<1>4. \/ rf.mode # "tx" /\ UNCHANGED rf
      \/ rf.mode = "tx" /\ rf' = TxEnd(rf)
      \/ rf.mode = "tx" /\ rf' = [rf EXCEPT !.left = @ - 1]
      \/ rf.mode = "rx" /\ \E ok \in BOOLEAN : rf' = RxEnd(rf, ok)
  BY DEF Tick
<1>5. Radiates'
  <2>1. CASE rf.mode # "tx" /\ UNCHANGED rf
    BY <1>1, <2>1 DEF StallInv, Radiates
  <2>2. CASE rf.mode = "tx" /\ rf' = TxEnd(rf)
    BY <1>0, <1>1, <2>2 DEF StallInv, Radiates, TxEnd, RadioType
  <2>3. CASE rf.mode = "tx" /\ rf' = [rf EXCEPT !.left = @ - 1]
    BY <1>0, <1>1, <2>3 DEF StallInv, Radiates, RadioType
  <2>4. CASE rf.mode = "rx" /\ \E ok \in BOOLEAN : rf' = RxEnd(rf, ok)
    <3>1. state = "WaitAck"
      BY <1>2, <2>4 DEF StallInv, Radiates, Line
    <3> QED
      BY <1>0, <1>1, <2>4, <3>1 DEF StallInv, Radiates, RxEnd, RadioType
  <2> QED
    BY <1>4, <2>1, <2>2, <2>3, <2>4
<1>6. ASSUME tm.running
      PROVE  /\ tm'.running /\ tm'.count = tm.count + 1
             /\ tm'.cc0 = Match(tm.cc0, RetransmitCC, tm.count + 1)
             /\ tm'.cc1 = Match(tm.cc1, AckCC, tm.count + 1)
  BY <1>0, <1>1, <1>6 DEF Count, TimerType
<1>7. AckTimed'
  <2> SUFFICES ASSUME state = "WaitAck"
               PROVE  /\ tm'.running /\ tm'.cc0 = "armed" /\ tm'.count <= AckCC
                      /\ nvic'.timer \/ (tm'.cc1 = "armed" /\ tm'.count < AckCC)
    BY <1>1 DEF AckTimed
  <2>1. /\ tm.running /\ tm.cc0 = "armed" /\ tm.cc1 = "armed"
        /\ tm.count < AckCC /\ tm.count \in Nat
    BY <1>0, <1>1, <1>2 DEF StallInv, AckTimed, TimerType
  <2>2. tm'.running /\ tm'.cc0 = "armed" /\ tm'.count <= AckCC
    BY <1>0, <1>6, <2>1 DEF Match
  <2>3. tm'.cc1 = "fired" \/ (tm'.cc1 = "armed" /\ tm'.count < AckCC)
    BY <1>0, <1>6, <2>1 DEF Match
  <2> QED
    BY <1>1, <2>2, <2>3
<1>8. RetransmitTimed'
  <2> SUFFICES ASSUME state = "WaitRetransmit"
               PROVE  \/ nvic'.timer
                      \/ tm'.running /\ tm'.cc0 = "armed" /\ tm'.count < RetransmitCC
    BY <1>1 DEF RetransmitTimed
  <2>1. /\ tm.running /\ tm.cc0 = "armed"
        /\ tm.count < RetransmitCC /\ tm.count \in Nat
    BY <1>0, <1>1, <1>2 DEF StallInv, RetransmitTimed, TimerType
  <2>2. tm'.cc0 = "fired" \/ (tm'.cc0 = "armed" /\ tm'.count < RetransmitCC)
    BY <1>0, <1>6, <2>1 DEF Match
  <2> QED
    BY <1>1, <1>6, <2>1, <2>2
<1> QED
  BY <1>3, <1>5, <1>7, <1>8 DEF StallInv

\* The tasks latch events but clear none, except where they leave the machine
\* idle and the radio off.
LEMMA StallInvTasks ==
  ASSUME "set_pipe" \notin Calls, TypeOK, StallInv,
         Sending \/ Receiving \/ BeginCall \/ Control \/ CancelSuspend \/ Restore
  PROVE  StallInv'
<1>0. rf \in RadioType /\ nvic \in [radio : BOOLEAN, timer : BOOLEAN]
  BY DEF TypeOK
<1>f. /\ UNCHANGED <<state, rf, tm, timer_flag>> /\ ctl' # "set_pipe"
      /\ nvic' = nvic \/ nvic' = PendRadio(nvic)
      => StallInv'
  BY <1>0 DEF StallInv, Latched, Radiates, AckTimed, RetransmitTimed, PendRadio, Line
<1>i. /\ state' = "Idle" /\ rf'.mode = "off" /\ ~rf'.rxen /\ ~rf'.disabled
      /\ ctl' # "set_pipe"
      => StallInv'
  BY DEF StallInv, Latched, Radiates, AckTimed, RetransmitTimed, Line
<1>m. \A from, to : to # "set_pipe" /\ Move(from, to) => StallInv'
  BY <1>f DEF Move, smVars, hwVars, driverVars
<1>s. \A c : Suspend(c) => StallInv'
  <2> SUFFICES ASSUME NEW c, Suspend(c) PROVE StallInv'
    OBVIOUS
  <2>1. state' = "Idle" /\ rf' = Stop(rf) /\ ctl' = "suspended"
    BY DEF Suspend, DoSuspend
  <2> QED
    BY <1>0, <1>i, <2>1 DEF Stop, RadioType
<1>1. CASE Sending
  <2>1. UNCHANGED <<state, rf, tm, timer_flag, ctl>>
        /\ (nvic' = nvic \/ nvic' = PendRadio(nvic))
    BY <1>1 DEF Sending, SendAlloc, SendEnqueue, SendTrigger, smVars, hwVars, driverVars
  <2> QED
    BY <1>f, <2>1 DEF StallInv, Latched
<1>2. CASE Receiving
  <2>1. UNCHANGED <<state, rf, tm, timer_flag, ctl, nvic>>
    BY <1>2 DEF Receiving, Receive, DropReceived, TakeMaxAttempts, smVars, hwVars,
       driverVars, taskVars
  <2> QED
    BY <1>f, <2>1 DEF StallInv, Latched
<1>3. CASE BeginCall \/ Query \/ PollRead
  BY <1>3, <1>m DEF BeginCall, Query, PollRead
<1>4. CASE TrySuspend \/ SuspendFast \/ SuspendRecheck \/ SuspendFinal
  BY <1>4, <1>m, <1>s DEF TrySuspend, SuspendFast, SuspendRecheck, SuspendFinal,
     SuspendIfIdle
<1>5. CASE SetPipe
  BY <1>5 DEF SetPipe, StallInv, Latched
<1>6. CASE RequestSuspend \/ PollRegister \/ PollAgain \/ CancelSuspend
  <2>1. UNCHANGED <<state, rf, tm, timer_flag, nvic>> /\ ctl' # "set_pipe"
    BY <1>6 DEF RequestSuspend, PollRegister, PollAgain, CancelSuspend, smVars, hwVars
  <2> QED
    BY <1>f, <2>1
<1>7. CASE Restore
  <2>1. state' = "Idle" /\ rf' = RadioReset /\ ctl' = "idle"
    BY <1>7 DEF Restore, DoRestore
  <2> QED
    BY <1>i, <2>1 DEF RadioReset
<1> QED
  BY <1>1, <1>2, <1>3, <1>4, <1>5, <1>6, <1>7 DEF Control

LEMMA StallInvNext ==
  ASSUME TimersInOrder
  PROVE  TypeOK /\ StallInv /\ [Next]_vars => StallInv'
<1> SUFFICES ASSUME TypeOK, StallInv, [Next]_vars PROVE StallInv'
  OBVIOUS
<1>1. CASE UNCHANGED vars
  BY <1>1 DEF vars, smVars, hwVars, taskVars, StallInv, Latched, Radiates, AckTimed,
     RetransmitTimed, Line
<1> QED
  BY <1>1, StallInvIsr, StallInvTick, StallInvTasks DEF Next, TimersInOrder

\* While a packet is in flight an event for it is latched, or the radio or the
\* timer will raise one, for every pool, timing in order, and interleaving:
\* the safety part of InFlightCompletes.
THEOREM PtxNeverStalls ==
  ASSUME TimersInOrder
  PROVE  Spec => []NeverStalls
<1>1. Init => TypeOK /\ StallInv
  <2>1. Init => StallInv
    BY DEF Init, NewMachine, NewDriver, RadioReset, StallInv, Latched, Radiates,
       AckTimed, RetransmitTimed, Line
  <2> QED
    BY <2>1, InitType
<1>2. TypeOK /\ StallInv /\ [Next]_vars => TypeOK' /\ StallInv'
  BY NextType, StallInvNext
<1>3. TypeOK /\ StallInv => NeverStalls
  <2> SUFFICES ASSUME TypeOK, StallInv, state # "Idle" PROVE EventToCome
    BY DEF NeverStalls
  <2>1. state \in {"Tx", "TxNoAck", "WaitAck", "WaitRetransmit"}
    BY DEF TypeOK, StatePtx
  <2> QED
    BY <2>1 DEF StallInv, Latched, Radiates, AckTimed, RetransmitTimed, EventToCome,
       Line
<1> QED
  BY <1>1, <1>2, <1>3, PTL DEF Spec

-----------------------------------------------------------------------------
(* A packet in flight is done after a bounded number of states.  A packet  *)
(* put back to Idle for want of a buffer for its ACK is sent again without *)
(* an attempt being counted, so a buffer must be free for it.              *)

\* Retransmissions left, then the states left of the attempt
Phase(s) == IF s = "WaitRetransmit" THEN 2 ELSE IF s = "Tx" THEN 1 ELSE 0

\* A step that changes the state but not the packet brings it closer to its end.
MovesOn ==
  tx_idx # NoIdx /\ tx_idx' = tx_idx /\ state' # state =>
    \/ attempts' = attempts + 1 /\ attempts' < MaxAttempts
    \/ attempts' = attempts /\ Phase(state') < Phase(state)

\* A new packet starts with all its attempts.
AttemptsInv ==
  attempts # 0 => attempts < MaxAttempts /\ state \notin {"Idle", "TxNoAck"}

\* The next packet is another one: the buffer of the last is free again.
LEMMA FinishPacketNext ==
  ASSUME TypeOK, tx_idx # NoIdx, NEW p \in [Buf -> BufState], NEW r,
         FinishPacket(p, r)
  PROVE  tx_idx' # tx_idx
<1> DEFINE q == Release(p, tx_idx)
<1>1. tx_idx \in Buf /\ q \in [Buf -> BufState] /\ q[tx_idx] = "free"
  BY DEF Release, Store, BufState, TypeOK, Opt
<1>2. CASE suspend_requested
  BY <1>2 DEF FinishPacket, GoIdle
<1>3. CASE ~suspend_requested /\ DequeueTxChoice(q) # {}
  <2>1. PICK i \in DequeueTxChoice(q) : tx_idx' = i
    BY <1>3 DEF FinishPacket, SendNext
  <2>2. q[i] = "tx_queued"
    BY <1>1, <2>1, ChoiceType
  <2> QED
    BY <1>1, <2>1, <2>2
<1>4. CASE ~suspend_requested /\ DequeueTxChoice(q) = {}
  BY <1>4 DEF FinishPacket, SendNext
<1> QED
  BY <1>2, <1>3, <1>4

LEMMA HandlerMovesOn ==
  ASSUME Reserve >= 1, PacketInv, AttemptsInv,
         \/ IgnoreUserEvent \/ OnIdle \/ OnTxNoAck \/ OnTx \/ OnAck \/ OnNoAck
         \/ OnWaitRetransmit
  PROVE  MovesOn /\ AttemptsInv'
<1>1. /\ TypeOK /\ RoomInv /\ pool \in [Buf -> BufState]
      /\ attempts \in Nat /\ MaxAttempts \in Nat
  BY PtxAssumption DEF PacketInv, PtxInv, TypeOK
<1>2. state # "Idle" => tx_idx # NoIdx
  BY DEF PacketInv, PtxInv, OneOwner, MachineOwns
<1>3. CASE IgnoreUserEvent
  BY <1>3 DEF IgnoreUserEvent, smVars, MovesOn, AttemptsInv
<1>4. CASE OnIdle
  <2>1. tx_idx = NoIdx /\ attempts = 0 /\ attempts' = 0
    BY <1>1, <1>4 DEF OnIdle, RoomInv, AttemptsInv
  <2> QED
    BY <2>1 DEF MovesOn, AttemptsInv
<1>5. CASE OnTxNoAck
  <2>1. FinishPacket(pool, IntOff(Seen)) /\ attempts = 0 /\ attempts' = 0
        /\ state = "TxNoAck"
    BY <1>5 DEF OnTxNoAck, AttemptsInv
  <2> QED
    BY <1>1, <1>2, <2>1, FinishPacketNext DEF MovesOn, AttemptsInv
<1>6. CASE OnTx
  <2>1. RxToDmaChoice(pool) # {}
    BY <1>1, <1>6, LowestExists DEF OnTx, RoomInv, RxToDmaChoice, FreeBufs, InState
  <2>2. state = "Tx" /\ state' = "WaitAck" /\ UNCHANGED attempts
    BY <1>6, <2>1 DEF OnTx
  <2> QED
    BY <2>2 DEF MovesOn, AttemptsInv, Phase
<1>7. CASE OnAck
  <2>1. attempts' = 0 /\ state = "WaitAck"
    BY <1>7 DEF OnAck
  <2>2. PICK p \in {RxComplete(pool, ack_rx_idx), Release(pool, ack_rx_idx)} :
          FinishPacket(p, Stop(Seen))
    BY <1>7 DEF OnAck
  <2>3. p \in [Buf -> BufState]
    BY <1>1, <2>2 DEF RxComplete, Release, Store, BufState
  <2> QED
    BY <1>1, <1>2, <2>1, <2>2, <2>3, FinishPacketNext DEF MovesOn, AttemptsInv
<1>8. CASE OnNoAck
  <2>1. Release(pool, ack_rx_idx) \in [Buf -> BufState] /\ state = "WaitAck"
    BY <1>1, <1>8 DEF OnNoAck, Release, Store, BufState
  <2>2. CASE attempts + 1 >= MaxAttempts
    <3>1. FinishPacket(Release(pool, ack_rx_idx), Stop(Seen)) /\ attempts' = 0
      BY <1>8, <2>2 DEF OnNoAck
    <3> QED
      BY <1>1, <1>2, <2>1, <3>1, FinishPacketNext DEF MovesOn, AttemptsInv
  <2>3. CASE ~(attempts + 1 >= MaxAttempts)
    <3>1. state' = "WaitRetransmit" /\ attempts' = attempts + 1
      BY <1>8, <2>3 DEF OnNoAck
    <3> QED
      BY <1>1, <2>3, <3>1 DEF MovesOn, AttemptsInv
  <2> QED
    BY <2>2, <2>3
<1>9. CASE OnWaitRetransmit
  <2>1. state = "WaitRetransmit" /\ state' = "Tx" /\ UNCHANGED attempts
    BY <1>2, <1>9 DEF OnWaitRetransmit
  <2> QED
    BY <2>1 DEF MovesOn, AttemptsInv, Phase
<1> QED
  BY <1>3, <1>4, <1>5, <1>6, <1>7, <1>8, <1>9

LEMMA MovesOnNext ==
  ASSUME Reserve >= 1, PacketInv, AttemptsInv, [Next]_vars
  PROVE  MovesOn /\ AttemptsInv'
<1>f. UNCHANGED <<state, attempts>> => MovesOn /\ AttemptsInv'
  BY DEF MovesOn, AttemptsInv
<1>i. tx_idx' = NoIdx /\ attempts' = 0 => MovesOn /\ AttemptsInv'
  BY DEF MovesOn, AttemptsInv
<1>m. \A from, to : Move(from, to) => MovesOn /\ AttemptsInv'
  BY <1>f DEF Move, smVars
<1>s. \A c : Suspend(c) => MovesOn /\ AttemptsInv'
  BY <1>i DEF Suspend, DoSuspend
<1>1. CASE Isr
  <2>1. CASE TimerIsr
    BY <1>f, <2>1 DEF TimerIsr, smVars
  <2> QED
    BY <1>1, <2>1, HandlerMovesOn DEF Isr, RadioIsr
<1>2. CASE Tick \/ Sending \/ Receiving \/ UNCHANGED vars
  BY <1>2, <1>f DEF Tick, Sending, SendAlloc, SendEnqueue, SendTrigger, Receiving,
     Receive, DropReceived, TakeMaxAttempts, vars, smVars
<1>3. CASE BeginCall \/ Query \/ PollRead
  BY <1>3, <1>m DEF BeginCall, Query, PollRead
<1>4. CASE TrySuspend \/ SuspendFast \/ SuspendRecheck \/ SuspendFinal
  BY <1>4, <1>m, <1>s DEF TrySuspend, SuspendFast, SuspendRecheck, SuspendFinal,
     SuspendIfIdle
<1>5. CASE SetPipe \/ RequestSuspend \/ PollRegister \/ PollAgain \/ CancelSuspend
  BY <1>5, <1>f DEF SetPipe, RequestSuspend, PollRegister, PollAgain,
     CancelSuspend, smVars
<1>6. CASE Restore
  <2>1. state = "Idle" /\ state' = "Idle" /\ UNCHANGED attempts
    BY <1>6 DEF Restore, DoRestore, PacketInv, QuietWhileSuspended
  <2> QED
    BY <1>f, <2>1
<1> QED
  BY <1>1, <1>2, <1>3, <1>4, <1>5, <1>6 DEF Next, Control

\* A packet passes at most three states per attempt and is sent again fewer than
\* MaxAttempts times, whatever is lost and whenever timers and interrupts fall:
\* with PtxNeverStalls, why a packet in flight completes.
THEOREM PtxMovesOn ==
  ASSUME Reserve >= 1
  PROVE  Spec => [][MovesOn]_vars
<1>1. Init => PacketInv /\ AttemptsInv
  BY PacketInvInit DEF Init, NewMachine, AttemptsInv
<1>2. PacketInv /\ AttemptsInv /\ [Next]_vars
        => PacketInv' /\ AttemptsInv' /\ [MovesOn]_vars
  BY PacketInvNext, MovesOnNext DEF RoomToSuspend
<1> QED
  BY <1>1, <1>2, PTL DEF Spec
=============================================================================
