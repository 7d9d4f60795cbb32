-------------------------- MODULE TimeslotPrxProofs --------------------------
(***************************************************************************)
(* Proofs about TimeslotPrx, for every pool, set of pipes, sessions,       *)
(* engines and faults: the radio and the state machine are quiet outside   *)
(* the slots, the windows hinted at in ACKs are kept, and the windows keep *)
(* coming.                                                                 *)
(***************************************************************************)
EXTENDS TimeslotPrx, PacketPoolProofs

-----------------------------------------------------------------------------
(* The hints                                                               *)

\* What the last ACK of the slot has hinted at is still what the budget says,
\* unless a new packet without ACK has refilled it after an ACK of a parked slot.
HintInv ==
  /\ budget \in Nat
  /\ InSlot => /\ hinted = "fast" => budget > 0
               /\ hinted = "parked" => budget = 0 \/ "unhinted" \in lapses

\* A packet received by the inline engine: an ACK is written after the budget
\* is refilled, and a refill without ACK leaves a hint of a fast window true.
LEMMA LegacyHint ==
  ASSUME HintInv, InSlot, LegacyRadio
  PROVE  /\ budget' \in Nat
         /\ hinted' = "fast" => budget' > 0
         /\ hinted' = "parked" => budget' = 0 \/ "unhinted" \in lapses'
<1>1. CASE LegacyBadCrc \/ LegacyAckSent \/ LegacyIgnored
  BY <1>1 DEF LegacyBadCrc, LegacyAckSent, LegacyIgnored, HintInv, legacyVars
<1>2. CASE LegacyDup
  <2>1. budget' = budget
    BY <1>2 DEF LegacyDup
  <2>2. UNCHANGED <<hinted, lapses>> \/ hinted' = SchedulePeriod
    BY <1>2 DEF LegacyDup, LegacyAck
  <2> QED
    BY <2>1, <2>2 DEF HintInv, SchedulePeriod
<1>3. CASE LegacyNew
  <2>1. budget' \in Nat /\ (budget > 0 => budget' > 0)
    BY <1>3, TimeslotPrxAssumption DEF LegacyNew, RefillFastBudget, HintInv
  <2>2. CASE rx_buf.no_ack
    <3>1. /\ hinted' = hinted
          /\ lapses' = IF hinted = "parked" THEN lapses \cup {"unhinted"} ELSE lapses
      BY <1>3, <2>2 DEF LegacyNew
    <3> QED
      BY <2>1, <3>1 DEF HintInv
  <2>3. CASE ~rx_buf.no_ack
    <3>1. hinted' = SchedulePeriod
      BY <1>3, <2>3 DEF LegacyNew, LegacyAck
    <3> QED
      BY <2>1, <3>1 DEF SchedulePeriod
  <2> QED
    BY <2>2, <2>3
<1> QED
  BY <1>1, <1>2, <1>3 DEF LegacyRadio

\* The end of a slot spends at most what there is, and keeps a hint of a parked
\* session that goes on.
LEMMA EndHint ==
  ASSUME HintInv, EndOfSlot
  PROVE  /\ budget' \in Nat /\ hinted' = "none" /\ mpsl' \in {"idle", "requested"}
         /\ InSlot /\ mode = "parked" /\ ~closing =>
              /\ hinted = "fast" => mpsl' = "requested" \/ "fast_distance" \in lapses'
              /\ hinted = "parked" => mpsl' = "idle" \/ "unhinted" \in lapses'
<1>1. hinted' = "none" /\ Finalize
  BY DEF EndOfSlot
<1>2. CASE Goes /\ RequestNormal /\ UNCHANGED <<budget, lapses>>
  BY <1>1, <1>2 DEF HintInv, Goes, RequestNormal
<1>3. CASE /\ ~Goes /\ budget > 0 /\ RequestNormal /\ budget' = SpendFastBudget
           /\ UNCHANGED lapses
  BY <1>1, <1>3 DEF HintInv, RequestNormal, SpendFastBudget
<1>4. CASE ~Goes /\ budget > 0 /\ EndSlot /\ budget' = 0
             /\ lapses' = lapses \cup {"fast_distance"}
  BY <1>1, <1>4 DEF HintInv, EndSlot
<1>5. CASE ~Goes /\ budget = 0 /\ EndSlot /\ UNCHANGED <<budget, lapses>>
  BY <1>1, <1>5 DEF HintInv, EndSlot
<1> QED
  BY <1>1, <1>2, <1>3, <1>4, <1>5 DEF Finalize

\* The actions that neither begin nor end a slot, nor hear a packet
Aside ==
  \/ TsDiscardReceived \/ Blocked \/ SessionIdle \/ InvalidReturn \/ SessionClosed
  \/ Task \/ Air

\* They leave the budget alone, the hint of a slot and what is known of it too,
\* and enter no slot.
LEMMA AsideFrame ==
  ASSUME Aside
  PROVE  /\ budget' = budget
         /\ InSlot' => InSlot /\ hinted' = hinted
         /\ "unhinted" \in lapses => "unhinted" \in lapses'
         /\ InSlot => mpsl' = mpsl
<1>1. CASE TsDiscardReceived
  BY <1>1 DEF TsDiscardReceived, InSlot, mpslVars, legacyVars
<1>2. CASE Blocked
  BY <1>2 DEF Blocked, InSlot, legacyVars
<1>3. CASE SessionIdle
  BY <1>3 DEF SessionIdle, InSlot, legacyVars
<1>4. CASE InvalidReturn
  BY <1>4 DEF InvalidReturn, InSlot
<1>5. CASE SessionClosed
  BY <1>5 DEF SessionClosed, InSlot
<1>6. CASE Task
  <2>1. CASE \E m \in Modes : OpenSession(m)
    BY <2>1 DEF OpenSession, ResetRuntime, FirstRequest, InSlot
  <2>2. CASE RunPrxSlots
    BY <2>2 DEF RunPrxSlots, ResetRuntime, FirstRequest, InSlot
  <2>3. CASE StartTimeslotPrx
    BY <2>3 DEF StartTimeslotPrx, ResetRuntime, FirstRequest, InSlot
  <2>4. CASE SetPrxDriver
    BY <2>4 DEF SetPrxDriver, InSlot, mpslVars
  <2>5. CASE RequestWindow
    BY <2>5 DEF RequestWindow, InSlot, legacyVars
  <2>6. CASE DropSession
    BY <2>6 DEF DropSession, InSlot, legacyVars
  <2>7. CASE RunReturns \/ DropRun
    BY <2>7 DEF RunReturns, DropRun, CloseRun, InSlot, legacyVars
  <2> QED
    BY <1>6, <2>1, <2>2, <2>3, <2>4, <2>5, <2>6, <2>7 DEF Task
<1>7. CASE Air
  BY <1>7 DEF Air, InSlot, mpslVars
<1> QED
  BY <1>1, <1>2, <1>3, <1>4, <1>5, <1>6, <1>7 DEF Aside

\* The actions that are not Aside
LEMMA Steps ==
  ASSUME Next
  PROVE  Aside \/ Start \/ RadioSignal \/ Timer0 \/ ExtendSucceeded \/ ExtendFailed
         \/ Overstayed
BY DEF Next, Mpsl, Aside

\* Each way to end a slot at its time
LEMMA SlotEndCases ==
  ASSUME Timer0 \/ ExtendSucceeded \/ ExtendFailed
  PROVE  \/ InSlot /\ EndOfSlot
         \/ /\ InSlot /\ InSlot'
            /\ UNCHANGED <<prxVars, driver, saved, slot_active, starts, done,
                           legacyVars, active, budget, lapses>>
<1>1. CASE Timer0
  BY <1>1 DEF Timer0, InSlot, slotVars
<1>2. CASE ExtendSucceeded
  BY <1>2 DEF ExtendSucceeded, InSlot
<1>3. CASE ExtendFailed
  BY <1>3 DEF ExtendFailed, InSlot
<1> QED
  BY <1>1, <1>2, <1>3

\* HintInv is inductive.
LEMMA HintStep == HintInv /\ [Next]_vars => HintInv'
<1> SUFFICES ASSUME HintInv, [Next]_vars PROVE HintInv'
  OBVIOUS
<1>1. CASE Aside
  BY <1>1, AsideFrame DEF HintInv
<1>2. CASE Start
  BY <1>2 DEF Start, HintInv
<1>3. CASE RadioSignal
  <2>1. CASE ConvergedRadio
    BY <1>3, <2>1 DEF ConvergedRadio, RadioSignal, HintInv, InSlot, mpslVars, legacyVars
  <2>2. CASE LegacyRadio
    BY <1>3, <2>2, LegacyHint DEF RadioSignal, HintInv
  <2> QED
    BY <1>3, <2>1, <2>2 DEF RadioSignal
<1>4. CASE Timer0 \/ ExtendSucceeded \/ ExtendFailed
  <2>1. CASE EndOfSlot
    BY <2>1, EndHint DEF HintInv
  <2>2. CASE InSlot /\ InSlot' /\ UNCHANGED <<legacyVars, budget, lapses>>
    BY <2>2 DEF HintInv, legacyVars
  <2> QED
    BY <1>4, <2>1, <2>2, SlotEndCases
<1>5. CASE Overstayed
  BY <1>5 DEF Overstayed, HintInv
<1>6. CASE UNCHANGED vars
  BY <1>6 DEF vars, HintInv, InSlot, mpslVars, legacyVars
<1> QED
  BY <1>1, <1>2, <1>3, <1>4, <1>5, <1>6, Steps

\* A window hinted at is asked for, and a slot that has hinted at the next
\* connection event asks for none, unless a new packet without ACK has followed the
\* hint: the budget that an ACK was written from is else the one the end of the
\* slot decides by.
THEOREM TimeslotPrxHintIsKept == Spec => HintIsKept
<1> DEFINE Kept ==
      InSlot /\ mpsl' \in {"idle", "requested"} /\ mode = "parked" /\ ~closing
        /\ "overstayed" \notin lapses'
      => /\ hinted = "fast" => mpsl' = "requested" \/ "fast_distance" \in lapses'
         /\ hinted = "parked" => mpsl' = "idle" \/ "unhinted" \in lapses'
<1>1. TimeslotPrxInit => HintInv
  BY DEF TimeslotPrxInit, NewTimeslotDriver, HintInv, InSlot
<1>2. HintInv /\ [Next]_vars => [Kept]_vars
  <2> SUFFICES ASSUME HintInv, Next PROVE Kept
    BY DEF vars
  <2> USE DEF InSlot
  <2>1. CASE Aside
    BY <2>1, AsideFrame
  <2>2. CASE Start
    BY <2>2 DEF Start
  <2>3. CASE RadioSignal
    BY <2>3 DEF RadioSignal, mpslVars
  <2>4. CASE Timer0 \/ ExtendSucceeded \/ ExtendFailed
    BY <2>4, SlotEndCases, EndHint
  <2>5. CASE Overstayed
    BY <2>5 DEF Overstayed
  <2> QED
    BY <2>1, <2>2, <2>3, <2>4, <2>5, Steps
<1> QED
  BY <1>1, <1>2, HintStep, PTL DEF Spec, HintIsKept
-----------------------------------------------------------------------------
(* The radio and the buffers outside the slots                             *)

\* The missing index is no buffer.
LEMMA NoIdxFacts == NoIdx \notin Buf /\ NoIdx \in Opt /\ Fallback = NoIdx
BY NAssumption DEF NoIdx, Buf, Opt, Fallback

RadioType ==
  [mode : {"off", "rx", "tx"}, ptr : Opt, txen : BOOLEAN, rxen : BOOLEAN,
   disabled : BOOLEAN, inten : BOOLEAN, crcok : BOOLEAN, rxmatch : Pipes,
   txaddress : Pipes]

\* The radio after a power cycle is well typed.
LEMMA ResetType == RadioReset \in RadioType
<1>1. (CHOOSE p \in Pipes : TRUE) \in Pipes
  BY PrxAssumption
<1> QED
  BY <1>1, NoIdxFacts DEF RadioReset, RadioType

\* The registers that an operation sets before the radio ramps up
LEMMA RegisterType ==
  ASSUME NEW r \in RadioType, NEW i \in Opt, NEW p \in Pipes
  PROVE  /\ Ramp(r, "rx") \in RadioType /\ Ramp(r, "tx") \in RadioType
         /\ Stop(r) \in RadioType
         /\ [r EXCEPT !.disabled = FALSE] \in RadioType
<1>1. Ramp(r, "rx") \in RadioType /\ Ramp(r, "tx") \in RadioType
  BY DEF Ramp, RadioType
<1>2. Stop(r) \in RadioType
  BY DEF Stop, RadioType
<1>3. [r EXCEPT !.disabled = FALSE] \in RadioType
  BY DEF RadioType
<1> QED
  BY <1>1, <1>2, <1>3

\* Every register sequence on RADIO leaves a well-typed radio, with the manual
\* turnaround and with the shortcuts'.
LEMMA RadioOpsType ==
  ASSUME NEW r \in RadioType, NEW i \in Opt, NEW p \in Pipes
  PROVE  /\ StartReceiving(r, i) \in RadioType
         /\ StartReceivingManualAck(r, i) \in RadioType
         /\ TransmitAckManual(r, p, i) \in RadioType
         /\ RestartBadCrc(r) \in RadioType
         /\ ArmRx(r, i) \in RadioType /\ RestartRxNoAck(r, i) \in RadioType
         /\ RestartRxAfterAck(r, i) \in RadioType /\ TransmitAck(r, p, i) \in RadioType
<1>1. \A x \in RadioType : /\ StartReceivingManualAck(x, i) \in RadioType
                           /\ CompleteRxNoAck(x, i) \in RadioType
  <2> TAKE x \in RadioType
  <2>1. [x EXCEPT !.txen = FALSE, !.rxen = FALSE, !.inten = TRUE, !.ptr = i,
                  !.disabled = FALSE] \in RadioType
    BY DEF RadioType
  <2>2. [x EXCEPT !.ptr = i, !.txen = TRUE, !.inten = TRUE] \in RadioType
    BY DEF RadioType
  <2> QED
    BY <2>1, <2>2, RegisterType DEF StartReceivingManualAck, CompleteRxNoAck
<1>2. StartReceiving(r, i) \in RadioType
  <2>1. [r EXCEPT !.txen = TRUE, !.inten = TRUE, !.ptr = i, !.disabled = FALSE]
          \in RadioType
    BY DEF RadioType
  <2> QED
    BY <2>1, RegisterType DEF StartReceiving
<1>3. TransmitAckManual(r, p, i) \in RadioType
  <2>1. [r EXCEPT !.txaddress = p, !.txen = FALSE, !.rxen = FALSE, !.inten = TRUE,
                  !.ptr = i, !.disabled = FALSE] \in RadioType
    BY DEF RadioType
  <2> QED
    BY <2>1, RegisterType DEF TransmitAckManual
<1>4. RestartBadCrc(r) \in RadioType
  <2>1. [Stop(r) EXCEPT !.txen = TRUE, !.inten = TRUE] \in RadioType
    BY RegisterType DEF RadioType
  <2> QED
    BY <2>1, RegisterType DEF RestartBadCrc
<1>5. SetupAckTx(r, p, i) \in RadioType /\ CompleteRxAck(r, i) \in RadioType
  BY DEF SetupAckTx, CompleteRxAck, RadioType
<1>6. Stop(r) \in RadioType
  BY RegisterType
<1> QED
  BY <1>1, <1>2, <1>3, <1>4, <1>5, <1>6
  DEF ArmRx, RestartRxNoAck, RestartRxAfterAck, TransmitAck

\* What the engines work on, in every state
EngineType ==
  /\ pool \in [Buf -> BufState]
  /\ rx_idx \in Opt /\ pending_rx_idx \in Opt /\ ack_tx_idx \in Opt
  /\ rf \in RadioType

\* The DMA buffers are those the state machine holds an index of, and each state
\* holds no index but its own.
HoldsDma ==
  /\ state # "Receiver" => rx_idx = NoIdx
  /\ state # "TxAck" => pending_rx_idx = NoIdx /\ ack_tx_idx = NoIdx
  /\ InState(pool, "in_dma") \subseteq {rx_idx, pending_rx_idx, ack_tx_idx}

\* A store to one buffer, and what it does to the set of DMA buffers
LEMMA StoreDma ==
  ASSUME NEW p \in [Buf -> BufState], NEW i \in Opt
  PROVE  /\ Release(p, i) \in [Buf -> BufState]
         /\ InState(Release(p, i), "in_dma") = InState(p, "in_dma") \ {i}
         /\ RxComplete(p, i) \in [Buf -> BufState]
         /\ InState(RxComplete(p, i), "in_dma") = InState(p, "in_dma") \ {i}
         /\ ToDma(p, i) \in [Buf -> BufState]
         /\ InState(ToDma(p, i), "in_dma") \subseteq InState(p, "in_dma") \cup {i}
<1>1. /\ Release(p, i) \in [Buf -> BufState] /\ RxComplete(p, i) \in [Buf -> BufState]
      /\ ToDma(p, i) \in [Buf -> BufState]
  BY PoolOpsType
<1>2. \A j \in Buf : /\ Release(p, i)[j] = IF j = i THEN "free" ELSE p[j]
                     /\ RxComplete(p, i)[j] = IF j = i THEN "rx_queued" ELSE p[j]
                     /\ ToDma(p, i)[j] = IF j = i THEN "in_dma" ELSE p[j]
  BY DEF Release, RxComplete, ToDma, Store
<1> QED
  BY <1>1, <1>2 DEF InState

\* alloc_dma_buffer returns a buffer, or none; it adds no DMA buffer but that.
LEMMA AllocDma ==
  ASSUME NEW p \in [Buf -> BufState], AllocDmaBuffer(p)
  PROVE  /\ pool' \in [Buf -> BufState] /\ rx_idx' \in Opt
         /\ InState(pool', "in_dma") \subseteq InState(p, "in_dma") \cup {rx_idx'}
<1>1. CASE \E i \in RxToDmaChoice(p) : pool' = ToDma(p, i) /\ rx_idx' = i
  <2>1. PICK i \in RxToDmaChoice(p) : pool' = ToDma(p, i) /\ rx_idx' = i
    BY <1>1
  <2>2. i \in Opt
    BY ChoiceType DEF Opt
  <2> QED
    BY <2>1, <2>2, StoreDma
<1>2. CASE RxToDmaChoice(p) = {} /\ pool' = p /\ rx_idx' = NoIdx
  BY <1>2, NoIdxFacts
<1> QED
  BY <1>1, <1>2 DEF AllocDmaBuffer

\* The radio as the handler finds it, its event cleared
LEMMA SeenType ==
  ASSUME EngineType
  PROVE  Seen \in RadioType /\ Stop(Seen) \in RadioType /\ rf.rxmatch \in Pipes
<1>1. rf.rxmatch \in Pipes
  BY DEF EngineType, RadioType
<1>2. Seen \in RadioType
  BY <1>1, NoIdxFacts, RegisterType DEF Seen, EngineType
<1> QED
  BY <1>1, <1>2, NoIdxFacts, RegisterType

\* The branches of the handler that end in Receiver or Idle with an allocation:
\* the indices it lets go of are of buffers that p has outside DMA.
LEMMA AgainDma ==
  ASSUME NEW p \in [Buf -> BufState], EngineType, ReceiveAfterAck(p),
         pending_rx_idx' \in Opt
  PROVE  /\ EngineType'
         /\ pending_rx_idx' = NoIdx /\ InState(p, "in_dma") \subseteq {ack_tx_idx}
              => HoldsDma'
<1>1. Release(p, ack_tx_idx) \in [Buf -> BufState]
  BY StoreDma DEF EngineType
<1>2. /\ AllocDmaBuffer(Release(p, ack_tx_idx)) /\ ack_tx_idx' = NoIdx
      /\ rx_idx' # NoIdx => rf' = RestartRxAfterAck(Seen, rx_idx') /\ state' = "Receiver"
      /\ rx_idx' = NoIdx => rf' = Stop(Seen) /\ state' = "Idle"
  BY DEF ReceiveAfterAck
<1>3. /\ pool' \in [Buf -> BufState] /\ rx_idx' \in Opt
      /\ InState(pool', "in_dma")
           \subseteq InState(Release(p, ack_tx_idx), "in_dma") \cup {rx_idx'}
  BY <1>1, <1>2, AllocDma
<1>4. rf' \in RadioType
  BY <1>2, <1>3, SeenType, RadioOpsType
<1>5. EngineType'
  BY <1>2, <1>3, <1>4, NoIdxFacts DEF EngineType
<1>6. ASSUME pending_rx_idx' = NoIdx, InState(p, "in_dma") \subseteq {ack_tx_idx}
      PROVE  HoldsDma'
  <2>1. InState(Release(p, ack_tx_idx), "in_dma") = {}
    BY <1>6, StoreDma DEF EngineType
  <2> QED
    BY <1>2, <1>3, <1>6, <2>1 DEF HoldsDma
<1> QED
  BY <1>5, <1>6

\* One run of the handler, whatever the turnaround
LEMMA HandlerDma ==
  ASSUME EngineType, HandleRadioEvent
  PROVE  EngineType' /\ (HoldsDma => HoldsDma')
<1>0. /\ Seen \in RadioType /\ Stop(Seen) \in RadioType /\ rf.rxmatch \in Pipes
      /\ NoIdx \in Opt
  BY SeenType, NoIdxFacts
<1>1. CASE IgnoreUserEvent
  BY <1>1 DEF IgnoreUserEvent, EngineType, HoldsDma, poolVars, smVars
<1>2. CASE OnBadCrc
  <2>1. rf' \in RadioType
    BY <1>0, <1>2, RadioOpsType DEF OnBadCrc
  <2> QED
    BY <1>2, <2>1 DEF OnBadCrc, EngineType, HoldsDma, poolVars, smVars
<1>3. CASE OnDuplicateNoAck
  <2>1. UNCHANGED <<state, pending_rx_idx, ack_tx_idx>> /\ state = "Receiver"
    BY <1>3 DEF OnDuplicateNoAck, Packet
  <2>2. CASE \E i \in RxToDmaChoice(pool) :
               /\ pool' = Release(ToDma(pool, i), rx_idx) /\ rx_idx' = i
               /\ rf' = RestartRxNoAck(Seen, i)
    <3>1. PICK i \in RxToDmaChoice(pool) :
               /\ pool' = Release(ToDma(pool, i), rx_idx) /\ rx_idx' = i
               /\ rf' = RestartRxNoAck(Seen, i)
      BY <2>2
    <3>2. i \in Opt
      BY ChoiceType DEF Opt, EngineType
    <3>3. /\ pool' \in [Buf -> BufState] /\ rf' \in RadioType
          /\ InState(pool', "in_dma") \subseteq (InState(pool, "in_dma") \cup {i}) \ {rx_idx}
      <4>1. /\ ToDma(pool, i) \in [Buf -> BufState]
            /\ InState(ToDma(pool, i), "in_dma") \subseteq InState(pool, "in_dma") \cup {i}
        BY <3>2, StoreDma DEF EngineType
      <4>2. /\ pool' \in [Buf -> BufState]
            /\ InState(pool', "in_dma") = InState(ToDma(pool, i), "in_dma") \ {rx_idx}
        BY <3>1, <4>1, StoreDma DEF EngineType
      <4>3. rf' \in RadioType
        BY <1>0, <3>1, <3>2, RadioOpsType
      <4> QED
        BY <4>1, <4>2, <4>3
    <3> QED
      BY <2>1, <3>1, <3>2, <3>3 DEF EngineType, HoldsDma
  <2>3. CASE rf' = RestartRxNoAck(Seen, rx_idx) /\ UNCHANGED <<pool, rx_idx>>
    <3>1. rf' \in RadioType
      BY <1>0, <2>3, RadioOpsType DEF EngineType
    <3> QED
      BY <2>1, <2>3, <3>1 DEF EngineType, HoldsDma
  <2> QED
    BY <1>3, <2>2, <2>3 DEF OnDuplicateNoAck
<1>4. CASE OnDuplicate
  <2>1. /\ pool' = Release(pool, rx_idx) /\ rx_idx' = NoIdx
        /\ rf' = TransmitAck(Seen, rf.rxmatch, Fallback)
        /\ state = "Receiver" /\ state' = "TxRepeatedAck"
        /\ UNCHANGED <<pending_rx_idx, ack_tx_idx>>
    BY <1>4 DEF OnDuplicate, Packet
  <2>2. rf' \in RadioType
    BY <1>0, <2>1, NoIdxFacts, RadioOpsType
  <2> QED
    BY <1>0, <2>1, <2>2, StoreDma DEF EngineType, HoldsDma
<1>5. CASE OnNewNoAck
  <2>1. /\ AllocDmaBuffer(RxComplete(pool, rx_idx)) /\ state = "Receiver"
        /\ UNCHANGED <<pending_rx_idx, ack_tx_idx>>
        /\ rx_idx' # NoIdx => rf' = RestartRxNoAck(Seen, rx_idx') /\ UNCHANGED state
        /\ rx_idx' = NoIdx => rf' = Stop(Seen) /\ state' = "Idle"
    BY <1>5 DEF OnNewNoAck, Packet
  <2>2. /\ pool' \in [Buf -> BufState] /\ rx_idx' \in Opt
        /\ InState(pool', "in_dma")
             \subseteq (InState(pool, "in_dma") \ {rx_idx}) \cup {rx_idx'}
    BY <2>1, StoreDma, AllocDma DEF EngineType
  <2>3. rf' \in RadioType
    BY <1>0, <2>1, <2>2, RadioOpsType
  <2> QED
    BY <2>1, <2>2, <2>3 DEF EngineType, HoldsDma
<1>6. CASE OnNew
  <2>1. /\ pending_rx_idx' = rx_idx /\ rx_idx' = NoIdx /\ state' = "TxAck"
        /\ state = "Receiver"
    BY <1>6 DEF OnNew, Packet
  <2>2. CASE \E i \in DequeueForPipeChoice(rf.rxmatch) :
               /\ pool' = ToDma(pool, i) /\ ack_tx_idx' = i
               /\ rf' = TransmitAck(Seen, rf.rxmatch, i)
    <3>1. PICK i \in DequeueForPipeChoice(rf.rxmatch) :
               /\ pool' = ToDma(pool, i) /\ ack_tx_idx' = i
               /\ rf' = TransmitAck(Seen, rf.rxmatch, i)
      BY <2>2
    <3>2. i \in Opt
      BY DEF DequeueForPipeChoice, Lowest, InState, Opt
    <3>3. /\ pool' \in [Buf -> BufState] /\ rf' \in RadioType
          /\ InState(pool', "in_dma") \subseteq InState(pool, "in_dma") \cup {i}
      BY <1>0, <3>1, <3>2, StoreDma, RadioOpsType DEF EngineType
    <3> QED
      BY <1>0, <2>1, <3>1, <3>2, <3>3 DEF EngineType, HoldsDma
  <2>3. CASE /\ ack_tx_idx' = NoIdx /\ rf' = TransmitAck(Seen, rf.rxmatch, Fallback)
             /\ UNCHANGED pool
    <3>1. rf' \in RadioType
      BY <1>0, <2>3, NoIdxFacts, RadioOpsType
    <3> QED
      BY <1>0, <2>1, <2>3, <3>1 DEF EngineType, HoldsDma
  <2> QED
    BY <1>6, <2>2, <2>3 DEF OnNew
<1>7. CASE OnAckSent
  <2>1. state = "TxAck" /\ pending_rx_idx' = NoIdx
    BY <1>7 DEF OnAckSent
  <2>2. CASE pending_rx_idx # NoIdx
    <3>1. ReceiveAfterAck(RxComplete(pool, pending_rx_idx))
      BY <1>7, <2>2 DEF OnAckSent
    <3>2. RxComplete(pool, pending_rx_idx) \in [Buf -> BufState]
      BY StoreDma DEF EngineType
    <3>3. InState(RxComplete(pool, pending_rx_idx), "in_dma")
            = InState(pool, "in_dma") \ {pending_rx_idx}
      BY StoreDma DEF EngineType
    <3>4. HoldsDma => InState(pool, "in_dma") \ {pending_rx_idx} \subseteq {ack_tx_idx}
      <4>1. NoIdx \notin InState(pool, "in_dma")
        BY NoIdxFacts DEF InState
      <4> QED
        BY <2>1, <4>1 DEF HoldsDma
    <3> QED
      BY <1>0, <2>1, <3>1, <3>2, <3>3, <3>4, AgainDma
  <2>3. CASE pending_rx_idx = NoIdx
    <3>1. ReceiveAfterAck(pool)
      BY <1>7, <2>3 DEF OnAckSent
    <3>2. NoIdx \notin InState(pool, "in_dma")
      BY NoIdxFacts DEF InState
    <3>3. HoldsDma => InState(pool, "in_dma") \subseteq {ack_tx_idx}
      BY <2>1, <2>3, <3>2 DEF HoldsDma
    <3> QED
      BY <1>0, <2>1, <3>1, <3>3, AgainDma DEF EngineType
  <2> QED
    BY <2>2, <2>3
<1>8. CASE OnRepeatedAckSent
  <2>1. ReceiveAfterAck(pool) /\ state = "TxRepeatedAck" /\ UNCHANGED pending_rx_idx
    BY <1>8 DEF OnRepeatedAckSent
  <2>2. NoIdx \notin InState(pool, "in_dma")
    BY NoIdxFacts DEF InState
  <2>3. HoldsDma => pending_rx_idx' = NoIdx /\ InState(pool, "in_dma") \subseteq {ack_tx_idx}
    BY <2>1, <2>2 DEF HoldsDma
  <2> QED
    BY <2>1, <2>3, AgainDma DEF EngineType
<1>9. CASE OnIdle
  <2>1. /\ AllocDmaBuffer(pool) /\ state = "Idle"
        /\ UNCHANGED <<pending_rx_idx, ack_tx_idx>>
        /\ rx_idx' # NoIdx => rf' = ArmRx(rf, rx_idx') /\ state' = "Receiver"
        /\ rx_idx' = NoIdx => UNCHANGED <<rf, state>>
    BY <1>9 DEF OnIdle, StartListening
  <2>2. /\ pool' \in [Buf -> BufState] /\ rx_idx' \in Opt
        /\ InState(pool', "in_dma") \subseteq InState(pool, "in_dma") \cup {rx_idx'}
    BY <2>1, AllocDma DEF EngineType
  <2>3. rf' \in RadioType
    BY <1>0, <2>1, <2>2, RadioOpsType DEF EngineType
  <2> QED
    BY <2>1, <2>2, <2>3 DEF EngineType, HoldsDma
<1> QED
  BY <1>1, <1>2, <1>3, <1>4, <1>5, <1>6, <1>7, <1>8, <1>9 DEF HandleRadioEvent

\* The engine that the slot is not of, and every engine outside the slots, is
\* idle and holds no buffer; the radio is silent outside the slots.  A dropped
\* session breaks the first for good, an overstayed slot the second until the
\* next slot begins.
SilentInv ==
  ~InSlot => /\ ~active /\ ~slot_active
             /\ (rf.mode = "off" /\ ~RadioLine) \/ "overstayed" \in lapses

IdleInv ==
  "drop" \notin lapses =>
    /\ HoldsDma
    /\ (InSlot /\ driver) \/ state = "Idle"

QuietInv == EngineType /\ SilentInv /\ IdleInv

\* What the invariant says follows from its parts.
LEMMA QuietFollows == QuietInv => QuietOutsideSlot
<1> SUFFICES ASSUME QuietInv, ~InSlot PROVE QuietOutsideSlot
  BY DEF QuietOutsideSlot
<1>1. NoIdx \notin InState(pool, "in_dma")
  BY NoIdxFacts DEF InState
<1>2. "drop" \in lapses \/ (state = "Idle" /\ InState(pool, "in_dma") = {})
  BY <1>1 DEF QuietInv, IdleInv, HoldsDma
<1> QED
  BY <1>2 DEF QuietInv, SilentInv, QuietOutsideSlot

\* A forced stop lets go of every buffer, and leaves the radio as it is told.
LEMMA StopEngineQuiet ==
  ASSUME EngineType, NEW r \in RadioType, StopEngine(r)
  PROVE  /\ EngineType' /\ rf' = r
         /\ HoldsDma /\ (driver \/ state = "Idle") => HoldsDma' /\ state' = "Idle"
<1>1. CASE driver
  <2>1. /\ pool' = Release(Release(Release(pool, rx_idx), pending_rx_idx), ack_tx_idx)
        /\ rx_idx' = NoIdx /\ pending_rx_idx' = NoIdx /\ ack_tx_idx' = NoIdx
        /\ state' = "Idle" /\ timeslot_managed' = FALSE /\ rf' = r
    BY <1>1 DEF StopEngine
  <2> DEFINE p1 == Release(pool, rx_idx)
             p2 == Release(p1, pending_rx_idx)
  <2>2. /\ p1 \in [Buf -> BufState]
        /\ InState(p1, "in_dma") = InState(pool, "in_dma") \ {rx_idx}
    BY StoreDma DEF EngineType
  <2>3. /\ p2 \in [Buf -> BufState]
        /\ InState(p2, "in_dma") = InState(p1, "in_dma") \ {pending_rx_idx}
    BY <2>2, StoreDma DEF EngineType
  <2>4. /\ pool' \in [Buf -> BufState]
        /\ InState(pool', "in_dma") = InState(p2, "in_dma") \ {ack_tx_idx}
    BY <2>1, <2>3, StoreDma DEF EngineType
  <2> QED
    BY <2>1, <2>2, <2>3, <2>4, NoIdxFacts DEF EngineType, HoldsDma
<1>2. CASE ~driver
  BY <1>2 DEF StopEngine, EngineType, HoldsDma, poolVars, smVars
<1> QED
  BY <1>1, <1>2

\* Each way to end a slot at its time hands back a silent radio and an idle engine.
LEMMA EndQuiet ==
  ASSUME QuietInv, InSlot, EndOfSlot
  PROVE  QuietInv'
<1>1. /\ ~slot_active' /\ ~active' /\ StopEngine(RadioReset)
      /\ Finalize /\ UNCHANGED driver
  BY DEF EndOfSlot, Inactive, Quiesced
<1>2. lapses' = lapses \/ lapses' = lapses \cup {"fast_distance"}
  BY <1>1 DEF Finalize
<1>3. EngineType' /\ rf' = RadioReset
  BY <1>1, ResetType, StopEngineQuiet DEF QuietInv
<1>4. "drop" \notin lapses' => HoldsDma' /\ state' = "Idle"
  BY <1>1, <1>2, ResetType, StopEngineQuiet DEF QuietInv, IdleInv
<1> QED
  BY <1>1, <1>3, <1>4 DEF QuietInv, SilentInv, IdleInv, RadioReset, RadioLine

\* The slot starts with all buffers in hand: the state machine allocates one.
LEMMA StartQuiet ==
  ASSUME QuietInv, Start
  PROVE  QuietInv'
<1>1. InSlot' /\ ~InSlot /\ UNCHANGED driver
  BY DEF Start, InSlot
<1>2. "drop" \notin lapses' => "drop" \notin lapses
  BY DEF Start
<1>3. CASE driver
  <2>1. TsStartRx
    BY <1>3 DEF Start
  <2>2. EngineType' /\ (HoldsDma /\ state = "Idle" => HoldsDma')
    <3>1. UNCHANGED <<pending_rx_idx, ack_tx_idx>>
      BY <2>1 DEF TsStartRx
    <3>2. CASE \E i \in RxToDmaChoice(pool) :
                 /\ pool' = ToDma(pool, i) /\ rx_idx' = i /\ state' = "Receiver"
                 /\ rf' = StartReceivingManualAck(RadioReset, i)
      <4>1. PICK i \in RxToDmaChoice(pool) :
                 /\ pool' = ToDma(pool, i) /\ rx_idx' = i /\ state' = "Receiver"
                 /\ rf' = StartReceivingManualAck(RadioReset, i)
        BY <3>2
      <4>2. i \in Opt
        BY ChoiceType DEF Opt, QuietInv, EngineType
      <4>3. PICK p \in Pipes : TRUE
        BY PrxAssumption
      <4>4. rf' \in RadioType
        BY <4>1, <4>2, <4>3, ResetType, RadioOpsType
      <4>5. /\ pool' \in [Buf -> BufState]
            /\ InState(pool', "in_dma") \subseteq InState(pool, "in_dma") \cup {i}
        BY <4>1, <4>2, StoreDma DEF QuietInv, EngineType
      <4> QED
        BY <3>1, <4>1, <4>2, <4>4, <4>5 DEF QuietInv, EngineType, HoldsDma
    <3>3. CASE state' = "Idle" /\ rf' = RadioReset /\ UNCHANGED <<pool, rx_idx>>
      BY <3>1, <3>3, ResetType DEF QuietInv, EngineType, HoldsDma
    <3> QED
      BY <2>1, <3>2, <3>3 DEF TsStartRx
  <2>3. driver' /\ SilentInv'
    BY <1>1, <1>3 DEF SilentInv
  <2>4. "drop" \notin lapses' => HoldsDma'
    BY <1>1, <1>2, <2>2 DEF QuietInv, IdleInv
  <2> QED
    BY <1>1, <2>2, <2>3, <2>4 DEF QuietInv, IdleInv
<1>4. CASE ~driver
  <2>1. LegacyStart
    BY <1>4 DEF Start
  <2>2. PICK p \in Pipes : TRUE
    BY PrxAssumption
  <2>3. rf' \in RadioType
    BY <2>1, <2>2, ResetType, RadioOpsType, NoIdxFacts DEF LegacyStart
  <2> QED
    BY <1>1, <1>2, <1>4, <2>1, <2>3
    DEF LegacyStart, QuietInv, EngineType, SilentInv, IdleInv, HoldsDma, poolVars, smVars
<1> QED
  BY <1>3, <1>4

\* A radio event is one of the engine that the slot is of.
LEMMA RadioQuiet ==
  ASSUME QuietInv, RadioSignal
  PROVE  QuietInv'
<1>1. InSlot /\ InSlot' /\ UNCHANGED driver /\ ("drop" \in lapses => "drop" \in lapses')
  <2>1. CASE ConvergedRadio
    BY <2>1 DEF ConvergedRadio, RadioSignal, InSlot, mpslVars
  <2>2. CASE LegacyRadio
    BY <2>2 DEF LegacyRadio, LegacyBadCrc, LegacyDup, LegacyNew, LegacyAckSent, LegacyIgnored,
         LegacyAck, RadioSignal, InSlot, mpslVars
  <2> QED
    BY <2>1, <2>2 DEF RadioSignal, InSlot, mpslVars
<1>2. CASE ConvergedRadio
  <2>1. CASE state = "Idle"
    BY <1>1, <1>2, <2>1 DEF ConvergedRadio, TsOnRadio, prxVars, poolVars, smVars,
         QuietInv, EngineType, SilentInv, IdleInv, HoldsDma
  <2>2. CASE state # "Idle"
    <3>1. HandleRadioEvent /\ driver
      BY <1>2, <2>2 DEF ConvergedRadio, TsOnRadio
    <3>2. EngineType' /\ (HoldsDma => HoldsDma')
      BY <3>1, HandlerDma DEF QuietInv
    <3>3. driver' /\ SilentInv'
      BY <1>1, <3>1 DEF SilentInv
    <3>4. "drop" \notin lapses' => HoldsDma'
      BY <1>1, <3>2 DEF QuietInv, IdleInv
    <3> QED
      BY <1>1, <3>2, <3>3, <3>4 DEF QuietInv, IdleInv
  <2> QED
    BY <2>1, <2>2
<1>3. CASE LegacyRadio
  <2>0. /\ Seen \in RadioType /\ Stop(Seen) \in RadioType /\ rf.rxmatch \in Pipes
        /\ NoIdx \in Opt /\ rf \in RadioType
    BY SeenType, NoIdxFacts DEF QuietInv, EngineType
  <2>1. rf' \in RadioType
    <3>1. /\ LegacyRestartRx(Stop(Seen)) \in RadioType /\ LegacyRestartRx(Seen) \in RadioType
          /\ TransmitAckManual(Seen, rf.rxmatch, NoIdx) \in RadioType
      BY <2>0, RadioOpsType DEF LegacyRestartRx
    <3> QED
      BY <1>3, <2>0, <3>1 DEF LegacyRadio, LegacyBadCrc, LegacyDup, LegacyNew, LegacyAckSent,
           LegacyIgnored, LegacyAck
  <2>2. UNCHANGED <<poolVars, smVars>>
    BY <1>3 DEF LegacyRadio
  <2> QED
    BY <1>1, <2>1, <2>2
    DEF poolVars, smVars, QuietInv, EngineType, SilentInv, IdleInv, HoldsDma
<1> QED
  BY <1>2, <1>3 DEF RadioSignal

\* An overstayed slot and an invalid request, which only finds an idle engine
LEMMA StoppedQuiet ==
  ASSUME QuietInv, Overstayed \/ InvalidReturn
  PROVE  QuietInv'
<1> DEFINE r == IF driver THEN Stop(rf) ELSE rf
<1>1. r \in RadioType
  <2>1. PICK p \in Pipes : TRUE
    BY PrxAssumption
  <2> QED
    BY <2>1, RegisterType, NoIdxFacts DEF QuietInv, EngineType
<1>2. /\ StopEngine(r) /\ ~slot_active' /\ ~active' /\ ~InSlot' /\ lapses \subseteq lapses'
      /\ UNCHANGED driver /\ "drop" \notin lapses' => "drop" \notin lapses
  BY DEF Overstayed, InvalidReturn, InSlot
<1>3. /\ EngineType' /\ rf' = r
      /\ "drop" \notin lapses' => HoldsDma' /\ state' = "Idle"
  <2> HIDE DEF r
  <2> QED
    BY <1>1, <1>2, StopEngineQuiet DEF QuietInv, IdleInv
<1>4. (rf'.mode = "off" /\ ~RadioLine') \/ "overstayed" \in lapses'
  <2>1. CASE Overstayed
    BY <2>1 DEF Overstayed
  <2>2. CASE InvalidReturn
    <3>1. (rf.mode = "off" /\ ~RadioLine) \/ "overstayed" \in lapses
      BY <2>2 DEF InvalidReturn, InSlot, QuietInv, SilentInv
    <3>2. Stop(rf).mode = "off" /\ ~(Stop(rf).disabled /\ Stop(rf).inten)
      BY DEF Stop, QuietInv, EngineType, RadioType
    <3> QED
      BY <1>2, <1>3, <3>1, <3>2 DEF RadioLine
  <2> QED
    BY <2>1, <2>2
<1> QED
  BY <1>2, <1>3, <1>4 DEF QuietInv, SilentInv, IdleInv

\* The other signals, and the task: a session is dropped in its slot only with a
\* lapse, and a driver it gets in a slot allows its state machine more.
LEMMA TaskQuiet ==
  ASSUME QuietInv, Blocked \/ SessionIdle \/ SessionClosed \/ Task
  PROVE  QuietInv'
<1>1. UNCHANGED prxVars
  <2>1. CASE Blocked \/ SessionIdle \/ SessionClosed
    BY <2>1 DEF Blocked, SessionIdle, SessionClosed
  <2>2. CASE Task
    BY <2>2 DEF Task, OpenSession, RunPrxSlots, StartTimeslotPrx, ResetRuntime, SetPrxDriver,
         RequestWindow, DropSession, RunReturns, DropRun, CloseRun
  <2> QED
    BY <2>1, <2>2
<1>2. EngineType' /\ (HoldsDma => HoldsDma') /\ UNCHANGED <<rf, state, timeslot_managed>>
  BY <1>1 DEF QuietInv, EngineType, HoldsDma, prxVars, poolVars, smVars
<1>3. /\ InSlot' <=> InSlot
      /\ ~InSlot => (~active' \/ active' = active) /\ (~slot_active' \/ slot_active' = slot_active)
      /\ "overstayed" \in lapses => "overstayed" \in lapses'
      /\ "drop" \in lapses => "drop" \in lapses'
      /\ InSlot /\ driver /\ ~driver' => "drop" \in lapses'
  <2>1. CASE Blocked
    BY <2>1 DEF Blocked, InSlot
  <2>2. CASE SessionIdle
    BY <2>2 DEF SessionIdle, InSlot
  <2>3. CASE SessionClosed
    BY <2>3 DEF SessionClosed, InSlot
  <2>4. CASE (\E m \in Modes : OpenSession(m)) \/ RunPrxSlots \/ StartTimeslotPrx
    BY <2>4 DEF OpenSession, RunPrxSlots, StartTimeslotPrx, ResetRuntime, FirstRequest, InSlot
  <2>5. CASE SetPrxDriver
    BY <2>5 DEF SetPrxDriver, InSlot, mpslVars, slotVars
  <2>6. CASE RequestWindow
    BY <2>6 DEF RequestWindow, InSlot
  <2>7. CASE DropSession
    BY <2>7 DEF DropSession, InSlot
  <2>8. CASE RunReturns \/ DropRun
    BY <2>8 DEF RunReturns, DropRun, CloseRun, InSlot, slotVars
  <2> QED
    BY <2>1, <2>2, <2>3, <2>4, <2>5, <2>6, <2>7, <2>8 DEF Task
<1>4. SilentInv'
  BY <1>2, <1>3 DEF QuietInv, SilentInv, RadioLine
<1>5. IdleInv'
  BY <1>2, <1>3 DEF QuietInv, IdleInv
<1> QED
  BY <1>2, <1>4, <1>5 DEF QuietInv

\* A radio that is off hears nothing, and one at work works in its slot only.
LEMMA AirQuiet ==
  ASSUME QuietInv, Air
  PROVE  QuietInv'
<1>1. /\ UNCHANGED <<poolVars, smVars, mpsl, driver, slot_active, active, lapses>>
      /\ ~RadioLine
  BY DEF Air, TimeslotReceive, Miss, AckSent, mpslVars, slotVars
<1>2. /\ rf' \in RadioType
      /\ rf' = rf \/ rf.mode # "off"
  <2>0. rf \in RadioType
    BY DEF QuietInv, EngineType
  <2>1. CASE \E p \in Pipes : TimeslotReceive(p)
    <3>1. PICK p \in Pipes, ok \in BOOLEAN :
            /\ rf.mode = "rx"
            /\ rf' = [rf EXCEPT !.mode = IF rf.txen THEN "tx" ELSE "off", !.disabled = TRUE,
                                !.crcok = ok, !.rxmatch = p]
      BY <2>1 DEF TimeslotReceive
    <3> QED
      BY <2>0, <3>1 DEF RadioType
  <2>2. CASE \E p \in Pipes : Miss(p)
    BY <2>0, <2>2 DEF Miss
  <2>3. CASE AckSent
    BY <2>0, <2>3 DEF AckSent, RadioType
  <2> QED
    BY <2>1, <2>2, <2>3 DEF Air
<1>3. EngineType' /\ (HoldsDma => HoldsDma')
  BY <1>1, <1>2 DEF QuietInv, EngineType, HoldsDma, poolVars, smVars
<1>4. SilentInv'
  BY <1>1, <1>2 DEF QuietInv, SilentInv, InSlot, RadioLine
<1>5. IdleInv'
  BY <1>1, <1>3 DEF QuietInv, IdleInv, InSlot, smVars
<1> QED
  BY <1>3, <1>4, <1>5 DEF QuietInv

\* QuietInv is inductive.
LEMMA QuietStep == QuietInv /\ [Next]_vars => QuietInv'
<1> SUFFICES ASSUME QuietInv, [Next]_vars PROVE QuietInv'
  OBVIOUS
<1>1. CASE TsDiscardReceived
  <2>1. /\ UNCHANGED <<smVars, rf, mpsl, driver, slot_active, active, lapses>>
        /\ pool' = [i \in Buf |-> IF \E k \in DOMAIN rx_queue : rx_queue[k] = i
                                  THEN "free" ELSE pool[i]]
    BY <1>1 DEF TsDiscardReceived, mpslVars, slotVars
  <2>2. pool' \in [Buf -> BufState] /\ InState(pool', "in_dma") \subseteq InState(pool, "in_dma")
    BY <2>1 DEF QuietInv, EngineType, InState, BufState
  <2> QED
    BY <2>1, <2>2 DEF QuietInv, EngineType, SilentInv, IdleInv, HoldsDma, InSlot, RadioLine,
         smVars
<1>2. CASE Blocked \/ SessionIdle \/ SessionClosed \/ Task
  BY <1>2, TaskQuiet
<1>3. CASE InvalidReturn \/ Overstayed
  BY <1>3, StoppedQuiet
<1>4. CASE Air
  BY <1>4, AirQuiet
<1>5. CASE Start
  BY <1>5, StartQuiet
<1>6. CASE RadioSignal
  BY <1>6, RadioQuiet
<1>7. CASE Timer0 \/ ExtendSucceeded \/ ExtendFailed
  <2>1. CASE InSlot /\ EndOfSlot
    BY <2>1, EndQuiet
  <2>2. CASE InSlot /\ InSlot' /\ UNCHANGED <<prxVars, driver, lapses>>
    BY <2>2 DEF QuietInv, EngineType, SilentInv, IdleInv, HoldsDma, prxVars, poolVars, smVars
  <2> QED
    BY <1>7, <2>1, <2>2, SlotEndCases
<1>8. CASE UNCHANGED vars
  BY <1>8 DEF vars, prxVars, poolVars, smVars, mpslVars, slotVars, QuietInv, EngineType,
       SilentInv, IdleInv, HoldsDma, InSlot, RadioLine
<1> QED
  BY <1>1, <1>2, <1>3, <1>4, <1>5, <1>6, <1>7, <1>8, Steps DEF Aside

\* The inductive invariant behind QuietOutsideSlot.
THEOREM TimeslotPrxQuietInvariant == Spec => []QuietInv
<1>1. TimeslotPrxInit => QuietInv
  <2> SUFFICES ASSUME TimeslotPrxInit PROVE QuietInv
    OBVIOUS
  <2>1. /\ pool = [i \in Buf |-> "free"] /\ rf = RadioReset /\ state = "Idle"
        /\ rx_idx = NoIdx /\ pending_rx_idx = NoIdx /\ ack_tx_idx = NoIdx
        /\ ~active /\ ~slot_active
    BY DEF TimeslotPrxInit, NewTimeslotDriver, Init, PoolInit
  <2>2. EngineType
    BY <2>1, ResetType, NoIdxFacts DEF EngineType, BufState
  <2>3. SilentInv
    BY <2>1 DEF SilentInv, RadioReset, RadioLine
  <2>4. IdleInv
    BY <2>1 DEF IdleInv, HoldsDma, InState
  <2> QED
    BY <2>2, <2>3, <2>4 DEF QuietInv
<1> QED
  BY <1>1, QuietStep, PTL DEF Spec

\* Outside the slots BLE has the radio, and the next slot the buffers, with the
\* exceptions the property names.
THEOREM TimeslotPrxQuiet == Spec => []QuietOutsideSlot
BY TimeslotPrxQuietInvariant, QuietFollows, PTL

-----------------------------------------------------------------------------
(* Delivery                                                                *)

Header == [pipe : Pipes, seq : 0 .. MaxSeq, no_ack : BOOLEAN]

\* The types of packets, filters and counts
DeliveryType ==
  /\ rx_queue \in Seq(Buf) /\ hdr \in [Buf -> Header] /\ rx_buf \in Header
  /\ last \in [Pipes -> LastType] /\ saved \in [Pipes -> LastType]
  /\ legacy_last \in [Pipes -> LastType]
  /\ sent \in [Pipes -> -1 .. MaxSeq] /\ got \in [Pipes -> -1 .. MaxSeq]
  /\ sent_no_ack \in [Pipes -> BOOLEAN]
  /\ rx_per_pipe \in [Pipes -> Nat]

\* Filter l knows no packet of pipe p that has not been sent, and the last one
\* sent as it was.
Knows(l, p) ==
  l[p].valid => /\ l[p].pid <= sent[p]
                /\ l[p].pid = sent[p] => l[p].crc = <<sent[p], sent_no_ack[p]>>

\* The packet that filter l has let through last; no PID is used twice.
Number(l, p) == IF l[p].valid THEN l[p].pid ELSE -1

\* What the application has got the shared filter has let through.
FilterInv == \A p \in Pipes : Knows(last, p) /\ got[p] <= Number(last, p)

\* The inline engine counts what its filter lets through, in the slots of a
\* session that goes on and has no driver.
LegacyLive ==
  ~driver /\ ((InSlot /\ phase # "Idle") \/ (mpsl # "closed" /\ ~closing))

LegacyFilterInv ==
  LegacyLive => \A p \in Pipes : /\ Knows(legacy_last, p)
                                 /\ rx_per_pipe[p] <= Number(legacy_last, p) + 1

CountInv == \A p \in Pipes : rx_per_pipe[p] <= sent[p] + 1

\* A slot is granted to a driver whose filter is saved.  An overstayed slot saves
\* nothing, and is the last of its session.
SavedInv == driver /\ ~InSlot => saved = last \/ (done /\ mpsl # "requested")

\* The packet in header h is the last one its peer has sent.
Latest(h) == h.seq = sent[rf.rxmatch] /\ h.no_ack = sent_no_ack[rf.rxmatch]

\* The radio of an engine that receives into i, and of one that sends an ACK
Listening(i) ==
  /\ rf.inten /\ rf.ptr = i
  /\ rf.disabled => rf.mode # "rx"
  /\ ~rf.disabled => rf.mode = "rx"

Acking == rf.mode # "rx" /\ ~rf.rxen /\ (rf.disabled => rf.mode = "off")

\* The packet being acknowledged has passed the filter and is new.
PendingNew ==
  /\ pending_rx_idx \in Buf
  /\ last[hdr[pending_rx_idx].pipe].valid
  /\ got[hdr[pending_rx_idx].pipe] < hdr[pending_rx_idx].seq
  /\ hdr[pending_rx_idx].seq <= last[hdr[pending_rx_idx].pipe].pid

\* The state machine at work in a slot; it is idle in one it has got late.
Machine ==
  /\ state # "Idle" => timeslot_managed
  /\ state = "Receiver" =>
       /\ rx_idx \in Buf /\ Listening(rx_idx)
       /\ rf.disabled /\ rf.crcok => Latest(hdr[rx_idx])
  /\ state = "TxAck" => PendingNew
  /\ state \in {"TxAck", "TxRepeatedAck"} => Acking

\* The inline engine at work in a slot
Inline ==
  InSlot /\ ~driver /\ phase # "Idle" =>
    /\ phase = "Receiving" => /\ Listening(NoIdx)
                              /\ rf.disabled /\ rf.crcok => Latest(rx_buf)
    /\ phase # "Receiving" => Acking

\* Only a driver registered in a slot finds an inline engine it has not stopped.
PhaseInv == phase # "Idle" => (InSlot /\ ~driver) \/ "late_driver" \in lapses

DeliveryInv ==
  /\ DeliveryType /\ FilterInv /\ LegacyFilterInv /\ CountInv /\ SavedInv
  /\ InSlot /\ driver => Machine
  /\ Inline

\* The registers after the operations of a manual turnaround
LEMMA ManualRadio ==
  ASSUME NEW r \in RadioType, NEW i \in Opt, NEW p \in Pipes
  PROVE  /\ LET q == StartReceivingManualAck(Stop(r), i)
            IN  q.inten /\ q.ptr = i /\ ~q.disabled /\ q.mode = "rx"
         /\ r.mode = "off" =>
              LET q == StartReceivingManualAck(r, i)
              IN  q.inten /\ q.ptr = i /\ ~q.disabled /\ q.mode = "rx"
         /\ LET q == RestartBadCrc(r)
            IN  q.inten /\ q.ptr = r.ptr /\ ~q.disabled /\ q.mode = "rx"
         /\ r.mode # "rx" =>
              LET q == TransmitAckManual(r, p, i)
              IN  q.mode = "tx" /\ ~q.rxen /\ ~q.disabled
<1>1. \A x \in RadioType : x.mode = "off" =>
        LET q == StartReceivingManualAck(x, i)
        IN  q.inten /\ q.ptr = i /\ ~q.disabled /\ q.mode = "rx"
  BY DEF StartReceivingManualAck, Ramp, RadioType
<1>2. Stop(r) \in RadioType /\ Stop(r).mode = "off"
  BY DEF Stop, RadioType
<1>3. LET q == RestartBadCrc(r)
      IN  q.inten /\ q.ptr = r.ptr /\ ~q.disabled /\ q.mode = "rx"
  BY DEF RestartBadCrc, Stop, Ramp, RadioType
<1>4. r.mode # "rx" => LET q == TransmitAckManual(r, p, i)
                       IN  q.mode = "tx" /\ ~q.rxen /\ ~q.disabled
  BY DEF TransmitAckManual, Ramp, RadioType
<1> QED
  BY <1>1, <1>2, <1>3, <1>4

\* The turnaround helpers of the state machine in a slot
LEMMA Manual ==
  ASSUME timeslot_managed, NEW r, NEW p, NEW i
  PROVE  /\ RestartRxNoAck(r, i) = StartReceivingManualAck(Stop(r), i)
         /\ RestartRxAfterAck(r, i) = StartReceivingManualAck(r, i)
         /\ TransmitAck(r, p, i) = TransmitAckManual(r, p, i)
BY DEF RestartRxNoAck, RestartRxAfterAck, TransmitAck

\* A packet's number is its PID.
LEMMA PidIsNumber ==
  ASSUME NEW n \in 0 .. MaxSeq
  PROVE  Pid(n) = n /\ n \in 0 .. 3
BY PrxAssumption DEF Pid

\* The packet in header h is the last one sent on pipe q and passes filter l.
Fresh(l, q, h) ==
  /\ h.seq = sent[q] /\ h.no_ack = sent_no_ack[q]
  /\ ~(l[q].valid /\ l[q].pid = Pid(h.seq) /\ l[q].crc = Crc(h))

\* Filter m is filter l after packet h of pipe q; it knows what l has known and h,
\* which is new.
Filtered(m, l, q, h) ==
  /\ m \in [Pipes -> LastType]
  /\ \A p \in Pipes : Knows(m, p)
  /\ \A p \in Pipes : p # q => Number(m, p) = Number(l, p)
  /\ Number(m, q) = h.seq /\ m[q].valid /\ m[q].pid = h.seq
  /\ Number(l, q) \in Int /\ Number(l, q) < h.seq

\* A filter that knows what has been sent still does with a packet that passes it.
LEMMA Passes ==
  ASSUME NEW l \in [Pipes -> LastType], NEW q \in Pipes, NEW h \in Header, NEW m,
         \A p \in Pipes : Knows(l, p), Fresh(l, q, h),
         m = [l EXCEPT ![q] = [valid |-> TRUE, pid |-> Pid(h.seq), crc |-> Crc(h)]]
  PROVE  Filtered(m, l, q, h)
<1>0. /\ h.seq = sent[q] /\ h.no_ack = sent_no_ack[q]
      /\ ~(l[q].valid /\ l[q].pid = Pid(h.seq) /\ l[q].crc = Crc(h))
  BY DEF Fresh
<1>1. /\ h.seq \in 0 .. 3 /\ Pid(h.seq) = h.seq /\ Crc(h) = <<h.seq, h.no_ack>>
      /\ h.no_ack \in BOOLEAN
  BY PidIsNumber DEF Header, Crc
<1>2. [valid |-> TRUE, pid |-> Pid(h.seq), crc |-> Crc(h)] \in LastType
  BY <1>1 DEF LastType
<1>3. m \in [Pipes -> LastType] /\ \A p \in Pipes : p # q => m[p] = l[p]
  BY <1>2
<1>4. m[q].valid /\ m[q].pid = h.seq /\ m[q].crc = <<h.seq, h.no_ack>>
  BY <1>1
<1>5. \A p \in Pipes : Knows(m, p)
  BY <1>0, <1>1, <1>3, <1>4 DEF Knows
<1>6. Number(l, q) \in Int /\ Number(l, q) < h.seq
  <2>1. CASE l[q].valid
    <3>1. l[q].pid \in 0 .. 3 /\ l[q].pid <= sent[q] /\ l[q].pid # sent[q]
      BY <1>0, <1>1, <2>1 DEF Knows, LastType
    <3> QED
      BY <1>0, <1>1, <2>1, <3>1 DEF Number
  <2>2. CASE ~l[q].valid
    BY <1>1, <2>2 DEF Number
  <2> QED
    BY <2>1, <2>2
<1>7. \A p \in Pipes : p # q => Number(m, p) = Number(l, p)
  BY <1>3 DEF Number
<1>8. Number(m, q) = h.seq
  BY <1>4 DEF Number
<1> QED
  BY <1>3, <1>4, <1>5, <1>6, <1>7, <1>8 DEF Filtered

\* What a branch of the handler keeps and shows
HandlerKeeps ==
  /\ rx_queue' \in Seq(Buf) /\ hdr' \in [Buf -> Header]
  /\ last' \in [Pipes -> LastType] /\ got' \in [Pipes -> -1 .. MaxSeq]
  /\ FilterInv' /\ Machine'
  /\ Len(rx_queue') > Len(rx_queue) => \E p \in Pipes : got'[p] > got[p]

\* A branch that leaves the application and the filter alone shows it by the radio.
LEMMA KeepsFrame ==
  ASSUME DeliveryType, FilterInv, UNCHANGED <<rx_queue, hdr, last, got, peerVars>>, Machine'
  PROVE  HandlerKeeps
<1>1. UNCHANGED <<rx_queue, hdr, last, got, sent, sent_no_ack>>
  BY DEF peerVars
<1>2. FilterInv'
  BY <1>1 DEF FilterInv, Knows, Number
<1>3. Len(rx_queue) \in Nat
  BY DEF DeliveryType
<1> QED
  BY <1>1, <1>2, <1>3 DEF HandlerKeeps, DeliveryType

\* A machine that receives into i with its event cleared
LEMMA ReceivesAgain ==
  ASSUME timeslot_managed', state' = "Receiver", rx_idx' \in Buf,
         rf'.inten, rf'.ptr = rx_idx', ~rf'.disabled, rf'.mode = "rx"
  PROVE  Machine'
BY DEF Machine, Listening

\* After an ACK the machine receives into a buffer or is idle.
LEMMA AfterAck ==
  ASSUME EngineType, NEW p \in [Buf -> BufState], ReceiveAfterAck(p), timeslot_managed,
         timeslot_managed', rf.mode = "off"
  PROVE  Machine'
<1>1. Release(p, ack_tx_idx) \in [Buf -> BufState]
  BY StoreDma DEF EngineType
<1>2. rx_idx' \in Opt
  BY <1>1, AllocDma DEF ReceiveAfterAck
<1>3. CASE rx_idx' = NoIdx
  <2>1. state' = "Idle"
    BY <1>3 DEF ReceiveAfterAck
  <2> QED
    BY <2>1 DEF Machine
<1>4. CASE rx_idx' # NoIdx
  <2>1. rf' = StartReceivingManualAck(Seen, rx_idx') /\ state' = "Receiver" /\ rx_idx' \in Buf
    BY <1>2, <1>4, Manual DEF ReceiveAfterAck, Opt
  <2>2. Seen \in RadioType /\ Seen.mode = "off" /\ rf.rxmatch \in Pipes
    BY SeenType DEF Seen, EngineType, RadioType
  <2>3. rf'.inten /\ rf'.ptr = rx_idx' /\ ~rf'.disabled /\ rf'.mode = "rx"
    BY <1>2, <2>1, <2>2, ManualRadio
  <2> QED
    BY <2>1, <2>3, ReceivesAgain
<1> QED
  BY <1>3, <1>4

\* The branches of the handler that take no new packet
LEMMA NothingNew ==
  ASSUME EngineType, DeliveryType, FilterInv, Machine, timeslot_managed,
         UNCHANGED <<timeslot_managed, peerVars>>,
         OnBadCrc \/ OnDuplicateNoAck \/ OnDuplicate \/ OnRepeatedAckSent
  PROVE  HandlerKeeps
<1>0. /\ Seen \in RadioType /\ Stop(Seen) \in RadioType /\ rf.rxmatch \in Pipes
      /\ NoIdx \in Opt /\ timeslot_managed' /\ timeslot_managed /\ Buf \subseteq Opt
      /\ Seen.ptr = rf.ptr /\ Seen.mode = rf.mode
  BY SeenType, NoIdxFacts DEF Machine, Seen, EngineType, RadioType, Opt
<1>1. CASE OnBadCrc
  <2>1. /\ rf' = RestartBadCrc(Seen) /\ state = "Receiver"
        /\ UNCHANGED <<rx_queue, state, rx_idx, hdr, last, got>>
    BY <1>1 DEF OnBadCrc, poolVars, smVars
  <2>2. rx_idx \in Buf /\ rf.ptr = rx_idx
    BY <2>1 DEF Machine, Listening
  <2>3. rf'.inten /\ rf'.ptr = rx_idx /\ ~rf'.disabled /\ rf'.mode = "rx"
    BY <1>0, <2>1, <2>2, ManualRadio
  <2> QED
    BY <1>0, <2>1, <2>2, <2>3, ReceivesAgain, KeepsFrame
<1>2. CASE OnDuplicateNoAck
  <2>1. state = "Receiver" /\ UNCHANGED <<rx_queue, state, hdr, last, got>>
    BY <1>2 DEF OnDuplicateNoAck, Packet
  <2>2. rx_idx' \in Buf /\ rf' = StartReceivingManualAck(Stop(Seen), rx_idx')
    <3>1. rx_idx \in Buf
      BY <2>1 DEF Machine
    <3>2. CASE \E i \in RxToDmaChoice(pool) : rx_idx' = i /\ rf' = RestartRxNoAck(Seen, i)
      BY <1>0, <3>2, ChoiceType, Manual
    <3>3. CASE rf' = RestartRxNoAck(Seen, rx_idx) /\ UNCHANGED rx_idx
      BY <1>0, <3>1, <3>3, Manual
    <3> QED
      BY <1>2, <3>2, <3>3 DEF OnDuplicateNoAck
  <2>3. rf'.inten /\ rf'.ptr = rx_idx' /\ ~rf'.disabled /\ rf'.mode = "rx"
    BY <1>0, <2>2, ManualRadio
  <2> QED
    BY <1>0, <2>1, <2>2, <2>3, ReceivesAgain, KeepsFrame
<1>3. CASE OnDuplicate
  <2>1. /\ rf' = TransmitAckManual(Seen, rf.rxmatch, NoIdx)
        /\ state = "Receiver" /\ rf.disabled /\ state' = "TxRepeatedAck"
        /\ UNCHANGED <<rx_queue, hdr, last, got>>
    BY <1>0, <1>3, Manual, NoIdxFacts DEF OnDuplicate, Packet
  <2>2. rf.mode # "rx"
    BY <2>1 DEF Machine, Listening
  <2>3. rf'.mode = "tx" /\ ~rf'.rxen /\ ~rf'.disabled
    BY <1>0, <2>1, <2>2, ManualRadio
  <2>4. Machine'
    BY <1>0, <2>1, <2>3 DEF Machine, Acking
  <2> QED
    BY <2>1, <2>4, KeepsFrame
<1>4. CASE OnRepeatedAckSent
  <2>1. /\ UNCHANGED <<rx_queue, hdr, last, got>> /\ state = "TxRepeatedAck"
        /\ ReceiveAfterAck(pool) /\ rf.disabled
    BY <1>4 DEF OnRepeatedAckSent
  <2>2. Machine'
    BY <1>0, <2>1, AfterAck DEF EngineType, Machine, Acking
  <2> QED
    BY <2>1, <2>2, KeepsFrame
<1> QED
  BY <1>1, <1>2, <1>3, <1>4

\* A packet delivered is one number further than what the application has got.
LEMMA Delivers ==
  ASSUME DeliveryType, NEW i \in Buf, Deliver(i), NEW q \in Pipes, hdr'[i].pipe = q,
         got[q] < hdr[i].seq, UNCHANGED peerVars,
         \A p \in Pipes : Knows(last', p) /\ got[p] <= Number(last', p),
         hdr[i].seq <= Number(last', q)
  PROVE  /\ rx_queue' \in Seq(Buf) /\ got' \in [Pipes -> -1 .. MaxSeq]
         /\ FilterInv' /\ got'[q] > got[q]
<1>1. hdr[i].seq \in 0 .. MaxSeq /\ 0 .. MaxSeq \subseteq -1 .. MaxSeq
  BY PrxAssumption DEF DeliveryType, Header
<1>2. got' = [got EXCEPT ![q] = hdr[i].seq] /\ rx_queue' = RxSend(rx_queue, i)
  BY DEF Deliver
<1>3. rx_queue' \in Seq(Buf)
  BY <1>2, RxSendType DEF DeliveryType
<1>4. got' \in [Pipes -> -1 .. MaxSeq] /\ got'[q] = hdr[i].seq
  BY <1>1, <1>2 DEF DeliveryType
<1>5. \A p \in Pipes : got'[p] <= Number(last', p)
  BY <1>2, <1>4 DEF DeliveryType
<1>6. UNCHANGED <<sent, sent_no_ack>>
  BY DEF peerVars
<1>7. FilterInv'
  BY <1>5, <1>6 DEF FilterInv, Knows, Number
<1> QED
  BY <1>1, <1>3, <1>4, <1>7

\* A new packet passes the filter, and its buffer gets its pipe.
LEMMA NewPacket ==
  ASSUME EngineType, DeliveryType, FilterInv, Machine, NEW na \in BOOLEAN, Packet(FALSE, na),
         UpdateDetection(rf.rxmatch, hdr[rx_idx])
  PROVE  /\ rx_idx \in Buf /\ rf.rxmatch \in Pipes /\ rf.mode # "rx"
         /\ hdr' \in [Buf -> Header] /\ last' \in [Pipes -> LastType]
         /\ hdr'[rx_idx].pipe = rf.rxmatch /\ hdr'[rx_idx].seq = hdr[rx_idx].seq
         /\ last'[rf.rxmatch].valid /\ last'[rf.rxmatch].pid = hdr[rx_idx].seq
         /\ got[rf.rxmatch] < hdr[rx_idx].seq
         /\ \A p \in Pipes : Knows(last', p) /\ got[p] <= Number(last', p)
         /\ hdr[rx_idx].seq = Number(last', rf.rxmatch)
<1> DEFINE q == rf.rxmatch
           h == hdr[rx_idx]
<1>1. rx_idx \in Buf /\ rf.mode # "rx" /\ Fresh(last, q, h)
  BY DEF Packet, Machine, Listening, Latest, CheckDuplicate, Fresh
<1>2. q \in Pipes /\ h \in Header
  BY <1>1, SeenType DEF DeliveryType
<1>3. /\ last' = [last EXCEPT ![q] = [valid |-> TRUE, pid |-> Pid(h.seq), crc |-> Crc(h)]]
      /\ hdr' = [hdr EXCEPT ![rx_idx].pipe = q]
  BY DEF UpdateDetection
<1>4. /\ hdr' \in [Buf -> Header] /\ hdr'[rx_idx].pipe = q /\ hdr'[rx_idx].seq = h.seq
  BY <1>1, <1>2, <1>3 DEF DeliveryType, Header
<1>5. last \in [Pipes -> LastType] /\ \A p \in Pipes : Knows(last, p)
  BY DEF DeliveryType, FilterInv
<1> HIDE DEF q, h
<1>6. Filtered(last', last, q, h)
  BY <1>1, <1>2, <1>3, <1>5, Passes
<1>7. got[q] < h.seq
  <2>1. got[q] \in Int /\ h.seq \in Int
    BY <1>2, PrxAssumption DEF DeliveryType, Header
  <2>2. got[q] <= Number(last, q)
    BY <1>2 DEF FilterInv
  <2> QED
    BY <1>6, <2>1, <2>2 DEF Filtered
<1>8. \A p \in Pipes : got[p] <= Number(last', p)
  <2> TAKE p \in Pipes
  <2>1. got[p] <= Number(last, p)
    BY DEF FilterInv
  <2>2. got[q] \in Int /\ h.seq \in Int
    BY <1>2, PrxAssumption DEF DeliveryType, Header
  <2> QED
    BY <1>6, <1>7, <2>1, <2>2 DEF Filtered
<1>9. /\ last' \in [Pipes -> LastType] /\ \A p \in Pipes : Knows(last', p)
      /\ last'[q].valid /\ last'[q].pid = h.seq /\ Number(last', q) = h.seq
  BY <1>6 DEF Filtered
<1> QED
  BY <1>1, <1>2, <1>4, <1>7, <1>8, <1>9 DEF q, h

\* The branches of the handler that take a new packet, and deliver the one that
\* has been acknowledged
LEMMA SomethingNew ==
  ASSUME EngineType, DeliveryType, FilterInv, Machine, timeslot_managed,
         UNCHANGED <<timeslot_managed, peerVars>>,
         OnNewNoAck \/ OnNew \/ OnAckSent
  PROVE  HandlerKeeps
<1>0. /\ Seen \in RadioType /\ Stop(Seen) \in RadioType /\ rf.rxmatch \in Pipes
      /\ NoIdx \in Opt /\ timeslot_managed' /\ timeslot_managed /\ Buf \subseteq Opt
      /\ Seen.mode = rf.mode /\ UNCHANGED <<sent, sent_no_ack>> /\ Len(rx_queue) \in Nat
  BY SeenType, NoIdxFacts DEF Machine, Seen, EngineType, RadioType, Opt, peerVars, DeliveryType
<1>1. CASE OnNewNoAck
  <2>0. /\ Packet(FALSE, TRUE) /\ UpdateDetection(rf.rxmatch, hdr[rx_idx]) /\ Deliver(rx_idx)
        /\ AllocDmaBuffer(RxComplete(pool, rx_idx)) /\ state = "Receiver"
    BY <1>1 DEF OnNewNoAck, Packet
  <2>1. /\ rx_idx \in Buf
        /\ hdr' \in [Buf -> Header] /\ last' \in [Pipes -> LastType]
        /\ hdr'[rx_idx].pipe = rf.rxmatch
        /\ got[rf.rxmatch] < hdr[rx_idx].seq
        /\ \A p \in Pipes : Knows(last', p) /\ got[p] <= Number(last', p)
        /\ hdr[rx_idx].seq = Number(last', rf.rxmatch) /\ hdr[rx_idx].seq \in Int
    <3>1. hdr[rx_idx].seq \in Int
      BY <2>0 DEF Machine, DeliveryType, Header
    <3> QED
      BY <1>0, <2>0, <3>1, NewPacket
  <2>2. /\ rx_queue' \in Seq(Buf) /\ got' \in [Pipes -> -1 .. MaxSeq]
        /\ FilterInv' /\ got'[rf.rxmatch] > got[rf.rxmatch]
    BY <1>0, <2>0, <2>1, Delivers
  <2>3. Machine'
    <3>1. rx_idx' \in Opt
      BY <2>0, StoreDma, AllocDma, <1>0, <2>1 DEF EngineType
    <3>2. CASE rx_idx' = NoIdx
      BY <1>0, <1>1, <3>2 DEF OnNewNoAck, Machine
    <3>3. CASE rx_idx' # NoIdx
      <4>1. /\ rx_idx' \in Buf /\ rf' = StartReceivingManualAck(Stop(Seen), rx_idx')
            /\ state' = "Receiver"
        BY <1>0, <1>1, <2>0, <3>1, <3>3, Manual DEF OnNewNoAck, Opt
      <4>2. rf'.inten /\ rf'.ptr = rx_idx' /\ ~rf'.disabled /\ rf'.mode = "rx"
        BY <1>0, <3>1, <4>1, ManualRadio
      <4> QED
        BY <1>0, <4>1, <4>2, ReceivesAgain
    <3> QED
      BY <3>2, <3>3
  <2> QED
    BY <1>0, <2>1, <2>2, <2>3 DEF HandlerKeeps
<1>2. CASE OnNew
  <2>0. /\ Packet(FALSE, FALSE) /\ UpdateDetection(rf.rxmatch, hdr[rx_idx])
        /\ pending_rx_idx' = rx_idx /\ state' = "TxAck" /\ UNCHANGED <<rx_queue, got>>
    BY <1>2 DEF OnNew
  <2>1. /\ rx_idx \in Buf /\ rf.mode # "rx"
        /\ hdr' \in [Buf -> Header] /\ last' \in [Pipes -> LastType]
        /\ hdr'[rx_idx].pipe = rf.rxmatch /\ hdr'[rx_idx].seq = hdr[rx_idx].seq
        /\ last'[rf.rxmatch].valid /\ last'[rf.rxmatch].pid = hdr[rx_idx].seq
        /\ got[rf.rxmatch] < hdr[rx_idx].seq
        /\ \A p \in Pipes : Knows(last', p) /\ got[p] <= Number(last', p)
    BY <1>0, <2>0, NewPacket
  <2>2. FilterInv'
    BY <1>0, <2>0, <2>1 DEF FilterInv, Knows, Number
  <2>3. PendingNew'
    <3>1. hdr[rx_idx].seq \in Int
      BY <2>1 DEF DeliveryType, Header
    <3> QED
      BY <2>0, <2>1, <3>1 DEF PendingNew
  <2>4. \E i \in Opt : rf' = TransmitAckManual(Seen, rf.rxmatch, i)
    <3>1. \A i \in DequeueForPipeChoice(rf.rxmatch) : i \in Opt
      BY DEF DequeueForPipeChoice, Lowest, InState, Opt
    <3> QED
      BY <1>0, <1>2, <3>1, Manual, NoIdxFacts DEF OnNew
  <2>5. rf'.mode = "tx" /\ ~rf'.rxen /\ ~rf'.disabled
    BY <1>0, <2>1, <2>4, ManualRadio
  <2>6. Machine'
    BY <1>0, <2>0, <2>3, <2>5 DEF Machine, Acking
  <2> QED
    BY <1>0, <2>0, <2>1, <2>2, <2>6 DEF HandlerKeeps, DeliveryType
<1>3. CASE OnAckSent
  <2>1. /\ state = "TxAck" /\ rf.disabled /\ UNCHANGED <<last, hdr>>
        /\ pending_rx_idx \in Buf /\ pending_rx_idx # NoIdx /\ PendingNew /\ rf.mode = "off"
    BY <1>3, NoIdxFacts DEF OnAckSent, Machine, PendingNew, Acking
  <2>2. Deliver(pending_rx_idx) /\ ReceiveAfterAck(RxComplete(pool, pending_rx_idx))
    BY <1>3, <2>1 DEF OnAckSent
  <2>3. PICK q \in Pipes : hdr'[pending_rx_idx].pipe = q /\ hdr[pending_rx_idx].pipe = q
    BY <2>1 DEF DeliveryType, Header
  <2>4. /\ got[q] < hdr[pending_rx_idx].seq /\ hdr[pending_rx_idx].seq <= Number(last', q)
        /\ \A p \in Pipes : Knows(last', p) /\ got[p] <= Number(last', p)
    BY <1>0, <2>1, <2>3 DEF PendingNew, FilterInv, Knows, Number
  <2>5. /\ rx_queue' \in Seq(Buf) /\ got' \in [Pipes -> -1 .. MaxSeq]
        /\ FilterInv' /\ got'[q] > got[q]
    BY <2>1, <2>2, <2>3, <2>4, Delivers
  <2>6. Machine'
    <3>1. RxComplete(pool, pending_rx_idx) \in [Buf -> BufState]
      BY <1>0, <2>1, StoreDma DEF EngineType
    <3> QED
      BY <1>0, <2>1, <2>2, <3>1, AfterAck
  <2> QED
    BY <1>0, <2>1, <2>5, <2>6 DEF HandlerKeeps, DeliveryType
<1> QED
  BY <1>1, <1>2, <1>3

\* One run of the handler in a slot
LEMMA HandlerDelivers ==
  ASSUME EngineType, DeliveryType, FilterInv, Machine, RadioLine, state # "Idle",
         HandleRadioEvent
  PROVE  HandlerKeeps
<1>1. UNCHANGED <<timeslot_managed, peerVars>>
  BY DEF HandleRadioEvent
<1>2. ~IgnoreUserEvent /\ ~OnIdle /\ timeslot_managed
  BY DEF IgnoreUserEvent, OnIdle, RadioLine, Machine
<1> QED
  BY <1>1, <1>2, NothingNew, SomethingNew DEF HandleRadioEvent

\* The radio event of an inline engine
LEMMA InlineDelivers ==
  ASSUME EngineType, DeliveryInv, RadioSignal, LegacyRadio
  PROVE  DeliveryInv'
<1>0. /\ Seen \in RadioType /\ Stop(Seen) \in RadioType /\ rf.rxmatch \in Pipes
      /\ NoIdx \in Opt /\ Seen.mode = rf.mode
  BY SeenType, NoIdxFacts DEF Seen, EngineType, RadioType
<1>1. /\ InSlot /\ InSlot' /\ ~driver /\ ~driver' /\ rf.disabled
      /\ UNCHANGED <<rx_queue, hdr, last, got, sent, sent_no_ack, saved, mpsl, closing, done,
                     rx_buf>>
  BY DEF RadioSignal, LegacyRadio, RadioLine, InSlot, mpslVars, slotVars, poolVars, smVars,
         peerVars, LegacyBadCrc, LegacyDup, LegacyNew, LegacyAckSent, LegacyIgnored, legacyVars
<1>2. DeliveryType /\ FilterInv /\ LegacyFilterInv /\ CountInv /\ Inline
  BY DEF DeliveryInv
<1>3. FilterInv' /\ SavedInv' /\ (InSlot' /\ driver' => Machine')
  BY <1>1, <1>2 DEF FilterInv, Knows, Number, SavedInv
<1>4. ASSUME UNCHANGED <<legacy_last, rx_per_pipe>>, phase # "Idle" \/ phase' = "Idle"
      PROVE  DeliveryType' /\ LegacyFilterInv' /\ CountInv'
  BY <1>1, <1>2, <1>4
  DEF DeliveryType, LegacyFilterInv, LegacyLive, CountInv, Knows, Number
<1>5. ASSUME rf' = StartReceivingManualAck(Stop(Seen), NoIdx), phase' = "Receiving"
      PROVE  Inline'
  <2>1. rf'.inten /\ rf'.ptr = NoIdx /\ ~rf'.disabled /\ rf'.mode = "rx"
    BY <1>0, <1>5, ManualRadio
  <2> QED
    BY <1>1, <1>5, <2>1 DEF Inline, Listening
<1>6. ASSUME rf' = TransmitAckManual(Seen, rf.rxmatch, NoIdx), phase = "Receiving",
             phase' \in {"TxAck", "TxRepeatedAck"}
      PROVE  Inline'
  <2>1. rf.mode # "rx"
    BY <1>1, <1>2, <1>6 DEF Inline, Listening
  <2>2. rf'.mode = "tx" /\ ~rf'.rxen /\ ~rf'.disabled
    BY <1>0, <1>6, <2>1, ManualRadio
  <2> QED
    BY <1>1, <1>6, <2>2 DEF Inline, Acking
<1>7. CASE LegacyBadCrc
  <2>1. /\ rf' = StartReceivingManualAck(Stop(Seen), NoIdx) /\ phase = "Receiving"
        /\ UNCHANGED <<legacy_last, rx_per_pipe, phase>>
    BY <1>7 DEF LegacyBadCrc, LegacyReceiving, LegacyRestartRx, legacyVars
  <2> QED
    BY <1>3, <1>4, <1>5, <2>1 DEF DeliveryInv
<1>8. CASE LegacyDup
  <2>1. phase = "Receiving" /\ UNCHANGED <<legacy_last, rx_per_pipe>>
    BY <1>8 DEF LegacyDup, LegacyReceiving
  <2>2. \/ rf' = StartReceivingManualAck(Stop(Seen), NoIdx) /\ phase' = "Receiving"
        \/ rf' = TransmitAckManual(Seen, rf.rxmatch, NoIdx) /\ phase' = "TxRepeatedAck"
    BY <1>8, <2>1 DEF LegacyDup, LegacyAck, LegacyRestartRx
  <2> QED
    BY <1>3, <1>4, <1>5, <1>6, <2>1, <2>2 DEF DeliveryInv
<1>9. CASE LegacyNew
  <2> DEFINE q == rf.rxmatch
  <2>1. /\ phase = "Receiving" /\ rf.crcok /\ ~LegacyIsDup(q)
        /\ legacy_last' = [legacy_last EXCEPT ![q] =
             [valid |-> TRUE, pid |-> Pid(rx_buf.seq), crc |-> Crc(rx_buf)]]
        /\ rx_per_pipe' = [rx_per_pipe EXCEPT ![q] = @ + 1]
    BY <1>9 DEF LegacyNew, LegacyReceiving
  <2>2. \/ rf' = StartReceivingManualAck(Stop(Seen), NoIdx) /\ phase' = "Receiving"
        \/ rf' = TransmitAckManual(Seen, rf.rxmatch, NoIdx) /\ phase' = "TxAck"
    BY <1>9, <2>1 DEF LegacyNew, LegacyAck, LegacyRestartRx
  <2>3. Fresh(legacy_last, q, rx_buf)
    BY <1>1, <1>2, <2>1 DEF Inline, Latest, LegacyIsDup, Fresh
  <2>4. q \in Pipes /\ rx_buf \in Header /\ legacy_last \in [Pipes -> LastType]
        /\ rx_per_pipe \in [Pipes -> Nat]
    BY <1>0, <1>2 DEF DeliveryType
  <2>5. \A p \in Pipes : /\ Knows(legacy_last, p)
                         /\ rx_per_pipe[p] <= Number(legacy_last, p) + 1
    BY <1>1, <1>2, <2>1 DEF LegacyFilterInv, LegacyLive
  <2> HIDE DEF q
  <2>6. Filtered(legacy_last', legacy_last, q, rx_buf)
    BY <2>1, <2>3, <2>4, <2>5, Passes
  <2>7. rx_buf.seq \in Int /\ rx_buf.seq = sent[q]
    BY <2>3, <2>4, PrxAssumption DEF Header, Fresh
  <2>8. \A p \in Pipes : rx_per_pipe'[p] <= Number(legacy_last', p) + 1
    <3> TAKE p \in Pipes
    <3>1. CASE p = q
      <4>1. rx_per_pipe'[p] = rx_per_pipe[p] + 1
        BY <2>1, <2>4, <3>1
      <4> QED
        BY <2>4, <2>5, <2>6, <2>7, <3>1, <4>1 DEF Filtered
    <3>2. CASE p # q
      BY <2>1, <2>4, <2>5, <2>6, <3>2 DEF Filtered
    <3> QED
      BY <3>1, <3>2
  <2>9. \A p \in Pipes : rx_per_pipe'[p] <= sent[p] + 1
    <3> TAKE p \in Pipes
    <3>1. CASE p = q
      BY <2>6, <2>7, <2>8, <3>1 DEF Filtered
    <3>2. CASE p # q
      BY <1>2, <2>1, <2>4, <3>2 DEF CountInv
    <3> QED
      BY <3>1, <3>2
  <2>10. rx_per_pipe' \in [Pipes -> Nat]
    BY <2>1, <2>4
  <2>11. DeliveryType' /\ LegacyFilterInv' /\ CountInv'
    BY <1>1, <1>2, <2>6, <2>8, <2>9, <2>10
    DEF DeliveryType, LegacyFilterInv, CountInv, Knows, Number, Filtered
  <2> QED
    BY <1>3, <1>5, <1>6, <2>1, <2>2, <2>11 DEF DeliveryInv
<1>10. CASE LegacyAckSent
  <2>1. /\ phase \in {"TxAck", "TxRepeatedAck"} /\ phase' = "Receiving"
        /\ rf' = StartReceivingManualAck(Seen, NoIdx) /\ UNCHANGED <<legacy_last, rx_per_pipe>>
    BY <1>10 DEF LegacyAckSent, LegacyRestartRx
  <2>2. Seen.mode = "off"
    BY <1>0, <1>1, <1>2, <2>1 DEF Inline, Acking
  <2>3. rf'.inten /\ rf'.ptr = NoIdx /\ ~rf'.disabled /\ rf'.mode = "rx"
    BY <1>0, <2>1, <2>2, ManualRadio
  <2>4. Inline'
    BY <1>1, <2>1, <2>3 DEF Inline, Listening
  <2> QED
    BY <1>3, <1>4, <2>1, <2>4 DEF DeliveryInv
<1>11. CASE LegacyIgnored
  <2>1. phase = "Idle" /\ UNCHANGED <<legacy_last, rx_per_pipe, phase>>
    BY <1>11 DEF LegacyIgnored, legacyVars
  <2> QED
    BY <1>3, <1>4, <2>1 DEF DeliveryInv, Inline
<1> QED
  BY <1>7, <1>8, <1>9, <1>10, <1>11 DEF LegacyRadio

\* The radio event of the engine that the slot is of
LEMMA RadioDelivers ==
  ASSUME EngineType, DeliveryInv, RadioSignal
  PROVE  /\ DeliveryInv'
         /\ Len(rx_queue') > Len(rx_queue) => \E p \in Pipes : got'[p] > got[p]
<1>0. Len(rx_queue) \in Nat
  BY DEF DeliveryInv, DeliveryType
<1>1. CASE LegacyRadio
  BY <1>0, <1>1, InlineDelivers DEF LegacyRadio, poolVars
<1>2. CASE ConvergedRadio
  <2>1. /\ InSlot /\ InSlot' /\ driver /\ driver' /\ RadioLine
        /\ UNCHANGED <<saved, mpsl, closing, done, rx_buf, phase, legacy_last, rx_per_pipe>>
        /\ TsOnRadio
    BY <1>2 DEF RadioSignal, ConvergedRadio, InSlot, mpslVars, slotVars, legacyVars
  <2>2. SavedInv' /\ LegacyFilterInv' /\ Inline'
    BY <2>1 DEF SavedInv, LegacyFilterInv, LegacyLive, Inline, InSlot
  <2>3. CASE state = "Idle"
    <3>1. UNCHANGED <<rx_queue, hdr, last, got, sent, sent_no_ack, state, timeslot_managed>>
      BY <2>1, <2>3 DEF TsOnRadio, prxVars, poolVars, smVars, peerVars
    <3>2. Machine'
      BY <2>1, <2>3, <3>1 DEF DeliveryInv, Machine
    <3>3. DeliveryType' /\ FilterInv' /\ CountInv'
      BY <2>1, <3>1 DEF DeliveryInv, DeliveryType, FilterInv, CountInv, Knows, Number
    <3> QED
      BY <1>0, <2>2, <3>1, <3>2, <3>3 DEF DeliveryInv
  <2>4. CASE state # "Idle"
    <3>1. HandleRadioEvent
      BY <2>1, <2>4 DEF TsOnRadio
    <3>2. HandlerKeeps
      BY <2>1, <2>4, <3>1, HandlerDelivers DEF DeliveryInv
    <3>3. UNCHANGED <<sent, sent_no_ack>>
      BY <3>1 DEF HandleRadioEvent, peerVars
    <3>4. DeliveryType' /\ CountInv'
      BY <2>1, <3>2, <3>3 DEF DeliveryInv, DeliveryType, CountInv, HandlerKeeps
    <3> QED
      BY <2>2, <3>2, <3>4 DEF DeliveryInv, HandlerKeeps
  <2> QED
    BY <2>3, <2>4
<1> QED
  BY <1>1, <1>2 DEF RadioSignal

\* A slot starts with the filter that the one before has left, and with a radio
\* that receives for the engine of the slot.
LEMMA StartDelivers ==
  ASSUME DeliveryInv, Start
  PROVE  DeliveryInv' /\ UNCHANGED rx_queue
<1>0. /\ mpsl = "requested" /\ ~InSlot /\ InSlot' /\ ~closing
      /\ UNCHANGED <<closing, driver, saved, done, legacy_last, rx_buf, rx_per_pipe>>
  BY DEF Start, InSlot
<1>1. RadioReset \in RadioType /\ RadioReset.mode = "off" /\ NoIdx \in Opt /\ Buf \subseteq Opt
  BY ResetType, NoIdxFacts DEF RadioReset, Opt
<1>2. PICK q \in Pipes : TRUE
  BY PrxAssumption
<1>3. CASE driver
  <2>1. /\ TsStartRx /\ last' = last
        /\ UNCHANGED <<rx_queue, hdr, peerVars, got, phase>> /\ timeslot_managed'
    BY <1>0, <1>3 DEF Start, TsStartRx, SavedDetection, DeliveryInv, SavedInv
  <2>2. Machine'
    <3>1. CASE \E i \in RxToDmaChoice(pool) :
                 /\ rx_idx' = i /\ state' = "Receiver"
                 /\ rf' = StartReceivingManualAck(RadioReset, i)
      <4>1. PICK i \in RxToDmaChoice(pool) :
                 /\ rx_idx' = i /\ state' = "Receiver"
                 /\ rf' = StartReceivingManualAck(RadioReset, i)
        BY <3>1
      <4>2. i \in Buf
        BY ChoiceType
      <4>3. rf'.inten /\ rf'.ptr = i /\ ~rf'.disabled /\ rf'.mode = "rx"
        BY <1>1, <1>2, <4>1, <4>2, ManualRadio
      <4> QED
        BY <2>1, <4>1, <4>2, <4>3, ReceivesAgain
    <3>2. CASE state' = "Idle"
      BY <2>1, <3>2 DEF Machine
    <3> QED
      BY <2>1, <3>1, <3>2 DEF TsStartRx
  <2>3. UNCHANGED <<sent, sent_no_ack>>
    BY <2>1 DEF peerVars
  <2>4. DeliveryType' /\ FilterInv' /\ LegacyFilterInv' /\ CountInv' /\ SavedInv' /\ Inline'
    BY <1>0, <1>3, <2>1, <2>3
    DEF DeliveryInv, DeliveryType, FilterInv, LegacyFilterInv, LegacyLive, CountInv, SavedInv,
        Inline, Knows, Number
  <2> QED
    BY <2>1, <2>2, <2>4 DEF DeliveryInv
<1>4. CASE ~driver
  <2>1. /\ rf' = StartReceivingManualAck(RadioReset, NoIdx) /\ phase' = "Receiving"
        /\ UNCHANGED <<rx_queue, hdr, last, got, sent, sent_no_ack>>
    BY <1>4 DEF Start, LegacyStart, poolVars, smVars, peerVars
  <2>2. rf'.inten /\ rf'.ptr = NoIdx /\ ~rf'.disabled /\ rf'.mode = "rx"
    BY <1>1, <1>2, <2>1, ManualRadio
  <2>3. Inline'
    BY <1>0, <1>4, <2>1, <2>2 DEF Inline, Listening
  <2>4. DeliveryType' /\ FilterInv' /\ LegacyFilterInv' /\ CountInv' /\ SavedInv'
    BY <1>0, <1>4, <2>1
    DEF DeliveryInv, DeliveryType, FilterInv, LegacyFilterInv, LegacyLive, CountInv, SavedInv,
        Knows, Number
  <2> QED
    BY <1>0, <1>4, <2>1, <2>3, <2>4 DEF DeliveryInv
<1> QED
  BY <1>3, <1>4

\* A slot ends, or is refused: the engine is stopped, and its filter is saved or
\* is the saved one or is not used again.
LEMMA StopDelivers ==
  ASSUME DeliveryInv, NEW r, StopEngine(r), ~InSlot', mpsl # "closed",
         UNCHANGED <<driver, closing, legacy_last, rx_buf, rx_per_pipe>>,
         saved' = saved \/ saved' = last,
         driver => saved' = last \/ (done' /\ mpsl' # "requested")
  PROVE  DeliveryInv' /\ UNCHANGED rx_queue
<1>1. UNCHANGED <<rx_queue, last, hdr, got, sent, sent_no_ack>>
  BY DEF StopEngine, poolVars, smVars, peerVars
<1>3. DeliveryType' /\ FilterInv' /\ CountInv'
  BY <1>1 DEF DeliveryInv, DeliveryType, FilterInv, CountInv, Knows, Number
<1>4. LegacyFilterInv'
  BY <1>1 DEF DeliveryInv, LegacyFilterInv, LegacyLive, Knows, Number
<1>5. SavedInv' /\ Inline'
  BY <1>1 DEF SavedInv, Inline
<1> QED
  BY <1>1, <1>3, <1>4, <1>5 DEF DeliveryInv

\* The actions that end a slot or refuse one
LEMMA EndDelivers ==
  ASSUME DeliveryInv, (InSlot /\ EndOfSlot) \/ Overstayed \/ InvalidReturn
  PROVE  DeliveryInv' /\ UNCHANGED rx_queue
<1>1. CASE InSlot /\ EndOfSlot
  <2>1. /\ StopEngine(Quiesced(rf)) /\ saved' = Snapshot
        /\ UNCHANGED <<driver, closing, legacy_last, rx_buf, rx_per_pipe>>
    BY <1>1 DEF EndOfSlot
  <2>2. ~InSlot' /\ mpsl # "closed"
    BY <1>1 DEF EndOfSlot, Finalize, RequestNormal, EndSlot, InSlot
  <2>3. (saved' = saved \/ saved' = last) /\ (driver => saved' = last)
    BY <2>1 DEF Snapshot
  <2> QED
    BY <2>1, <2>2, <2>3, StopDelivers
<1>2. CASE Overstayed
  <2>1. /\ StopEngine(IF driver THEN Stop(rf) ELSE rf) /\ ~InSlot' /\ mpsl # "closed"
        /\ UNCHANGED <<driver, closing, legacy_last, rx_buf, rx_per_pipe, saved>>
        /\ done' /\ mpsl' # "requested"
    BY <1>2 DEF Overstayed, InSlot
  <2> QED
    BY <2>1, StopDelivers
<1>3. CASE InvalidReturn
  <2>1. /\ StopEngine(IF driver THEN Stop(rf) ELSE rf) /\ ~InSlot' /\ ~InSlot
        /\ mpsl = "requested"
        /\ UNCHANGED <<driver, closing, legacy_last, rx_buf, rx_per_pipe, saved>>
    BY <1>3 DEF InvalidReturn, InSlot
  <2>2. driver => saved' = last
    BY <2>1 DEF DeliveryInv, SavedInv
  <2> QED
    BY <2>1, <2>2, StopDelivers
<1> QED
  BY <1>1, <1>2, <1>3

\* A filter that is empty, of a count that is zero
LEMMA EmptyFilter ==
  ASSUME DeliveryType
  PROVE  /\ [p \in Pipes |-> NoLast] \in [Pipes -> LastType]
         /\ [p \in Pipes |-> 0] \in [Pipes -> Nat]
         /\ \A p \in Pipes : 0 <= sent[p] + 1
<1>1. NoLast \in LastType
  <2>1. 0 \in 0 .. 3
    OBVIOUS
  <2>2. <<0, FALSE>> \in (0 .. 3) \X BOOLEAN
    BY <2>1, Zenon
  <2> QED
    BY <2>1, <2>2 DEF NoLast, LastType
<1>2. \A p \in Pipes : sent[p] \in -1 .. MaxSeq
  BY DEF DeliveryType
<1> QED
  BY <1>1, <1>2, PrxAssumption

\* A session is opened: its count starts at zero with an empty filter, or its
\* engine is the state machine with the filter it has.
LEMMA OpenDelivers ==
  ASSUME DeliveryInv, (\E m \in Modes : OpenSession(m)) \/ RunPrxSlots \/ StartTimeslotPrx
  PROVE  DeliveryInv' /\ UNCHANGED rx_queue
<1>1. /\ UNCHANGED prxVars /\ UNCHANGED rx_buf /\ mpsl = "closed" /\ ~InSlot' /\ phase' = "Idle"
      /\ rx_per_pipe' = [p \in Pipes |-> 0]
  BY DEF OpenSession, RunPrxSlots, StartTimeslotPrx, ResetRuntime, FirstRequest, InSlot
<1>2. UNCHANGED <<rx_queue, last, hdr, got, sent, sent_no_ack>>
  BY <1>1 DEF prxVars, poolVars, smVars, peerVars
<1>3. \/ NoDriver
      \/ saved' = last /\ legacy_last' = last /\ (driver' \/ (closing' /\ phase' = "Idle"))
  <2>1. CASE StartTimeslotPrx
    BY <1>1, <2>1 DEF StartTimeslotPrx, FirstRequest
  <2>2. CASE (\E m \in Modes : OpenSession(m)) \/ RunPrxSlots
    BY <2>2 DEF OpenSession, RunPrxSlots
  <2> QED
    BY <2>1, <2>2
<1>4. /\ saved' \in [Pipes -> LastType] /\ legacy_last' \in [Pipes -> LastType]
      /\ rx_per_pipe' \in [Pipes -> Nat]
  BY <1>1, <1>3, EmptyFilter DEF DeliveryInv, DeliveryType, NoDriver
<1>5. DeliveryType' /\ FilterInv'
  BY <1>1, <1>2, <1>4 DEF DeliveryInv, DeliveryType, FilterInv, Knows, Number
<1>6. CountInv'
  BY <1>1, <1>2, EmptyFilter DEF DeliveryInv, CountInv
<1>7. LegacyFilterInv' /\ SavedInv'
  <2>1. CASE NoDriver
    <3>1. ~driver' /\ \A p \in Pipes : ~legacy_last'[p].valid /\ rx_per_pipe'[p] = 0
      BY <1>1, <2>1 DEF NoDriver, NoLast
    <3> QED
      BY <3>1 DEF LegacyFilterInv, SavedInv, Knows, Number
  <2>2. CASE saved' = last /\ (driver' \/ (closing' /\ phase' = "Idle"))
    BY <1>2, <2>2 DEF LegacyFilterInv, LegacyLive, SavedInv
  <2> QED
    BY <1>3, <2>1, <2>2
<1> QED
  BY <1>1, <1>2, <1>5, <1>6, <1>7 DEF DeliveryInv, Inline

\* The other signals, and what the task does with an open session: a driver gets a
\* slot with its state machine idle, and one dropped in a slot leaves the inline
\* engine idle.
LEMMA TaskDelivers ==
  ASSUME DeliveryInv, IdleInv, PhaseInv, ~Torn',
         \/ Blocked \/ SessionIdle \/ SessionClosed \/ SetPrxDriver \/ RequestWindow
         \/ DropSession \/ RunReturns \/ DropRun
  PROVE  DeliveryInv' /\ UNCHANGED rx_queue
<1>1. UNCHANGED prxVars /\ UNCHANGED <<rx_buf, phase, rx_per_pipe>> /\ (InSlot' <=> InSlot)
  BY DEF Blocked, SessionIdle, SessionClosed, SetPrxDriver, RequestWindow, DropSession,
         RunReturns, DropRun, CloseRun, InSlot, legacyVars, mpslVars
<1>2. UNCHANGED <<rx_queue, last, hdr, got, sent, sent_no_ack>> /\ UNCHANGED <<state, rf>>
      /\ UNCHANGED <<rx_idx, pending_rx_idx, timeslot_managed>>
  BY <1>1 DEF prxVars, poolVars, smVars, peerVars
<1>3. CASE SetPrxDriver
  <2>1. /\ ~driver /\ driver' /\ saved' = last /\ legacy_last' = last
        /\ InSlot => lapses' = lapses \cup {"late_driver"}
    BY <1>3 DEF SetPrxDriver
  <2>2. InSlot => state' = "Idle"
    BY <1>2, <2>1 DEF IdleInv, Torn
  <2>3. DeliveryType' /\ FilterInv' /\ CountInv'
    BY <1>1, <1>2, <2>1 DEF DeliveryInv, DeliveryType, FilterInv, CountInv, Knows, Number
  <2> QED
    BY <1>1, <1>2, <2>1, <2>2, <2>3
    DEF DeliveryInv, LegacyFilterInv, LegacyLive, SavedInv, Inline, Machine
<1>4. CASE ~SetPrxDriver
  <2>1. UNCHANGED <<legacy_last, saved>> /\ (driver' => driver)
        /\ (driver /\ ~driver' => closing')
    BY <1>4 DEF Blocked, SessionIdle, SessionClosed, SetPrxDriver, RequestWindow, DropSession,
         RunReturns, DropRun, CloseRun, legacyVars
  <2>2. driver /\ ~driver' /\ InSlot => phase = "Idle"
    <3> SUFFICES ASSUME driver, ~driver', InSlot PROVE phase = "Idle"
      OBVIOUS
    <3>1. lapses' = lapses \cup {"drop"}
      BY <1>4 DEF Blocked, SessionIdle, SessionClosed, SetPrxDriver, RequestWindow,
           DropSession, RunReturns, DropRun, CloseRun
    <3> QED
      BY <3>1 DEF Torn, PhaseInv
  <2>3. LegacyLive' => LegacyLive
    <3>2. ~closing' => (mpsl # "closed" /\ ~closing) \/ mpsl' = "closed"
      BY <1>4 DEF Blocked, SessionIdle, SessionClosed, SetPrxDriver, RequestWindow, DropSession,
         RunReturns, DropRun, CloseRun, mpslVars
    <3> QED
      BY <1>1, <2>1, <2>2, <3>2 DEF LegacyLive
  <2>4. DeliveryType' /\ FilterInv' /\ LegacyFilterInv' /\ CountInv'
    BY <1>1, <1>2, <2>1, <2>3
    DEF DeliveryInv, DeliveryType, FilterInv, LegacyFilterInv, CountInv, Knows, Number
  <2>5. Inline' /\ (InSlot' /\ driver' => Machine')
    BY <1>1, <1>2, <2>1, <2>2
    DEF DeliveryInv, Inline, Machine, Listening, Acking, Latest, PendingNew
  <2>6. SavedInv'
    BY <1>1, <1>2, <1>4, <2>1
    DEF DeliveryInv, SavedInv, Blocked, SessionIdle, SessionClosed, SetPrxDriver, RequestWindow,
        DropSession, RunReturns, DropRun, CloseRun, InSlot, slotVars
  <2> QED
    BY <1>2, <2>4, <2>5, <2>6 DEF DeliveryInv
<1> QED
  BY <1>3, <1>4

\* A peer goes on to its next packet or repeats the last one, which the filters
\* know as well as before.
LEMMA PeersGoOn ==
  ASSUME DeliveryInv, UNCHANGED <<last, got, legacy_last, rx_per_pipe>>,
         sent' \in [Pipes -> -1 .. MaxSeq], LegacyLive' => LegacyLive,
         \A p \in Pipes : \/ sent'[p] > sent[p]
                          \/ sent'[p] = sent[p] /\ sent_no_ack'[p] = sent_no_ack[p]
  PROVE  FilterInv' /\ LegacyFilterInv' /\ CountInv'
<1>0. sent \in [Pipes -> -1 .. MaxSeq] /\ -1 .. MaxSeq \subseteq Int
  BY PrxAssumption DEF DeliveryInv, DeliveryType
<1>1. \A p \in Pipes : sent[p] \in Int /\ sent'[p] \in Int /\ sent[p] <= sent'[p]
  <2> TAKE p \in Pipes
  <2>1. sent[p] \in Int /\ sent'[p] \in Int
    BY <1>0
  <2> QED
    BY <2>1
<1>2. \A p \in Pipes : last[p].pid \in 0 .. 3 /\ legacy_last[p].pid \in 0 .. 3
  BY DEF DeliveryInv, DeliveryType, LastType
<1>3. FilterInv'
  BY <1>1, <1>2 DEF DeliveryInv, FilterInv, Knows, Number
<1>4. LegacyFilterInv'
  BY <1>1, <1>2 DEF DeliveryInv, LegacyFilterInv, Knows, Number
<1>5. CountInv'
  BY <1>1 DEF DeliveryInv, DeliveryType, CountInv
<1> QED
  BY <1>3, <1>4, <1>5

\* The air gives a listening engine the latest packet, and takes its ACK.
LEMMA AirDelivers ==
  ASSUME EngineType, DeliveryInv, Air
  PROVE  DeliveryInv' /\ UNCHANGED rx_queue
<1>0. /\ UNCHANGED <<mpsl, closing, driver, saved, done, phase, legacy_last, rx_per_pipe>>
      /\ ~RadioLine /\ UNCHANGED <<rx_queue, last, got>>
      /\ UNCHANGED <<state, rx_idx, pending_rx_idx, timeslot_managed>>
  BY DEF Air, TimeslotReceive, Miss, AckSent, mpslVars, slotVars, poolVars, smVars
<1>1. (InSlot' <=> InSlot) /\ (LegacyLive' => LegacyLive) /\ SavedInv'
  BY <1>0 DEF InSlot, LegacyLive, DeliveryInv, SavedInv
<1>2. DeliveryType /\ (InSlot /\ driver => Machine) /\ Inline /\ rf \in RadioType
  BY DEF DeliveryInv, EngineType
<1>3. ASSUME NEW p \in Pipes, TimeslotReceive(p)
      PROVE  DeliveryInv'
  <2>1. PICK n \in 0 .. MaxSeq, na \in BOOLEAN, ok \in BOOLEAN :
          /\ PeerSends(p, n, na) /\ rf.mode = "rx"
          /\ rf' = [rf EXCEPT !.mode = IF rf.txen THEN "tx" ELSE "off", !.disabled = TRUE,
                              !.crcok = ok, !.rxmatch = p]
          /\ IF rf.ptr \in Buf
             THEN /\ hdr' = [hdr EXCEPT ![rf.ptr].seq = n, ![rf.ptr].no_ack = na]
                  /\ UNCHANGED rx_buf
             ELSE /\ rx_buf' = [pipe |-> p, seq |-> n, no_ack |-> na]
                  /\ UNCHANGED hdr
          /\ sent' = [sent EXCEPT ![p] = n]
          /\ sent_no_ack' = [sent_no_ack EXCEPT ![p] = na]
    BY <1>3 DEF TimeslotReceive
  <2>2. /\ sent' \in [Pipes -> -1 .. MaxSeq] /\ sent_no_ack' \in [Pipes -> BOOLEAN]
        /\ sent'[p] = n /\ sent_no_ack'[p] = na
    BY <1>2, <2>1, PrxAssumption DEF DeliveryType
  <2>3. \A q \in Pipes : \/ sent'[q] > sent[q]
                         \/ sent'[q] = sent[q] /\ sent_no_ack'[q] = sent_no_ack[q]
    <3> TAKE q \in Pipes
    <3>1. CASE q = p
      <4>1. sent[p] \in Int /\ n \in Int
        BY <1>2, PrxAssumption DEF DeliveryType
      <4> QED
        BY <2>1, <2>2, <3>1, <4>1 DEF PeerSends
    <3>2. CASE q # p
      BY <1>2, <2>1, <3>2 DEF DeliveryType
    <3> QED
      BY <3>1, <3>2
  <2>4. /\ hdr' \in [Buf -> Header] /\ rx_buf' \in Header
        /\ rf.ptr \in Buf => hdr'[rf.ptr].seq = n /\ hdr'[rf.ptr].no_ack = na
        /\ rf.ptr \notin Buf => rx_buf'.seq = n /\ rx_buf'.no_ack = na
    <3>1. hdr \in [Buf -> Header] /\ rx_buf \in Header
      BY <1>2 DEF DeliveryType
    <3>2. CASE rf.ptr \in Buf
      <4>1. hdr' = [hdr EXCEPT ![rf.ptr].seq = n, ![rf.ptr].no_ack = na] /\ rx_buf' = rx_buf
        BY <2>1, <3>2
      <4>2. hdr'[rf.ptr].seq = n /\ hdr'[rf.ptr].no_ack = na /\ hdr' \in [Buf -> Header]
        BY <3>1, <3>2, <4>1 DEF Header
      <4> QED
        BY <3>1, <3>2, <4>1, <4>2
    <3>3. CASE rf.ptr \notin Buf
      BY <2>1, <3>1, <3>3 DEF Header
    <3> QED
      BY <3>2, <3>3
  <2>5. /\ rf'.inten = rf.inten /\ rf'.ptr = rf.ptr /\ rf'.disabled /\ rf'.mode # "rx"
        /\ rf'.rxmatch = p
    BY <1>2, <2>1 DEF RadioType
  <2>6. InSlot /\ driver => Machine'
    <3> SUFFICES ASSUME InSlot, driver PROVE Machine'
      OBVIOUS
    <3>1. Machine /\ ~Acking
      BY <1>2, <2>1 DEF Acking
    <3>2. state \notin {"TxAck", "TxRepeatedAck"} /\ (state # "Idle" => timeslot_managed)
      BY <3>1 DEF Machine
    <3>3. CASE state = "Receiver"
      <4>1. rx_idx \in Buf /\ rf.ptr = rx_idx /\ rf.inten
        BY <3>1, <3>3 DEF Machine, Listening
      <4> QED
        BY <1>0, <2>2, <2>4, <2>5, <3>2, <3>3, <4>1 DEF Machine, Listening, Latest
    <3>4. CASE state # "Receiver"
      BY <1>0, <3>2, <3>4 DEF Machine
    <3> QED
      BY <3>3, <3>4
  <2>7. Inline'
    <3> SUFFICES ASSUME InSlot, ~driver, phase # "Idle" PROVE Inline'
      BY <1>0, <1>1 DEF Inline
    <3>1. ~Acking
      BY <1>2, <2>1 DEF Acking
    <3>2. phase = "Receiving" /\ Listening(NoIdx)
      BY <1>2, <3>1 DEF Inline
    <3>3. rf.ptr \notin Buf /\ rf.ptr = NoIdx /\ rf.inten
      BY <3>2, NoIdxFacts DEF Listening
    <3> QED
      BY <1>0, <1>1, <2>2, <2>4, <2>5, <3>1, <3>2, <3>3 DEF Inline, Listening, Latest
  <2>8. DeliveryType'
    BY <1>0, <1>2, <2>2, <2>4 DEF DeliveryType
  <2>9. FilterInv' /\ LegacyFilterInv' /\ CountInv'
    BY <1>0, <1>1, <2>2, <2>3, PeersGoOn
  <2> QED
    BY <1>0, <1>1, <2>6, <2>7, <2>8, <2>9 DEF DeliveryInv
<1>4. ASSUME NEW p \in Pipes, Miss(p), UNCHANGED rx_buf
      PROVE  DeliveryInv'
  <2>1. PICK na \in NoAckKinds :
          /\ sent[p] < MaxSeq /\ sent' = [sent EXCEPT ![p] = sent[p] + 1]
          /\ sent_no_ack' = [sent_no_ack EXCEPT ![p] = na]
          /\ UNCHANGED <<hdr, rf>>
    BY <1>4 DEF Miss
  <2>2. sent[p] \in -1 .. MaxSeq /\ MaxSeq \in Int /\ na \in BOOLEAN
    BY <1>2, PrxAssumption DEF DeliveryType
  <2>3. sent' \in [Pipes -> -1 .. MaxSeq] /\ sent_no_ack' \in [Pipes -> BOOLEAN]
    BY <1>2, <2>1, <2>2 DEF DeliveryType
  <2>4. \A q \in Pipes : \/ sent'[q] > sent[q]
                         \/ sent'[q] = sent[q] /\ sent_no_ack'[q] = sent_no_ack[q]
    BY <1>2, <2>1, <2>2 DEF DeliveryType
  <2>5. InSlot /\ driver => Machine'
    BY <1>0, <1>2, <2>1 DEF Machine, Listening, Acking, PendingNew, RadioLine
  <2>6. Inline'
    BY <1>0, <1>1, <1>2, <2>1 DEF Inline, Listening, Acking, RadioLine
  <2>7. DeliveryType'
    BY <1>0, <1>2, <1>4, <2>1, <2>3 DEF DeliveryType
  <2>8. FilterInv' /\ LegacyFilterInv' /\ CountInv'
    BY <1>0, <1>1, <2>3, <2>4, PeersGoOn
  <2> QED
    BY <1>0, <1>1, <2>5, <2>6, <2>7, <2>8 DEF DeliveryInv
<1>5. CASE AckSent
  <2>1. /\ rf.mode = "tx" /\ UNCHANGED <<hdr, sent, sent_no_ack, rx_buf>>
        /\ rf' = [rf EXCEPT !.mode = IF rf.rxen THEN "rx" ELSE "off", !.disabled = TRUE]
    BY <1>5 DEF AckSent, peerVars
  <2>2. rf'.rxen = rf.rxen /\ (~rf.rxen => rf'.mode = "off")
    BY <1>2, <2>1 DEF RadioType
  <2>3. \A i : ~Listening(i)
    BY <1>0, <2>1 DEF Listening, RadioLine
  <2>4. InSlot /\ driver => Machine'
    BY <1>0, <1>2, <2>1, <2>2, <2>3 DEF Machine, Acking, PendingNew
  <2>5. Inline'
    BY <1>0, <1>1, <1>2, <2>1, <2>2, <2>3 DEF Inline, Acking
  <2>6. DeliveryType' /\ FilterInv' /\ LegacyFilterInv' /\ CountInv'
    BY <1>0, <1>1, <2>1
    DEF DeliveryInv, DeliveryType, FilterInv, LegacyFilterInv, CountInv, Knows, Number
  <2> QED
    BY <1>0, <1>1, <2>4, <2>5, <2>6 DEF DeliveryInv
<1> QED
  BY <1>0, <1>3, <1>4, <1>5 DEF Air

\* DeliveryInv is inductive with the types of the engines, and a step hands out a
\* packet only as NoRepeat has it.
LEMMA DeliveryStep ==
  ASSUME QuietInv, PhaseInv, DeliveryInv, [Next]_vars, ~Torn'
  PROVE  /\ DeliveryInv'
         /\ Len(rx_queue') > Len(rx_queue) => \E p \in Pipes : got'[p] > got[p]
<1>0. Len(rx_queue) \in Nat /\ EngineType /\ IdleInv
  BY DEF DeliveryInv, DeliveryType, QuietInv
<1>1. CASE TsDiscardReceived
  <2>1. /\ rx_queue' = <<>>
        /\ UNCHANGED <<smVars, hdr, rf, peerVars, got, mpslVars, driver, saved, slotVars,
                       legacyVars>>
    BY <1>1 DEF TsDiscardReceived
  <2>2. DeliveryInv'
    BY <2>1
    DEF smVars, peerVars, mpslVars, slotVars, legacyVars, DeliveryInv, DeliveryType, FilterInv,
        LegacyFilterInv, LegacyLive, CountInv, SavedInv, Machine, Inline, Listening, Acking,
        Latest, PendingNew, Knows, Number, InSlot
  <2> QED
    BY <1>0, <2>1, <2>2
<1>2. CASE \/ Blocked \/ SessionIdle \/ SessionClosed \/ SetPrxDriver \/ RequestWindow
           \/ DropSession \/ RunReturns \/ DropRun
  BY <1>0, <1>2, TaskDelivers
<1>3. CASE (\E m \in Modes : OpenSession(m)) \/ RunPrxSlots \/ StartTimeslotPrx
  BY <1>0, <1>3, OpenDelivers
<1>4. CASE (InSlot /\ EndOfSlot) \/ Overstayed \/ InvalidReturn
  BY <1>0, <1>4, EndDelivers
<1>5. CASE Start
  BY <1>0, <1>5, StartDelivers
<1>6. CASE RadioSignal
  BY <1>0, <1>6, RadioDelivers
<1>7. CASE Air
  BY <1>0, <1>7, AirDelivers
<1>8. ASSUME UNCHANGED <<prxVars, mpsl, closing, driver, saved, done, legacyVars>>
             \/ (/\ InSlot /\ InSlot' /\ UNCHANGED closing
                 /\ UNCHANGED <<prxVars, driver, saved, done, legacyVars>>)
      PROVE  DeliveryInv' /\ UNCHANGED rx_queue
  <2>1. (InSlot' <=> InSlot) /\ (LegacyLive' => LegacyLive) /\ SavedInv'
    BY <1>8 DEF InSlot, LegacyLive, DeliveryInv, SavedInv, legacyVars, prxVars, smVars
  <2> QED
    BY <1>8, <2>1
    DEF prxVars, poolVars, smVars, peerVars, legacyVars, DeliveryInv, DeliveryType, FilterInv,
        LegacyFilterInv, CountInv, Machine, Inline, Listening, Acking,
        Latest, PendingNew, Knows, Number
<1>9. CASE Timer0 \/ ExtendSucceeded \/ ExtendFailed
  <2>1. UNCHANGED closing
    BY <1>9 DEF Timer0, ExtendSucceeded, ExtendFailed, EndOfSlot
  <2> QED
    BY <1>0, <1>4, <1>8, <1>9, <2>1, SlotEndCases
<1>10. CASE UNCHANGED vars
  BY <1>0, <1>8, <1>10 DEF vars, mpslVars, slotVars
<1> QED
  BY <1>1, <1>2, <1>3, <1>4, <1>5, <1>6, <1>7, <1>9, <1>10, Steps DEF Aside, Task

\* No step both counts a packet and sends one.
LEMMA CountedOrSent ==
  ASSUME Next
  PROVE  UNCHANGED sent \/ UNCHANGED rx_per_pipe
<1>1. CASE Air
  BY <1>1 DEF Air
<1>2. CASE TsDiscardReceived \/ Blocked \/ SessionIdle \/ InvalidReturn \/ SessionClosed
  BY <1>2 DEF TsDiscardReceived, Blocked, SessionIdle, InvalidReturn, SessionClosed, legacyVars
<1>3. CASE Task
  BY <1>3 DEF Task, OpenSession, RunPrxSlots, StartTimeslotPrx, ResetRuntime, SetPrxDriver,
       RequestWindow, DropSession, RunReturns, DropRun, CloseRun, legacyVars, prxVars, peerVars
<1>4. CASE Start \/ Overstayed
  BY <1>4 DEF Start, Overstayed
<1>5. CASE RadioSignal
  BY <1>5 DEF RadioSignal, ConvergedRadio, LegacyRadio, legacyVars, peerVars
<1>6. CASE Timer0 \/ ExtendSucceeded \/ ExtendFailed
  BY <1>6, SlotEndCases DEF EndOfSlot, legacyVars
<1> QED
  BY <1>1, <1>2, <1>3, <1>4, <1>5, <1>6, Steps DEF Aside

\* What has gone wrong with a driver in a slot stays on record.
LEMMA TornStays ==
  ASSUME [Next]_vars
  PROVE  ("late_driver" \in lapses => "late_driver" \in lapses')
         /\ ("drop" \in lapses => "drop" \in lapses')
<1>1. CASE TsDiscardReceived \/ Blocked \/ SessionIdle \/ InvalidReturn \/ SessionClosed \/ Air
  BY <1>1 DEF TsDiscardReceived, Blocked, SessionIdle, InvalidReturn, SessionClosed, Air
<1>2. CASE Task
  BY <1>2 DEF Task, OpenSession, RunPrxSlots, StartTimeslotPrx, ResetRuntime, SetPrxDriver,
       RequestWindow, DropSession, RunReturns, DropRun, CloseRun
<1>3. CASE Start \/ Overstayed
  BY <1>3 DEF Start, Overstayed
<1>4. CASE RadioSignal
  <2>1. CASE ConvergedRadio
    BY <2>1 DEF ConvergedRadio
  <2>2. CASE LegacyRadio
    BY <2>2 DEF LegacyRadio, LegacyBadCrc, LegacyDup, LegacyNew, LegacyAckSent, LegacyIgnored,
         LegacyAck
  <2> QED
    BY <1>4, <2>1, <2>2 DEF RadioSignal
<1>5. CASE Timer0 \/ ExtendSucceeded \/ ExtendFailed
  <2>1. EndOfSlot \/ UNCHANGED lapses
    BY <1>5, SlotEndCases
  <2> QED
    BY <2>1 DEF EndOfSlot, Finalize
<1>6. CASE UNCHANGED vars
  BY <1>6 DEF vars
<1> QED
  BY <1>1, <1>2, <1>3, <1>4, <1>5, <1>6, Steps DEF Aside

\* PhaseInv is inductive: a slot that ends stops the engine it is of.
LEMMA PhaseStep == PhaseInv /\ [Next]_vars => PhaseInv'
<1> SUFFICES ASSUME PhaseInv, [Next]_vars PROVE PhaseInv'
  OBVIOUS
<1>0. "late_driver" \in lapses => "late_driver" \in lapses'
  BY TornStays
<1>1. CASE TsDiscardReceived \/ Blocked \/ SessionIdle \/ SessionClosed \/ Air
  <2>1. UNCHANGED <<phase, driver>> /\ (InSlot => InSlot')
    BY <1>1 DEF TsDiscardReceived, Blocked, SessionIdle, SessionClosed, Air, InSlot, mpslVars,
         legacyVars
  <2> QED
    BY <1>0, <2>1 DEF PhaseInv
<1>2. CASE (InSlot /\ EndOfSlot) \/ Overstayed \/ InvalidReturn
  <2>1. \E r : StopEngine(r)
    BY <1>2 DEF EndOfSlot, Overstayed, InvalidReturn
  <2>2. phase' = "Idle" \/ (driver /\ phase' = phase)
    BY <2>1 DEF StopEngine
  <2> QED
    BY <1>0, <2>2 DEF PhaseInv
<1>3. CASE (\E m \in Modes : OpenSession(m)) \/ RunPrxSlots \/ StartTimeslotPrx
  BY <1>3 DEF OpenSession, RunPrxSlots, StartTimeslotPrx, ResetRuntime, PhaseInv
<1>4. CASE SetPrxDriver
  BY <1>4 DEF SetPrxDriver, PhaseInv
<1>5. CASE RequestWindow \/ DropSession \/ RunReturns \/ DropRun
  <2>1. phase' = phase /\ (driver' => driver) /\ (InSlot' <=> InSlot)
    BY <1>5 DEF RequestWindow, DropSession, RunReturns, DropRun, CloseRun, InSlot, legacyVars
  <2> QED
    BY <1>0, <2>1 DEF PhaseInv
<1>6. CASE Start
  <2>1. InSlot' /\ ~InSlot /\ driver' = driver
    BY <1>6 DEF Start, InSlot
  <2>2. driver => phase' = phase
    BY <1>6 DEF Start, TsStartRx
  <2> QED
    BY <1>0, <2>1, <2>2 DEF PhaseInv
<1>7. CASE RadioSignal
  <2>1. InSlot' /\ driver' = driver
    BY <1>7 DEF RadioSignal, InSlot, mpslVars
  <2>2. ~driver \/ phase' = phase
    BY <1>7 DEF RadioSignal, ConvergedRadio, LegacyRadio, legacyVars
  <2> QED
    BY <1>0, <2>1, <2>2 DEF PhaseInv
<1>8. CASE Timer0 \/ ExtendSucceeded \/ ExtendFailed
  <2>1. CASE InSlot' /\ UNCHANGED <<driver, legacyVars>>
    BY <1>0, <2>1 DEF PhaseInv, legacyVars
  <2> QED
    BY <1>2, <1>8, <2>1, SlotEndCases
<1>9. CASE UNCHANGED vars
  BY <1>9 DEF vars, PhaseInv, InSlot, mpslVars, legacyVars
<1> QED
  BY <1>1, <1>2, <1>3, <1>4, <1>5, <1>6, <1>7, <1>8, <1>9, Steps DEF Aside, Task

\* Before any packet
LEMMA InitDelivers == TimeslotPrxInit => DeliveryInv
<1> SUFFICES ASSUME TimeslotPrxInit PROVE DeliveryInv
  OBVIOUS
<1>1. /\ rx_queue = <<>> /\ state = "Idle"
      /\ last = [p \in Pipes |-> NoLast] /\ saved = [p \in Pipes |-> NoLast]
      /\ legacy_last = [p \in Pipes |-> NoLast] /\ driver = FALSE /\ phase = "Idle"
      /\ hdr = [i \in Buf |-> [pipe |-> CHOOSE p \in Pipes : TRUE, seq |-> 0,
                               no_ack |-> FALSE]]
      /\ rx_buf = [pipe |-> CHOOSE p \in Pipes : TRUE, seq |-> 0, no_ack |-> FALSE]
      /\ sent = [p \in Pipes |-> -1] /\ got = [p \in Pipes |-> -1]
      /\ sent_no_ack = [p \in Pipes |-> FALSE] /\ rx_per_pipe = [p \in Pipes |-> 0]
  BY DEF TimeslotPrxInit, NewTimeslotDriver, Init, PoolInit, AnyPipe
<1>2. (CHOOSE p \in Pipes : TRUE) \in Pipes /\ 0 \in 0 .. MaxSeq /\ -1 \in -1 .. MaxSeq
  BY PrxAssumption
<1>3. NoLast \in LastType /\ ~NoLast.valid
  <2>1. 0 \in 0 .. 3
    OBVIOUS
  <2>2. <<0, FALSE>> \in (0 .. 3) \X BOOLEAN
    BY <2>1, Zenon
  <2> QED
    BY <2>1, <2>2 DEF NoLast, LastType
<1>4. DeliveryType
  BY <1>1, <1>2, <1>3 DEF DeliveryType, Header
<1>5. FilterInv /\ LegacyFilterInv /\ CountInv
  <2>1. \A p \in Pipes : /\ ~last[p].valid /\ ~legacy_last[p].valid
                         /\ sent[p] = -1 /\ got[p] = -1 /\ rx_per_pipe[p] = 0
    BY <1>1, <1>3
  <2>2. \A p \in Pipes : Number(last, p) = -1 /\ Number(legacy_last, p) = -1
    BY <2>1 DEF Number
  <2>3. \A p \in Pipes : Knows(last, p) /\ Knows(legacy_last, p)
    BY <2>1 DEF Knows
  <2> QED
    BY <2>1, <2>2, <2>3 DEF FilterInv, LegacyFilterInv, CountInv
<1> QED
  BY <1>1, <1>4, <1>5 DEF DeliveryInv, SavedInv, Inline

\* The inductive invariant behind NoRepeat.
THEOREM TimeslotPrxDelivery == Spec => [](QuietInv /\ PhaseInv /\ (Torn \/ DeliveryInv))
<1>1. TimeslotPrxInit => DeliveryInv
  BY InitDelivers
<1>2. TimeslotPrxInit => PhaseInv
  BY DEF TimeslotPrxInit, PhaseInv
<1>3. QuietInv /\ PhaseInv /\ (Torn \/ DeliveryInv) /\ [Next]_vars => (Torn \/ DeliveryInv)'
  <2> SUFFICES ASSUME QuietInv, PhaseInv, Torn \/ DeliveryInv, [Next]_vars, ~Torn'
               PROVE  DeliveryInv'
    OBVIOUS
  <2>1. ~Torn
    BY TornStays DEF Torn
  <2> QED
    BY <2>1, DeliveryStep
<1> QED
  BY <1>1, <1>2, <1>3, PhaseStep, TimeslotPrxQuietInvariant, PTL DEF Spec

\* Neither engine hands a packet out twice in a session, whatever slots end between
\* the packet and its repeat, until a session has got its driver in a slot and one
\* has been dropped in a slot.
THEOREM TimeslotPrxNoRepeat == Spec => NoRepeat
<1> DEFINE Once == ~Torn' =>
      /\ Len(rx_queue') > Len(rx_queue) => \E p \in Pipes : got'[p] > got[p]
      /\ \A p \in Pipes : rx_per_pipe'[p] <= sent[p] + 1
           Inv == QuietInv /\ PhaseInv /\ (Torn \/ DeliveryInv)
<1>1. Inv /\ Inv' /\ [Next]_vars => [Once]_vars
  <2> SUFFICES ASSUME QuietInv, PhaseInv, Torn \/ DeliveryInv, Torn' \/ DeliveryInv', Next, ~Torn'
               PROVE  Once
    BY DEF vars
  <2>0. DeliveryInv /\ DeliveryInv'
    BY TornStays DEF Torn
  <2>1. Len(rx_queue') > Len(rx_queue) => \E p \in Pipes : got'[p] > got[p]
    BY <2>0, DeliveryStep
  <2>2. \A p \in Pipes : rx_per_pipe'[p] <= sent[p] + 1
    BY <2>0, CountedOrSent DEF DeliveryInv, CountInv
  <2> QED
    BY <2>1, <2>2
<1> QED
  BY <1>1, TimeslotPrxDelivery, PTL DEF Spec, NoRepeat

-----------------------------------------------------------------------------
(* Types                                                                   *)

\* The state of MPSL, the counts of a session and the histories; an extension is
\* asked for only while there is one left.
SessionType ==
  /\ state \in StatePrx /\ phase \in PrxPhase
  /\ mpsl \in {"closed", "idle", "requested", "slot", "extending"}
  /\ extend_count \in 0 .. MaxExtends
  /\ mpsl = "extending" => extend_count < MaxExtends
  /\ starts \in 0 .. Target /\ budget \in 0 .. FastRefill
  /\ last_request_kind \in {"earliest", "normal"}
  /\ mode \in {"finite", "auto", "parked"} /\ hinted \in {"none", "fast", "parked"}
  /\ lapses \subseteq {"overstayed", "invalid_return", "fast_distance", "drop",
                     "late_driver", "unhinted"}

\* The types of what has been received, in every state: the state machine receives
\* into a buffer, whatever slot it goes on in.
KindInv ==
  /\ rx_queue \in Seq(Buf) /\ hdr \in [Buf -> Header] /\ rx_buf \in Header
  /\ last \in [Pipes -> LastType] /\ saved \in [Pipes -> LastType]
  /\ legacy_last \in [Pipes -> LastType] /\ rx_per_pipe \in [Pipes -> Nat]
  /\ state = "Receiver" => rx_idx \in Buf

\* What a filter records of a packet
LEMMA RecordType ==
  ASSUME NEW h \in Header
  PROVE  [valid |-> TRUE, pid |-> Pid(h.seq), crc |-> Crc(h)] \in LastType
<1>1. h.seq \in 0 .. 3 /\ Pid(h.seq) = h.seq /\ h.no_ack \in BOOLEAN
  BY PidIsNumber DEF Header
<1>2. Crc(h) \in (0 .. 3) \X BOOLEAN
  BY <1>1 DEF Crc
<1> QED
  BY <1>1, <1>2 DEF LastType

\* One run of the handler
LEMMA HandlerKind ==
  ASSUME EngineType, KindInv, HandleRadioEvent
  PROVE  /\ rx_queue' \in Seq(Buf) /\ hdr' \in [Buf -> Header]
         /\ last' \in [Pipes -> LastType]
         /\ state' = "Receiver" => rx_idx' \in Buf
<1>0. rf.rxmatch \in Pipes /\ Buf \subseteq Opt /\ EngineType'
  BY SeenType, HandlerDma DEF Opt
<1>1. ASSUME NEW p \in [Buf -> BufState], ReceiveAfterAck(p)
      PROVE  state' = "Receiver" => rx_idx' \in Buf
  BY <1>0, <1>1 DEF ReceiveAfterAck, EngineType, Opt
<1>2. ASSUME rx_idx \in Buf, UpdateDetection(rf.rxmatch, hdr[rx_idx])
      PROVE  hdr' \in [Buf -> Header] /\ last' \in [Pipes -> LastType]
  <2>1. hdr[rx_idx] \in Header
    BY <1>2 DEF KindInv
  <2>2. last' \in [Pipes -> LastType]
    BY <1>0, <1>2, <2>1, RecordType DEF UpdateDetection, KindInv
  <2>3. hdr' \in [Buf -> Header]
    BY <1>0, <1>2, <2>1 DEF UpdateDetection, KindInv, Header
  <2> QED
    BY <2>2, <2>3
<1>3. ASSUME NEW i \in Buf, Deliver(i)
      PROVE  rx_queue' \in Seq(Buf)
  BY <1>3, RxSendType DEF Deliver, KindInv
<1>4. CASE IgnoreUserEvent \/ OnBadCrc
  BY <1>4 DEF IgnoreUserEvent, OnBadCrc, KindInv, poolVars, smVars
<1>5. CASE OnDuplicateNoAck
  BY <1>5, ChoiceType DEF OnDuplicateNoAck, Packet, KindInv, EngineType
<1>6. CASE OnDuplicate
  BY <1>6 DEF OnDuplicate, KindInv
<1>7. CASE OnNewNoAck
  <2>1. rx_idx \in Buf /\ (state' = "Receiver" => rx_idx' # NoIdx)
    BY <1>7 DEF OnNewNoAck, Packet, KindInv
  <2> QED
    BY <1>0, <1>2, <1>3, <1>7, <2>1 DEF OnNewNoAck, EngineType, Opt
<1>8. CASE OnNew
  BY <1>2, <1>8 DEF OnNew, Packet, KindInv
<1>9. CASE OnAckSent
  <2>1. CASE pending_rx_idx # NoIdx
    <3>1. pending_rx_idx \in Buf
      BY <2>1 DEF EngineType, Opt
    <3>2. RxComplete(pool, pending_rx_idx) \in [Buf -> BufState]
      BY <1>0, <3>1, StoreDma DEF EngineType
    <3> QED
      BY <1>1, <1>3, <1>9, <2>1, <3>1, <3>2 DEF OnAckSent, KindInv
  <2>2. CASE pending_rx_idx = NoIdx
    BY <1>1, <1>9, <2>2 DEF OnAckSent, KindInv, EngineType
  <2> QED
    BY <2>1, <2>2
<1>10. CASE OnRepeatedAckSent
  BY <1>1, <1>10 DEF OnRepeatedAckSent, KindInv, EngineType
<1>11. CASE OnIdle
  BY <1>0, <1>11 DEF OnIdle, StartListening, KindInv, EngineType, Opt
<1> QED
  BY <1>4, <1>5, <1>6, <1>7, <1>8, <1>9, <1>10, <1>11 DEF HandleRadioEvent

\* A radio event, whichever engine it is for
LEMMA RadioKind ==
  ASSUME EngineType, KindInv, RadioSignal
  PROVE  KindInv'
<1>1. CASE ConvergedRadio
  <2>1. UNCHANGED <<saved, rx_buf, legacy_last, rx_per_pipe>>
    BY <1>1 DEF ConvergedRadio, RadioSignal, legacyVars
  <2>2. CASE state = "Idle"
    BY <1>1, <2>1, <2>2
    DEF ConvergedRadio, TsOnRadio, KindInv, prxVars, poolVars, smVars
  <2>3. CASE state # "Idle"
    BY <1>1, <2>1, <2>3, HandlerKind DEF ConvergedRadio, TsOnRadio, KindInv
  <2> QED
    BY <2>2, <2>3
<1>2. CASE LegacyRadio
  <2>1. UNCHANGED <<rx_queue, hdr, last, saved, state, rx_idx, rx_buf>>
    BY <1>2 DEF LegacyRadio, RadioSignal, LegacyBadCrc, LegacyDup, LegacyNew, LegacyAckSent,
         LegacyIgnored, legacyVars, poolVars, smVars
  <2>2. UNCHANGED <<legacy_last, rx_per_pipe>> \/ LegacyNew
    BY <1>2 DEF LegacyRadio, LegacyBadCrc, LegacyDup, LegacyAckSent, LegacyIgnored, legacyVars
  <2>3. ASSUME LegacyNew
        PROVE  legacy_last' \in [Pipes -> LastType] /\ rx_per_pipe' \in [Pipes -> Nat]
    <3>1. rf.rxmatch \in Pipes /\ rx_buf \in Header
      BY SeenType DEF KindInv
    <3>2. legacy_last' \in [Pipes -> LastType]
      BY <2>3, <3>1, RecordType DEF LegacyNew, KindInv
    <3>3. rx_per_pipe' \in [Pipes -> Nat]
      BY <2>3, <3>1 DEF LegacyNew, KindInv
    <3> QED
      BY <3>2, <3>3
  <2> QED
    BY <2>1, <2>2, <2>3 DEF KindInv
<1> QED
  BY <1>1, <1>2 DEF RadioSignal

\* What EasyDMA writes is a header.
LEMMA AirKind ==
  ASSUME KindInv, Air
  PROVE  KindInv'
<1>0. UNCHANGED <<rx_queue, last, saved, legacy_last, rx_per_pipe, state, rx_idx>>
  BY DEF Air, TimeslotReceive, Miss, AckSent, poolVars, smVars
<1>1. hdr' \in [Buf -> Header] /\ rx_buf' \in Header
  <2>1. CASE UNCHANGED <<hdr, rx_buf>>
    BY <2>1 DEF KindInv
  <2>2. ASSUME NEW p \in Pipes, TimeslotReceive(p)
        PROVE  hdr' \in [Buf -> Header] /\ rx_buf' \in Header
    <3>1. PICK n \in 0 .. MaxSeq, na \in BOOLEAN :
            IF rf.ptr \in Buf
            THEN /\ hdr' = [hdr EXCEPT ![rf.ptr].seq = n, ![rf.ptr].no_ack = na]
                 /\ UNCHANGED rx_buf
            ELSE /\ rx_buf' = [pipe |-> p, seq |-> n, no_ack |-> na]
                 /\ UNCHANGED hdr
      BY <2>2 DEF TimeslotReceive
    <3>2. hdr \in [Buf -> Header] /\ rx_buf \in Header
      BY DEF KindInv
    <3>3. CASE rf.ptr \in Buf
      <4>1. hdr' = [hdr EXCEPT ![rf.ptr].seq = n, ![rf.ptr].no_ack = na] /\ rx_buf' = rx_buf
        BY <3>1, <3>3
      <4>2. hdr' \in [Buf -> Header]
        BY <3>2, <3>3, <4>1 DEF Header
      <4> QED
        BY <3>2, <4>1, <4>2
    <3>4. CASE rf.ptr \notin Buf
      BY <3>1, <3>2, <3>4 DEF Header
    <3> QED
      BY <3>3, <3>4
  <2> QED
    BY <2>1, <2>2 DEF Air, Miss, AckSent
<1> QED
  BY <1>0, <1>1 DEF KindInv

\* KindInv is inductive with the types of the engines.
LEMMA KindStep == EngineType /\ KindInv /\ [Next]_vars => KindInv'
<1> SUFFICES ASSUME EngineType, KindInv, [Next]_vars PROVE KindInv'
  OBVIOUS
<1>1. CASE TsDiscardReceived
  BY <1>1 DEF TsDiscardReceived, KindInv, smVars, legacyVars
<1>2. CASE Blocked \/ SessionIdle \/ SessionClosed \/ RequestWindow \/ DropSession
           \/ RunReturns \/ DropRun \/ UNCHANGED vars
  <2>1. UNCHANGED <<prxVars, saved, legacyVars>>
    BY <1>2 DEF Blocked, SessionIdle, SessionClosed, RequestWindow, DropSession, RunReturns,
         DropRun, CloseRun, vars
  <2> QED
    BY <2>1 DEF KindInv, prxVars, poolVars, smVars, legacyVars
<1>3. CASE (\E m \in Modes : OpenSession(m)) \/ RunPrxSlots \/ StartTimeslotPrx \/ SetPrxDriver
  <2>1. UNCHANGED prxVars /\ UNCHANGED rx_buf
        /\ (rx_per_pipe' = rx_per_pipe \/ rx_per_pipe' = [p \in Pipes |-> 0])
        /\ (NoDriver \/ (saved' = last /\ legacy_last' = last))
    BY <1>3 DEF OpenSession, RunPrxSlots, StartTimeslotPrx, SetPrxDriver, ResetRuntime
  <2>2. NoLast \in LastType
    <3>1. <<0, FALSE>> \in (0 .. 3) \X BOOLEAN
      <4>1. 0 \in 0 .. 3
        OBVIOUS
      <4> QED
        BY <4>1, Zenon
    <3> QED
      BY <3>1 DEF NoLast, LastType
  <2> QED
    BY <2>1, <2>2 DEF NoDriver, KindInv, prxVars, poolVars, smVars
<1>4. CASE (InSlot /\ EndOfSlot) \/ Overstayed \/ InvalidReturn
  <2>1. /\ \E r : StopEngine(r)
        /\ UNCHANGED <<rx_buf, legacy_last, rx_per_pipe>>
        /\ saved' = saved \/ saved' = last
    BY <1>4 DEF EndOfSlot, Overstayed, InvalidReturn, Snapshot
  <2>2. UNCHANGED <<rx_queue, hdr, last>> /\ (state' = "Receiver" => state = state' /\ rx_idx' = rx_idx)
    BY <2>1 DEF StopEngine, poolVars, smVars
  <2> QED
    BY <2>1, <2>2 DEF KindInv
<1>5. CASE Start
  <2>1. UNCHANGED <<rx_queue, hdr, saved, rx_buf, legacy_last, rx_per_pipe>>
    BY <1>5 DEF Start, TsStartRx, LegacyStart, poolVars
  <2>2. (last' = last \/ last' = saved) /\ (state' = "Receiver" => rx_idx' \in Buf)
    BY <1>5, ChoiceType DEF Start, TsStartRx, LegacyStart, SavedDetection, smVars, EngineType, KindInv
  <2> QED
    BY <2>1, <2>2 DEF KindInv
<1>6. CASE RadioSignal
  BY <1>6, RadioKind
<1>7. CASE Air
  BY <1>7, AirKind
<1>8. CASE Timer0 \/ ExtendSucceeded \/ ExtendFailed
  <2>1. CASE UNCHANGED <<prxVars, saved, legacyVars>>
    BY <2>1 DEF KindInv, prxVars, poolVars, smVars, legacyVars
  <2> QED
    BY <1>4, <1>8, <2>1, SlotEndCases
<1> QED
  BY <1>1, <1>2, <1>3, <1>4, <1>5, <1>6, <1>7, <1>8, Steps DEF Aside, Task

\* The end of a slot, for its own count of extensions
LEMMA EndSession ==
  ASSUME SessionType, EndOfSlot, extend_count' \in 0 .. MaxExtends
  PROVE  SessionType'
<1>1. /\ starts' = starts /\ mode' = mode /\ hinted' = "none"
      /\ Finalize /\ StopEngine(Quiesced(rf))
  BY DEF EndOfSlot, Finalize
<1>2. state' \in StatePrx /\ phase' \in PrxPhase
  BY <1>1 DEF StopEngine, SessionType, StatePrx, PrxPhase, smVars
<1>3. budget \in Nat /\ budget <= FastRefill /\ FastRefill \in Nat
  BY TimeslotPrxAssumption DEF SessionType
<1>4. /\ budget' = budget \/ (budget > 0 /\ budget' = budget - 1) \/ budget' = 0
      /\ mpsl' \in {"idle", "requested"}
      /\ last_request_kind' = last_request_kind \/ last_request_kind' = "normal"
      /\ lapses' = lapses \/ lapses' = lapses \cup {"fast_distance"}
  BY <1>1 DEF Finalize, RequestNormal, EndSlot, SpendFastBudget
<1>5. budget' \in 0 .. FastRefill
  BY <1>3, <1>4
<1> QED
  BY <1>1, <1>2, <1>4, <1>5 DEF SessionType

\* A radio event moves an engine and the budget.
LEMMA RadioSession ==
  ASSUME SessionType, RadioSignal
  PROVE  SessionType'
<1>1. /\ UNCHANGED <<mpsl, extend_count, starts, last_request_kind, mode>>
  BY DEF RadioSignal, mpslVars, slotVars
<1>2. CASE ConvergedRadio
  <2>1. state' \in StatePrx
    <3>1. CASE state = "Idle"
      BY <1>2, <3>1 DEF ConvergedRadio, TsOnRadio, SessionType, prxVars, smVars
    <3>2. CASE state # "Idle"
      <4>1. HandleRadioEvent
        BY <1>2, <3>2 DEF ConvergedRadio, TsOnRadio
      <4> QED
        BY <4>1 DEF HandleRadioEvent, IgnoreUserEvent, OnBadCrc, OnDuplicateNoAck, OnDuplicate,
             OnNewNoAck, OnNew, OnAckSent, OnRepeatedAckSent, OnIdle, StartListening,
             ReceiveAfterAck, SessionType, StatePrx, smVars
    <3> QED
      BY <3>1, <3>2
  <2> QED
    BY <1>1, <1>2, <2>1 DEF ConvergedRadio, SessionType, legacyVars
<1>3. CASE LegacyRadio
  <2>1. FastRefill \in Nat
    BY TimeslotPrxAssumption
  <2>2. /\ budget' = budget \/ budget' = FastRefill
        /\ hinted' = hinted \/ hinted' \in {"none", "fast", "parked"}
        /\ phase' = phase \/ phase' \in {"TxAck", "TxRepeatedAck", "Receiving"}
        /\ state' = state /\ lapses' \subseteq lapses \cup {"unhinted"}
    BY <1>3 DEF LegacyRadio, LegacyBadCrc, LegacyDup, LegacyNew, LegacyAckSent, LegacyIgnored,
         LegacyAck, SchedulePeriod, RefillFastBudget, legacyVars, smVars
  <2> QED
    BY <1>1, <2>1, <2>2 DEF SessionType, PrxPhase
<1> QED
  BY <1>2, <1>3 DEF RadioSignal

\* What a task does
LEMMA TaskSession ==
  ASSUME SessionType, Task
  PROVE  SessionType'
<1>1. CASE (\E m \in Modes : OpenSession(m)) \/ RunPrxSlots \/ StartTimeslotPrx
  <2>1. /\ UNCHANGED <<state, hinted, budget>> /\ phase' = "Idle" /\ extend_count' = 0
        /\ starts' = 0 /\ last_request_kind' = "earliest"
        /\ mpsl' \in {"idle", "requested"}
        /\ lapses' = lapses \ {"invalid_return", "fast_distance"}
    BY <1>1 DEF OpenSession, RunPrxSlots, StartTimeslotPrx, ResetRuntime, FirstRequest,
         prxVars, smVars
  <2>2. mode' \in {"finite", "auto", "parked"}
    BY <1>1, TimeslotPrxAssumption
    DEF OpenSession, RunPrxSlots, StartTimeslotPrx, ResetRuntime
  <2>3. 0 \in 0 .. Target /\ 0 \in 0 .. MaxExtends
    BY TimeslotPrxAssumption
  <2> QED
    BY <2>1, <2>2, <2>3 DEF SessionType, PrxPhase
<1>2. CASE SetPrxDriver
  BY <1>2 DEF SetPrxDriver, SessionType, prxVars, smVars, mpslVars, slotVars
<1>3. CASE RequestWindow
  BY <1>3 DEF RequestWindow, RequestEarliest, SessionType, prxVars, smVars, legacyVars
<1>4. CASE DropSession
  BY <1>4 DEF DropSession, SessionType, prxVars, smVars, legacyVars
<1>5. CASE RunReturns \/ DropRun
  BY <1>5 DEF RunReturns, DropRun, CloseRun, SessionType, prxVars, smVars, slotVars, legacyVars
<1> QED
  BY <1>1, <1>2, <1>3, <1>4, <1>5 DEF Task

\* SessionType is inductive.
LEMMA SessionStep == SessionType /\ [Next]_vars => SessionType'
<1> SUFFICES ASSUME SessionType, [Next]_vars PROVE SessionType'
  OBVIOUS
<1>1. CASE TsDiscardReceived
  BY <1>1 DEF TsDiscardReceived, SessionType, smVars, mpslVars, slotVars, legacyVars
<1>2. CASE Blocked \/ SessionIdle \/ SessionClosed
  BY <1>2
  DEF Blocked, RequestEarliest, SessionIdle, SessionClosed, SessionType, prxVars, smVars,
      legacyVars
<1>3. CASE Overstayed \/ InvalidReturn
  <2>1. /\ mpsl' = "idle" /\ UNCHANGED <<extend_count, starts, last_request_kind, budget, mode>>
        /\ hinted' = hinted \/ hinted' = "none"
        /\ lapses' = lapses \cup {"overstayed"} \/ lapses' = lapses \cup {"invalid_return"}
        /\ StopEngine(IF driver THEN Stop(rf) ELSE rf)
    BY <1>3 DEF Overstayed, InvalidReturn
  <2>2. state' \in StatePrx /\ phase' \in PrxPhase
    BY <2>1 DEF StopEngine, SessionType, StatePrx, PrxPhase, smVars
  <2> QED
    BY <2>1, <2>2 DEF SessionType
<1>4. CASE Task
  BY <1>4, TaskSession
<1>5. CASE Air
  BY <1>5 DEF Air, TimeslotReceive, Miss, AckSent, SessionType, smVars, mpslVars, slotVars
<1>6. CASE Start
  <2>1. /\ mpsl' = "slot" /\ extend_count' = 0 /\ hinted' = "none"
        /\ starts' = CountStart /\ lapses' = lapses \ {"overstayed", "unhinted"}
        /\ UNCHANGED <<last_request_kind, budget, mode>>
    BY <1>6 DEF Start
  <2>2. starts' \in 0 .. Target /\ 0 \in 0 .. MaxExtends
    BY <2>1, TimeslotPrxAssumption DEF CountStart, SessionType
  <2>3. state' \in StatePrx /\ phase' \in PrxPhase
    BY <1>6 DEF Start, TsStartRx, LegacyStart, SessionType, StatePrx, PrxPhase, smVars
  <2> QED
    BY <2>1, <2>2, <2>3 DEF SessionType
<1>7. CASE RadioSignal
  BY <1>7, RadioSession
<1>8. CASE Timer0
  <2>1. CASE extend_count < MaxExtends
    BY <1>8, <2>1 DEF Timer0, SessionType, prxVars, smVars, slotVars, legacyVars
  <2>2. CASE ~(extend_count < MaxExtends)
    BY <1>8, <2>2, EndSession DEF Timer0, SessionType
  <2> QED
    BY <2>1, <2>2
<1>9. CASE ExtendSucceeded
  <2>1. extend_count' \in 0 .. MaxExtends
    BY <1>9, TimeslotPrxAssumption DEF ExtendSucceeded, SessionType
  <2>2. CASE EndOfSlot
    BY <2>1, <2>2, EndSession
  <2>3. CASE mpsl' = "slot" /\ UNCHANGED <<prxVars, starts, last_request_kind, legacyVars, budget,
                                           mode, lapses>>
    BY <2>1, <2>3 DEF SessionType, prxVars, smVars, legacyVars
  <2> QED
    BY <1>9, <2>2, <2>3 DEF ExtendSucceeded
<1>10. CASE ExtendFailed
  BY <1>10, EndSession DEF ExtendFailed, SessionType
<1>11. CASE UNCHANGED vars
  BY <1>11 DEF vars, SessionType, prxVars, smVars, mpslVars, slotVars, legacyVars
<1> QED
  BY <1>1, <1>2, <1>3, <1>4, <1>5, <1>6, <1>7, <1>8, <1>9, <1>10, <1>11, Steps DEF Aside

\* Type correctness
THEOREM TimeslotPrxTypeCorrect == Spec => []TypeOK
<1>1. TimeslotPrxInit => SessionType
  <2>1. 0 \in 0 .. MaxExtends /\ 0 \in 0 .. Target /\ 0 \in 0 .. FastRefill
    BY TimeslotPrxAssumption
  <2> QED
    BY <2>1 DEF TimeslotPrxInit, NewTimeslotDriver, Init, SessionType, StatePrx, PrxPhase
<1>2. TimeslotPrxInit => KindInv
  <2> SUFFICES ASSUME TimeslotPrxInit PROVE KindInv
    OBVIOUS
  <2>1. DeliveryType /\ state = "Idle"
    BY InitDelivers DEF DeliveryInv, TimeslotPrxInit, NewTimeslotDriver, Init
  <2> QED
    BY <2>1 DEF DeliveryType, KindInv
<1>3. SessionType /\ EngineType /\ KindInv => TypeOK
  <2> SUFFICES ASSUME SessionType, EngineType, KindInv PROVE TypeOK
    OBVIOUS
  <2>1. rf.mode \in {"off", "rx", "tx"} /\ rf.ptr \in Opt
    BY DEF EngineType, RadioType
  <2> QED
    BY <2>1 DEF TypeOK, SessionType, EngineType, KindInv, Header
<1>4. QuietInv => EngineType
  BY DEF QuietInv
<1> QED
  BY <1>1, <1>2, <1>3, <1>4, SessionStep, KindStep, TimeslotPrxQuietInvariant, PTL DEF Spec

-----------------------------------------------------------------------------
(* The windows keep coming: what their liveness rests on                   *)

\* A slot is asked for or lasts.
AtWork == mpsl = "requested" \/ InSlot

\* A session that is owned and neither done nor lost has a slot, has asked for
\* one, or is parked and its next request_window is not turned away by the flags
\* of a window that is over.
NoneStranded ==
  owned /\ ~AtWork =>
    \/ done \/ Stranded
    \/ mode = "parked" /\ ~slot_active /\ ~request_outstanding

\* A session that is owned is open and not being closed, and the flag of a slot
\* does not outlive it.
WindowInv ==
  /\ closing => ~owned
  /\ owned => mpsl # "closed"
  /\ mpsl = "closed" => ~closing
  /\ slot_active => InSlot
  /\ NoneStranded

\* A step that leaves the session alone keeps the invariant.
LEMMA WindowFrame ==
  ASSUME WindowInv, UNCHANGED <<mpsl, closing, owned, mode, slot_active, done>>,
         lapses \subseteq lapses',
         AtWork \/ (request_outstanding' => request_outstanding)
  PROVE  WindowInv'
BY DEF WindowInv, NoneStranded, Stranded, AtWork, InSlot

\* The end of a slot asks for the next one, or leaves a session that is done,
\* lost, or parked and free to ask.
LEMMA EndWindow ==
  ASSUME WindowInv, TypeOK, InSlot, EndOfSlot
  PROVE  WindowInv'
<1>1. /\ ~slot_active' /\ UNCHANGED <<closing, owned, mode>> /\ Finalize
      /\ mode \in {"finite", "auto", "parked"}
  BY DEF EndOfSlot, Inactive, TypeOK
<1>2. CASE RequestNormal
  BY <1>1, <1>2 DEF RequestNormal, WindowInv, NoneStranded, AtWork, InSlot
<1>3. CASE ~Goes /\ EndSlot /\ "fast_distance" \in lapses'
  BY <1>1, <1>3 DEF EndSlot, Goes, WindowInv, NoneStranded, Stranded, InSlot
<1>4. CASE ~Goes /\ EndSlot /\ done' = (done \/ mode = "finite")
  BY <1>1, <1>4 DEF EndSlot, Goes, WindowInv, NoneStranded, InSlot
<1>5. RequestNormal \/ (~Goes /\ EndSlot /\ "fast_distance" \in lapses')
        \/ (~Goes /\ EndSlot /\ done' = (done \/ mode = "finite"))
  BY <1>1 DEF Finalize
<1> QED
  BY <1>2, <1>3, <1>4, <1>5

\* The other signals of MPSL keep the invariant: a blocked request is made again,
\* or the session is done, or it is parked and free to ask.
LEMMA SignalWindow ==
  ASSUME WindowInv, TypeOK,
         Start \/ RadioSignal \/ Overstayed \/ Blocked \/ SessionIdle \/ InvalidReturn
         \/ SessionClosed
  PROVE  WindowInv'
<1>0. mode \in {"finite", "auto", "parked"} /\ UNCHANGED <<owned, mode>>
  BY DEF TypeOK, Start, RadioSignal, Overstayed, Blocked, SessionIdle, InvalidReturn,
     SessionClosed
<1>1. CASE Start
  BY <1>0, <1>1 DEF Start, WindowInv, NoneStranded, AtWork, InSlot
<1>2. CASE RadioSignal
  <2>1. UNCHANGED <<mpsl, closing, slot_active, done>> /\ InSlot
    BY <1>2 DEF RadioSignal, mpslVars, slotVars
  <2> QED
    BY <1>0, <2>1 DEF WindowInv, NoneStranded, AtWork, InSlot
<1>3. CASE Overstayed
  BY <1>0, <1>3 DEF Overstayed, WindowInv, NoneStranded, AtWork, InSlot
<1>4. CASE Blocked
  <2>1. ~InSlot /\ UNCHANGED <<closing, slot_active>> /\ ~slot_active
    BY <1>4 DEF Blocked, InSlot, WindowInv
  <2>2. \/ mpsl' = "requested"
        \/ mpsl' = "idle" /\ mode = "parked" /\ ~request_outstanding'
        \/ mpsl' = "idle" /\ done'
    BY <1>4 DEF Blocked, BlockedOutstanding
  <2> QED
    BY <1>0, <2>1, <2>2 DEF WindowInv, NoneStranded, AtWork, InSlot
<1>5. CASE SessionIdle
  <2>1. UNCHANGED <<mpsl, closing, slot_active, done, lapses>> /\ ~request_outstanding'
    BY <1>5 DEF SessionIdle
  <2> QED
    BY <1>0, <2>1, WindowFrame
<1>6. CASE InvalidReturn
  BY <1>0, <1>6 DEF InvalidReturn, WindowInv, NoneStranded, Stranded, AtWork, InSlot
<1>7. CASE SessionClosed
  BY <1>0, <1>7 DEF SessionClosed, WindowInv, NoneStranded, InSlot
<1> QED
  BY <1>1, <1>2, <1>3, <1>4, <1>5, <1>6, <1>7

\* So do the calls of the task: a session opens with a request, or parked with
\* its flags reset.
LEMMA TaskWindow ==
  ASSUME WindowInv, Task
  PROVE  WindowInv'
<1>1. ASSUME NEW m, ResetRuntime(m),
             \/ FirstRequest
             \/ /\ m = "parked" /\ mpsl' = "idle" /\ owned' = TRUE
                /\ request_outstanding' = FALSE /\ UNCHANGED closing
      PROVE  WindowInv'
  BY <1>1 DEF ResetRuntime, FirstRequest, WindowInv, NoneStranded, AtWork, InSlot
<1>2. CASE (\E m \in Modes : OpenSession(m)) \/ RunPrxSlots \/ StartTimeslotPrx
  BY <1>1, <1>2 DEF OpenSession, RunPrxSlots, StartTimeslotPrx
<1>3. CASE SetPrxDriver
  <2>1. /\ UNCHANGED <<mpsl, closing, owned, mode, slot_active, done, request_outstanding>>
        /\ lapses \subseteq lapses'
    BY <1>3 DEF SetPrxDriver, mpslVars, slotVars
  <2> QED
    BY <2>1, WindowFrame
<1>4. CASE RequestWindow
  BY <1>4 DEF RequestWindow, WindowInv, NoneStranded, Stranded, AtWork, InSlot
<1>5. CASE DropSession \/ RunReturns \/ DropRun
  <2>1. owned /\ ~owned' /\ UNCHANGED <<mpsl, slot_active>>
    BY <1>5 DEF DropSession, RunReturns, DropRun, CloseRun, slotVars
  <2> QED
    BY <2>1 DEF WindowInv, NoneStranded, InSlot
<1> QED
  BY <1>2, <1>3, <1>4, <1>5 DEF Task

\* No session is stranded: whatever MPSL blocks, cancels or ends early, one that
\* is owned and not done has a slot or a request, or its task may make one; lost
\* is only what an invalid request or an invalid fast distance has ended.  That
\* the window comes in the end is the fairness of the runs (WindowsKeepComing).
THEOREM TimeslotPrxNoneStranded == Spec => []NoneStranded
<1>1. TimeslotPrxInit => WindowInv
  BY DEF TimeslotPrxInit, WindowInv, NoneStranded
<1>2. WindowInv /\ TypeOK /\ [Next]_vars => WindowInv'
  <2> SUFFICES ASSUME WindowInv, TypeOK, [Next]_vars PROVE WindowInv'
    OBVIOUS
  <2>1. CASE TsDiscardReceived \/ Air \/ UNCHANGED vars
    <3>1. UNCHANGED <<mpsl, closing, owned, mode, slot_active, done, lapses,
                      request_outstanding>>
      BY <2>1 DEF TsDiscardReceived, Air, vars, mpslVars, slotVars
    <3> QED
      BY <3>1, WindowFrame
  <2>2. CASE Timer0 \/ ExtendSucceeded \/ ExtendFailed
    <3>1. CASE InSlot /\ EndOfSlot
      BY <3>1, EndWindow
    <3>2. CASE ~EndOfSlot
      BY <2>2, <3>2 DEF Timer0, ExtendSucceeded, ExtendFailed, slotVars, WindowInv,
         NoneStranded, AtWork, InSlot
    <3> QED
      BY <2>2, <3>1, <3>2, SlotEndCases
  <2>3. CASE Task
    BY <2>3, TaskWindow
  <2> QED
    BY <2>1, <2>2, <2>3, SignalWindow DEF Next, Mpsl
<1>3. WindowInv => NoneStranded
  BY DEF WindowInv
<1> QED
  BY <1>1, <1>2, <1>3, TimeslotPrxTypeCorrect, PTL DEF Spec
=============================================================================
