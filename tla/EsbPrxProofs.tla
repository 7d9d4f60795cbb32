---------------------------- MODULE EsbPrxProofs ----------------------------
(***************************************************************************)
(* Proofs about EsbPrx, for every number of buffers, pipes and packets and *)
(* every set of calls: the types with what the state says of the indices,  *)
(* the radio in each state of the state machine, stop and suspend, the     *)
(* ownership of the buffers, that a receiver stops for want of a buffer    *)
(* only, the delivery of packets, and the refinement of PacketReception.   *)
(***************************************************************************)
EXTENDS EsbPrx, PacketPoolProofs

-----------------------------------------------------------------------------
(* Types                                                                   *)

\* The missing index is no buffer.
LEMMA NoIdxFacts == NoIdx \notin Buf /\ Buf \subseteq Opt /\ NoIdx \in Opt /\ Fallback = NoIdx
BY NAssumption DEF NoIdx, Buf, Opt, Fallback

\* Every register sequence on RADIO leaves a well-typed radio.
LEMMA RadioOpsType ==
  ASSUME NEW r \in RadioType, NEW i \in Opt, NEW p \in Pipes
  PROVE  /\ Ramp(r, "rx") \in RadioType /\ Stop(r) \in RadioType
         /\ StartReceiving(r, i) \in RadioType
         /\ RestartBadCrc(r) \in RadioType
         /\ SetupAckTx(r, p, i) \in RadioType
         /\ CompleteRxAck(r, i) \in RadioType
         /\ CompleteRxNoAck(r, i) \in RadioType
         /\ [r EXCEPT !.disabled = FALSE] \in RadioType
<1>1. \A x \in RadioType : Ramp(x, "rx") \in RadioType
  BY DEF Ramp, RadioType
<1>2. Stop(r) \in RadioType
  BY DEF Stop, RadioType
<1>3. StartReceiving(r, i) \in RadioType
  <2>1. [r EXCEPT !.txen = TRUE, !.inten = TRUE, !.ptr = i, !.disabled = FALSE]
          \in RadioType
    BY DEF RadioType
  <2> QED
    BY <1>1, <2>1 DEF StartReceiving
<1>4. RestartBadCrc(r) \in RadioType
  <2>1. [Stop(r) EXCEPT !.txen = TRUE, !.inten = TRUE] \in RadioType
    BY <1>2 DEF RadioType
  <2> QED
    BY <1>1, <2>1 DEF RestartBadCrc
<1>5. SetupAckTx(r, p, i) \in RadioType
  BY DEF SetupAckTx, RadioType
<1>6. CompleteRxAck(r, i) \in RadioType
  BY DEF CompleteRxAck, RadioType
<1>7. CompleteRxNoAck(r, i) \in RadioType
  <2>1. [r EXCEPT !.ptr = i, !.txen = TRUE, !.inten = TRUE] \in RadioType
    BY DEF RadioType
  <2> QED
    BY <1>1, <2>1 DEF CompleteRxNoAck
<1>8. [r EXCEPT !.disabled = FALSE] \in RadioType
  BY DEF RadioType
<1> QED
  BY <1>1, <1>2, <1>3, <1>4, <1>5, <1>6, <1>7, <1>8

\* The radio after a power cycle is well typed.
LEMMA ResetType == RadioReset \in RadioType
<1>1. (CHOOSE p \in Pipes : TRUE) \in Pipes
  BY PrxAssumption
<1> QED
  BY <1>1, NoIdxFacts DEF RadioReset, RadioType

\* Which indices the state machine holds in each state
IdxInv ==
  /\ state = "Receiver" <=> rx_idx # NoIdx
  /\ state = "TxAck" <=> pending_rx_idx # NoIdx
  /\ state # "TxAck" => ack_tx_idx = NoIdx

\* In exclusive mode the turnaround is the shortcuts'.  Nothing moves the state
\* machine of a suspended driver, which restore takes to be idle.
TypeInv ==
  /\ TypeOK /\ timeslot_managed = FALSE /\ IdxInv
  /\ ctl = "suspended" => state = "Idle"

Header == [pipe : Pipes, seq : 0 .. MaxSeq, no_ack : BOOLEAN]

\* The types of what the handler and the calls of the state machine write
MachineType ==
  /\ pool \in [Buf -> BufState] /\ rx_queue \in Seq(Buf)
  /\ state \in StatePrx
  /\ rx_idx \in Opt /\ pending_rx_idx \in Opt /\ ack_tx_idx \in Opt
  /\ last \in [Pipes -> LastType]
  /\ hdr \in [Buf -> Header]
  /\ rf \in RadioType
  /\ got \in [Pipes -> -1 .. MaxSeq]
  /\ IdxInv

\* The types of everything else
RestType ==
  /\ timeslot_managed = FALSE
  /\ ctl = "suspended" => state = "Idle"
  /\ saved \in [Pipes -> LastType]
  /\ sent \in [Pipes -> -1 .. MaxSeq] /\ heard \in [Pipes -> -1 .. MaxSeq]
  /\ sent_no_ack \in [Pipes -> BOOLEAN]
  /\ suspend_requested \in BOOLEAN
  /\ suspend_signal \in {"none", "registered", "woken"}
  /\ pending \in BOOLEAN /\ listening \in BOOLEAN
  /\ ctl \in MaskedCtl \cup {"idle", "busy", "flagged", "poll", "registered",
                              "wait", "ready"}
  /\ sender \in {"idle", "alloc"} /\ send_idx \in Opt
  /\ held \subseteq Buf

\* TypeInv in the parts that the state machine and the rest may change
LEMMA TypeParts == TypeInv <=> MachineType /\ RestType
<1>1. TypeInv => MachineType
  BY DEF TypeInv, TypeOK, MachineType, Header
<1>2. TypeInv => RestType
  BY DEF TypeInv, TypeOK, RestType
<1>3. MachineType /\ RestType => TypeInv
  BY DEF MachineType, RestType, TypeInv, TypeOK, Header
<1> QED
  BY <1>1, <1>2, <1>3

\* The same of the next state
LEMMA TypePartsPrime == TypeInv' <=> MachineType' /\ RestType'
<1>1. TypeInv' => MachineType'
  BY DEF TypeInv, TypeOK, MachineType, Header
<1>2. TypeInv' => RestType'
  BY DEF TypeInv, TypeOK, RestType
<1>3. MachineType' /\ RestType' => TypeInv'
  BY DEF MachineType, RestType, TypeInv, TypeOK, Header
<1> QED
  BY <1>1, <1>2, <1>3

\* The radio as the handler finds it, its event cleared
LEMMA SeenType == TypeInv => Seen \in RadioType
BY RadioOpsType DEF Seen, TypeInv, TypeOK, RadioType

\* alloc_dma_buffer returns a buffer that was free, or none if none is.
LEMMA AllocDma ==
  ASSUME NEW p \in [Buf -> BufState], AllocDmaBuffer(p)
  PROVE  /\ pool' \in [Buf -> BufState] /\ rx_idx' \in Opt
         /\ \/ rx_idx' \in Buf /\ p[rx_idx'] = "free" /\ pool' = ToDma(p, rx_idx')
            \/ rx_idx' = NoIdx /\ pool' = p
<1>1. CASE \E i \in RxToDmaChoice(p) : pool' = ToDma(p, i) /\ rx_idx' = i
  <2>1. PICK i \in RxToDmaChoice(p) : pool' = ToDma(p, i) /\ rx_idx' = i
    BY <1>1
  <2>2. i \in Buf /\ p[i] = "free"
    BY ChoiceType
  <2> QED
    BY <2>1, <2>2, PoolOpsType, NoIdxFacts
<1>2. CASE RxToDmaChoice(p) = {} /\ pool' = p /\ rx_idx' = NoIdx
  BY <1>2, NoIdxFacts
<1> QED
  BY <1>1, <1>2 DEF AllocDmaBuffer

\* The turnaround helpers in exclusive mode
LEMMA Shortcuts ==
  ASSUME timeslot_managed = FALSE, NEW r, NEW p, NEW i
  PROVE  /\ ArmRx(r, i) = StartReceiving(r, i)
         /\ RestartRxNoAck(r, i) = CompleteRxNoAck(Stop(r), i)
         /\ RestartRxAfterAck(r, i) = CompleteRxAck(r, i)
         /\ TransmitAck(r, p, i) = SetupAckTx(r, p, i)
BY DEF ArmRx, RestartRxNoAck, RestartRxAfterAck, TransmitAck

\* A PID has two bits, and so the duplicate filter its type.
LEMMA DetectionType ==
  ASSUME NEW h \in Header
  PROVE  [valid |-> TRUE, pid |-> Pid(h.seq), crc |-> Crc(h)] \in LastType
<1>1. h.seq \in 0 .. 3 /\ h.no_ack \in BOOLEAN
  BY PrxAssumption DEF Header
<1>2. h.seq % 4 \in 0 .. 3
  BY <1>1
<1> QED
  BY <1>1, <1>2 DEF LastType, Pid, Crc

\* Receiving again after an ACK leaves well-typed state.
LEMMA ReceiveAfterAckType ==
  ASSUME TypeInv, NEW p \in [Buf -> BufState], ReceiveAfterAck(p)
  PROVE  /\ pool' \in [Buf -> BufState] /\ state' \in {"Receiver", "Idle"}
         /\ rx_idx' \in Opt /\ ack_tx_idx' = NoIdx /\ rf' \in RadioType
         /\ state' = "Receiver" <=> rx_idx' # NoIdx
<1>1. pool' \in [Buf -> BufState] /\ rx_idx' \in Opt
  BY AllocDma, PoolOpsType DEF ReceiveAfterAck
<1>2. /\ rx_idx' # NoIdx => rf' = CompleteRxAck(Seen, rx_idx') /\ state' = "Receiver"
      /\ rx_idx' = NoIdx => rf' = Stop(Seen) /\ state' = "Idle"
  BY Shortcuts DEF ReceiveAfterAck, TypeInv
<1>3. CompleteRxAck(Seen, rx_idx') \in RadioType /\ Stop(Seen) \in RadioType
  <2>1. PICK q \in Pipes : TRUE
    BY PrxAssumption
  <2> QED
    BY <1>1, <2>1, SeenType, RadioOpsType
<1> QED
  BY <1>1, <1>2, <1>3 DEF ReceiveAfterAck

\* The branches of the handler that restart the reception
LEMMA ReceivingType ==
  ASSUME TypeInv, UNCHANGED timeslot_managed,
         IgnoreUserEvent \/ OnBadCrc \/ OnDuplicateNoAck \/ OnDuplicate
  PROVE  MachineType'
<1>0. MachineType /\ Seen \in RadioType /\ timeslot_managed = FALSE
  BY TypeParts, SeenType DEF TypeInv
<1>1. CASE IgnoreUserEvent
  BY <1>0, <1>1 DEF IgnoreUserEvent, MachineType, IdxInv, poolVars, smVars
<1>2. CASE OnBadCrc
  <2>1. rf' \in RadioType
    <3>1. rf.rxmatch \in Pipes
      BY <1>0 DEF MachineType, RadioType
    <3> QED
      BY <1>0, <1>2, <3>1, RadioOpsType, NoIdxFacts DEF OnBadCrc
  <2> QED
    BY <1>0, <1>2, <2>1 DEF OnBadCrc, MachineType, IdxInv, poolVars, smVars
<1>3. CASE OnDuplicateNoAck
  <2>1. /\ state = "Receiver" /\ rx_idx \in Buf
        /\ UNCHANGED <<rx_queue, state, pending_rx_idx, ack_tx_idx, last, hdr, got>>
    BY <1>0, <1>3, NoIdxFacts DEF OnDuplicateNoAck, Packet, MachineType, IdxInv, Opt
  <2>2. /\ rx_idx' \in Buf /\ pool' \in [Buf -> BufState]
        /\ rf' = CompleteRxNoAck(Stop(Seen), rx_idx')
    <3>1. CASE \E i \in RxToDmaChoice(pool) :
                 /\ pool' = Release(ToDma(pool, i), rx_idx) /\ rx_idx' = i
                 /\ rf' = RestartRxNoAck(Seen, i)
      <4>1. PICK i \in RxToDmaChoice(pool) :
                 /\ pool' = Release(ToDma(pool, i), rx_idx) /\ rx_idx' = i
                 /\ rf' = RestartRxNoAck(Seen, i)
        BY <3>1
      <4>2. i \in Buf /\ ToDma(pool, i) \in [Buf -> BufState]
        BY <1>0, ChoiceType, PoolOpsType DEF MachineType
      <4> QED
        BY <1>0, <4>1, <4>2, PoolOpsType, Shortcuts
    <3>2. CASE rf' = RestartRxNoAck(Seen, rx_idx) /\ UNCHANGED <<pool, rx_idx>>
      BY <1>0, <2>1, <3>2, Shortcuts DEF MachineType
    <3> QED
      BY <1>3, <3>1, <3>2 DEF OnDuplicateNoAck
  <2>3. rf' \in RadioType
    <3>1. Stop(Seen) \in RadioType /\ rx_idx' \in Opt /\ rf.rxmatch \in Pipes
      BY <1>0, <2>2, RadioOpsType, NoIdxFacts DEF MachineType, RadioType
    <3> QED
      BY <2>2, <3>1, RadioOpsType
  <2> QED
    BY <1>0, <2>1, <2>2, <2>3, NoIdxFacts DEF MachineType, IdxInv
<1>4. CASE OnDuplicate
  <2>1. /\ pool' = Release(pool, rx_idx) /\ rx_idx' = NoIdx
        /\ rf' = SetupAckTx(Seen, rf.rxmatch, Fallback)
        /\ state = "Receiver" /\ state' = "TxRepeatedAck"
        /\ UNCHANGED <<rx_queue, pending_rx_idx, ack_tx_idx, last, hdr, got>>
    BY <1>0, <1>4, Shortcuts DEF OnDuplicate, Packet
  <2>2. rf.rxmatch \in Pipes
    BY <1>0 DEF MachineType, RadioType
  <2>3. pool' \in [Buf -> BufState] /\ rf' \in RadioType
    BY <1>0, <2>1, <2>2, PoolOpsType, RadioOpsType, NoIdxFacts DEF MachineType
  <2> QED
    BY <1>0, <2>1, <2>3, NoIdxFacts DEF MachineType, IdxInv, StatePrx
<1> QED
  BY <1>1, <1>2, <1>3, <1>4

\* The duplicate filter takes the packet's PID and CRC; its buffer the pipe.
LEMMA UpdateDetectionType ==
  ASSUME TypeInv, rx_idx \in Buf, UpdateDetection(rf.rxmatch, hdr[rx_idx])
  PROVE  last' \in [Pipes -> LastType] /\ hdr' \in [Buf -> Header]
<1>1. /\ rf.rxmatch \in Pipes /\ hdr \in [Buf -> Header] /\ hdr[rx_idx] \in Header
      /\ last \in [Pipes -> LastType]
  BY TypeParts DEF MachineType, RadioType
<1>2. [valid |-> TRUE, pid |-> Pid(hdr[rx_idx].seq), crc |-> Crc(hdr[rx_idx])] \in LastType
  BY <1>1, DetectionType
<1>3. last' \in [Pipes -> LastType]
  BY <1>1, <1>2 DEF UpdateDetection
<1>4. hdr' = [hdr EXCEPT ![rx_idx].pipe = rf.rxmatch]
  BY DEF UpdateDetection
<1>5. hdr' \in [Buf -> Header]
  BY <1>1, <1>4 DEF Header
<1> QED
  BY <1>3, <1>5

\* A packet handed to the application leaves well-typed state.
LEMMA DeliverType ==
  ASSUME TypeInv, NEW i \in Buf, hdr' \in [Buf -> Header], Deliver(i)
  PROVE  rx_queue' \in Seq(Buf) /\ got' \in [Pipes -> -1 .. MaxSeq]
<1>1. /\ hdr[i].seq \in 0 .. MaxSeq /\ got \in [Pipes -> -1 .. MaxSeq]
      /\ rx_queue \in Seq(Buf)
  BY TypeParts DEF MachineType, Header
<1>2. 0 .. MaxSeq \subseteq -1 .. MaxSeq
  BY PrxAssumption
<1>3. rx_queue' \in Seq(Buf)
  BY <1>1, RxSendType DEF Deliver
<1>4. got' \in [Pipes -> -1 .. MaxSeq]
  BY <1>1, <1>2 DEF Deliver
<1> QED
  BY <1>3, <1>4

\* The branches of the handler that take a new packet
LEMMA NewPacketType ==
  ASSUME TypeInv, UNCHANGED timeslot_managed, OnNewNoAck \/ OnNew
  PROVE  MachineType'
<1>0. MachineType /\ Seen \in RadioType /\ timeslot_managed = FALSE
  BY TypeParts, SeenType DEF TypeInv
<1>1. state = "Receiver" /\ rx_idx \in Buf /\ rf.rxmatch \in Pipes
  BY <1>0, NoIdxFacts DEF OnNewNoAck, OnNew, Packet, MachineType, IdxInv, Opt, RadioType
<1>2. last' \in [Pipes -> LastType] /\ hdr' \in [Buf -> Header]
  BY <1>1, UpdateDetectionType DEF OnNewNoAck, OnNew
<1>3. CASE OnNewNoAck
  <2>1. rx_queue' \in Seq(Buf) /\ got' \in [Pipes -> -1 .. MaxSeq]
    BY <1>1, <1>2, <1>3, DeliverType DEF OnNewNoAck
  <2>2. RxComplete(pool, rx_idx) \in [Buf -> BufState]
    BY <1>0, PoolOpsType DEF MachineType
  <2>3. pool' \in [Buf -> BufState] /\ rx_idx' \in Opt
    BY <1>3, <2>2, AllocDma DEF OnNewNoAck
  <2>4. UNCHANGED <<pending_rx_idx, ack_tx_idx>>
    BY <1>3 DEF OnNewNoAck
  <2>5. Stop(Seen) \in RadioType
    BY <1>0, <1>1, RadioOpsType, NoIdxFacts
  <2>6. CASE rx_idx' # NoIdx
    <3>1. rf' = CompleteRxNoAck(Stop(Seen), rx_idx') /\ state' = state
      BY <1>0, <1>3, <2>6, Shortcuts DEF OnNewNoAck
    <3>2. rf' \in RadioType
      BY <1>1, <2>3, <2>5, <3>1, RadioOpsType
    <3> QED
      BY <1>0, <1>1, <1>2, <2>1, <2>3, <2>4, <2>6, <3>1, <3>2 DEF MachineType, IdxInv
  <2>7. CASE rx_idx' = NoIdx
    <3>1. rf' = Stop(Seen) /\ state' = "Idle"
      BY <1>3, <2>7 DEF OnNewNoAck
    <3> QED
      BY <1>0, <1>1, <1>2, <2>1, <2>3, <2>4, <2>5, <2>7, <3>1
      DEF MachineType, IdxInv, StatePrx
  <2> QED
    BY <2>6, <2>7
<1>4. CASE OnNew
  <2>1. /\ pending_rx_idx' = rx_idx /\ rx_idx' = NoIdx /\ state' = "TxAck"
        /\ UNCHANGED <<rx_queue, got>>
    BY <1>4 DEF OnNew
  <2>2. /\ pool' \in [Buf -> BufState] /\ ack_tx_idx' \in Opt
        /\ rf' = SetupAckTx(Seen, rf.rxmatch, ack_tx_idx')
    <3>1. CASE \E i \in DequeueForPipeChoice(rf.rxmatch) :
                 /\ pool' = ToDma(pool, i) /\ ack_tx_idx' = i
                 /\ rf' = TransmitAck(Seen, rf.rxmatch, i)
      <4>1. PICK i \in DequeueForPipeChoice(rf.rxmatch) :
                 /\ pool' = ToDma(pool, i) /\ ack_tx_idx' = i
                 /\ rf' = TransmitAck(Seen, rf.rxmatch, i)
        BY <3>1
      <4>2. i \in Opt
        BY NoIdxFacts DEF DequeueForPipeChoice, Lowest, InState
      <4> QED
        BY <1>0, <4>1, <4>2, PoolOpsType, Shortcuts DEF MachineType
    <3>2. CASE /\ ack_tx_idx' = NoIdx /\ rf' = TransmitAck(Seen, rf.rxmatch, Fallback)
               /\ UNCHANGED pool
      BY <1>0, <3>2, NoIdxFacts, Shortcuts DEF MachineType
    <3> QED
      BY <1>4, <3>1, <3>2 DEF OnNew
  <2>3. rf' \in RadioType
    BY <1>0, <1>1, <2>2, RadioOpsType
  <2> QED
    BY <1>0, <1>1, <1>2, <2>1, <2>2, <2>3, NoIdxFacts DEF MachineType, IdxInv, StatePrx
<1> QED
  BY <1>3, <1>4

\* The branches of the handler at the end of an ACK, and the start
LEMMA AckSentType ==
  ASSUME TypeInv, UNCHANGED timeslot_managed,
         OnAckSent \/ OnRepeatedAckSent \/ OnIdle
  PROVE  MachineType'
<1>0. MachineType /\ timeslot_managed = FALSE
  BY TypeParts DEF TypeInv
<1>1. CASE OnAckSent
  <2>1. /\ pending_rx_idx \in Buf /\ pending_rx_idx' = NoIdx
        /\ UNCHANGED <<last, hdr>>
        /\ Deliver(pending_rx_idx) /\ ReceiveAfterAck(RxComplete(pool, pending_rx_idx))
    BY <1>0, <1>1, NoIdxFacts DEF OnAckSent, MachineType, IdxInv, Opt
  <2>2. rx_queue' \in Seq(Buf) /\ got' \in [Pipes -> -1 .. MaxSeq]
    BY <1>0, <2>1, DeliverType DEF MachineType
  <2>3. /\ pool' \in [Buf -> BufState] /\ state' \in {"Receiver", "Idle"}
        /\ rx_idx' \in Opt /\ ack_tx_idx' = NoIdx /\ rf' \in RadioType
        /\ state' = "Receiver" <=> rx_idx' # NoIdx
    BY <1>0, <2>1, PoolOpsType, ReceiveAfterAckType DEF MachineType
  <2> QED
    BY <1>0, <2>1, <2>2, <2>3, NoIdxFacts DEF MachineType, IdxInv, StatePrx
<1>2. CASE OnRepeatedAckSent
  <2>1. /\ UNCHANGED <<rx_queue, pending_rx_idx, last, hdr, got>>
        /\ state = "TxRepeatedAck" /\ ReceiveAfterAck(pool)
    BY <1>2 DEF OnRepeatedAckSent
  <2>2. /\ pool' \in [Buf -> BufState] /\ state' \in {"Receiver", "Idle"}
        /\ rx_idx' \in Opt /\ ack_tx_idx' = NoIdx /\ rf' \in RadioType
        /\ state' = "Receiver" <=> rx_idx' # NoIdx
    BY <1>0, <2>1, ReceiveAfterAckType DEF MachineType
  <2> QED
    BY <1>0, <2>1, <2>2, NoIdxFacts DEF MachineType, IdxInv, StatePrx
<1>3. CASE OnIdle
  <2>1. /\ UNCHANGED <<rx_queue, pending_rx_idx, ack_tx_idx, last, hdr, got>>
        /\ state = "Idle" /\ AllocDmaBuffer(pool)
    BY <1>3 DEF OnIdle, StartListening
  <2>2. pool' \in [Buf -> BufState] /\ rx_idx' \in Opt
    BY <1>0, <2>1, AllocDma DEF MachineType
  <2>3. CASE rx_idx' # NoIdx
    <3>1. rf' = StartReceiving(rf, rx_idx') /\ state' = "Receiver"
      BY <1>0, <1>3, <2>3, Shortcuts DEF OnIdle, StartListening
    <3>2. rf.rxmatch \in Pipes
      BY <1>0 DEF MachineType, RadioType
    <3>3. rf' \in RadioType
      BY <1>0, <2>2, <3>1, <3>2, RadioOpsType DEF MachineType
    <3> QED
      BY <1>0, <2>1, <2>2, <2>3, <3>1, <3>3 DEF MachineType, IdxInv, StatePrx
  <2>4. CASE rx_idx' = NoIdx
    <3>1. UNCHANGED <<rf, state>>
      BY <1>3, <2>4 DEF OnIdle, StartListening
    <3> QED
      BY <1>0, <2>1, <2>2, <2>4, <3>1 DEF MachineType, IdxInv
  <2> QED
    BY <2>3, <2>4
<1> QED
  BY <1>1, <1>2, <1>3
\* One run of the handler keeps the types.
LEMMA IsrType == TypeInv /\ RadioIsr => TypeInv'
<1> SUFFICES ASSUME TypeInv, RadioIsr PROVE TypeInv'
  OBVIOUS
<1>1. UNCHANGED timeslot_managed /\ UNCHANGED peerVars
  BY DEF RadioIsr, HandleRadioEvent
<1>2. MachineType'
  <2>1. \/ IgnoreUserEvent \/ OnBadCrc \/ OnDuplicateNoAck \/ OnDuplicate
        \/ OnNewNoAck \/ OnNew \/ OnAckSent \/ OnRepeatedAckSent \/ OnIdle
    BY DEF RadioIsr, HandleRadioEvent
  <2> QED
    BY <1>1, <2>1, ReceivingType, NewPacketType, AckSentType
<1>3. rf' \in RadioType
  BY <1>2 DEF MachineType
<1>4. Line(rf') \in BOOLEAN
  BY <1>3 DEF Line, RadioType
<1>5. RestType'
  <2>1. RestType
    BY TypeParts
  <2>2. suspend_signal' \in {"none", "registered", "woken"}
    BY <2>1 DEF RadioIsr, RestType
  <2>3. pending' \in BOOLEAN
    BY <1>4 DEF RadioIsr
  <2>4. UNCHANGED <<suspend_requested, saved, ctl, listening, sender, send_idx, held>>
    BY DEF RadioIsr
  <2>5. ctl # "suspended"
    BY DEF RadioIsr, RadioReady, MaskedCtl
  <2> QED
    BY <1>1, <2>1, <2>2, <2>3, <2>4, <2>5 DEF RestType, peerVars
<1> QED
  BY <1>2, <1>5, TypePartsPrime

\* The air keeps the types: a reception writes a header and the radio's
\* registers, an ACK what its peer has heard.
LEMMA AirType == TypeInv /\ Radio => TypeInv'
<1> SUFFICES ASSUME TypeInv, Radio PROVE TypeInv'
  OBVIOUS
<1>0. MachineType /\ RestType
  BY TypeParts
<1>1. /\ UNCHANGED <<pool, rx_queue, state, rx_idx, pending_rx_idx, ack_tx_idx,
                     timeslot_managed, last, got>>
      /\ UNCHANGED <<saved, suspend_requested, suspend_signal, ctl, listening, sender,
                     send_idx, held>>
  BY DEF Radio, AckEnd, Receive, Miss, driverVars, poolVars, smVars
<1>2. /\ hdr' \in [Buf -> Header] /\ rf' \in RadioType
      /\ sent' \in [Pipes -> -1 .. MaxSeq] /\ heard' \in [Pipes -> -1 .. MaxSeq]
      /\ sent_no_ack' \in [Pipes -> BOOLEAN]
  <2>1. CASE AckEnd
    <3>1. UNCHANGED <<hdr, sent, sent_no_ack>>
      BY <2>1 DEF AckEnd
    <3>2. rf' \in RadioType
      BY <1>0, <2>1 DEF AckEnd, MachineType, RadioType
    <3>3. rf.txaddress \in Pipes /\ sent[rf.txaddress] \in -1 .. MaxSeq
      BY <1>0 DEF MachineType, RestType, RadioType
    <3>4. heard' \in [Pipes -> -1 .. MaxSeq]
      BY <1>0, <2>1, <3>3 DEF AckEnd, RestType
    <3> QED
      BY <1>0, <3>1, <3>2, <3>4 DEF MachineType, RestType
  <2>2. ASSUME NEW p \in Pipes, Receive(p)
        PROVE  /\ hdr' \in [Buf -> Header] /\ rf' \in RadioType
               /\ sent' \in [Pipes -> -1 .. MaxSeq] /\ heard' \in [Pipes -> -1 .. MaxSeq]
               /\ sent_no_ack' \in [Pipes -> BOOLEAN]
    <3>1. PICK n \in 0 .. MaxSeq, na \in BOOLEAN, ok \in BOOLEAN :
             /\ RxEnd(p, n, na, ok)
             /\ sent' = [sent EXCEPT ![p] = n]
             /\ sent_no_ack' = [sent_no_ack EXCEPT ![p] = na]
             /\ UNCHANGED heard
      BY <2>2 DEF Receive
    <3>2. n \in -1 .. MaxSeq
      BY PrxAssumption
    <3>3. rf' \in RadioType
      BY <1>0, <3>1 DEF RxEnd, MachineType, RadioType
    <3>4. hdr' = [hdr EXCEPT ![rf.ptr].seq = n, ![rf.ptr].no_ack = na]
      BY <3>1 DEF RxEnd
    <3>5. hdr' \in [Buf -> Header]
      BY <1>0, <3>4 DEF MachineType, Header
    <3> QED
      BY <1>0, <3>1, <3>2, <3>3, <3>5 DEF RestType
  <2>3. ASSUME NEW p \in Pipes, Miss(p)
        PROVE  /\ hdr' \in [Buf -> Header] /\ rf' \in RadioType
               /\ sent' \in [Pipes -> -1 .. MaxSeq] /\ heard' \in [Pipes -> -1 .. MaxSeq]
               /\ sent_no_ack' \in [Pipes -> BOOLEAN]
    <3>1. /\ sent' = [sent EXCEPT ![p] = @ + 1] /\ sent[p] < MaxSeq
          /\ UNCHANGED <<hdr, rf, heard>>
      BY <2>3 DEF Miss
    <3>2. PICK na \in NoAckKinds : sent_no_ack' = [sent_no_ack EXCEPT ![p] = na]
      BY <2>3 DEF Miss
    <3>3. sent[p] \in -1 .. MaxSeq /\ MaxSeq \in Nat /\ na \in BOOLEAN
      BY <1>0, PrxAssumption DEF RestType
    <3>4. sent[p] + 1 \in -1 .. MaxSeq
      BY <3>1, <3>3
    <3> QED
      BY <1>0, <3>1, <3>2, <3>3, <3>4 DEF MachineType, RestType
  <2> QED
    BY <2>1, <2>2, <2>3 DEF Radio
<1>3. pending' \in BOOLEAN
  <2>1. Line(rf') \in BOOLEAN
    BY <1>2 DEF Line, RadioType
  <2> QED
    BY <2>1 DEF Radio
<1>4. MachineType'
  BY <1>0, <1>1, <1>2 DEF MachineType, IdxInv
<1>5. RestType'
  BY <1>0, <1>1, <1>2, <1>3 DEF RestType
<1> QED
  BY <1>4, <1>5, TypePartsPrime

\* The tasks that queue ACK payloads and receive keep the types.
LEMMA TaskType == TypeInv /\ (Sending \/ ReceivePacket \/ DropReceived) => TypeInv'
<1> SUFFICES ASSUME TypeInv, Sending \/ ReceivePacket \/ DropReceived PROVE TypeInv'
  OBVIOUS
<1>0. MachineType /\ RestType
  BY TypeParts
<1>1. /\ UNCHANGED <<state, rx_idx, pending_rx_idx, ack_tx_idx, timeslot_managed, last,
                     rf, got, sent, sent_no_ack, heard, saved, suspend_requested,
                     suspend_signal, pending, ctl, listening>>
  BY DEF Sending, SendAlloc, SendEnqueue, ReceivePacket, DropReceived, smVars,
         peerVars, driverVars
<1>2. /\ pool' \in [Buf -> BufState] /\ rx_queue' \in Seq(Buf) /\ hdr' \in [Buf -> Header]
      /\ sender' \in {"idle", "alloc"} /\ send_idx' \in Opt /\ held' \subseteq Buf
  <2>1. CASE SendAlloc
    <3>1. PICK i \in AllocTxChoice(pool), p \in AckPipes :
            /\ pool' = AllocTx(pool, i) /\ send_idx' = i
            /\ hdr' = [hdr EXCEPT ![i].pipe = p, ![i].no_ack = FALSE]
      BY <2>1 DEF SendAlloc
    <3>2. i \in Opt /\ p \in Pipes
      BY ChoiceType, NoIdxFacts, EsbPrxAssumption
    <3>3. hdr' \in [Buf -> Header]
      BY <1>0, <3>1, <3>2 DEF MachineType, Header
    <3>4. sender' = "alloc" /\ UNCHANGED <<rx_queue, held>>
      BY <2>1 DEF SendAlloc
    <3> QED
      BY <1>0, <3>1, <3>2, <3>3, <3>4, PoolOpsType DEF MachineType, RestType
  <2>2. CASE SendEnqueue
    <3>1. /\ pool' = EnqueueTx(pool, send_idx) /\ sender' = "idle" /\ send_idx' = NoIdx
          /\ UNCHANGED <<rx_queue, hdr, held>>
      BY <2>2 DEF SendEnqueue
    <3> QED
      BY <1>0, <3>1, PoolOpsType, NoIdxFacts DEF MachineType, RestType
  <2>3. CASE ReceivePacket
    <3>1. /\ held' = held \cup {Head(rx_queue)} /\ rx_queue' = Tail(rx_queue)
          /\ rx_queue # <<>> /\ UNCHANGED <<pool, hdr, sender, send_idx>>
      BY <2>3 DEF ReceivePacket
    <3>2. Head(rx_queue) \in Buf /\ Tail(rx_queue) \in Seq(Buf)
      BY <1>0, <3>1 DEF MachineType
    <3> QED
      BY <1>0, <3>1, <3>2 DEF MachineType, RestType
  <2>4. CASE DropReceived
    <3>1. PICK i \in held : pool' = Release(pool, i) /\ held' = held \ {i}
      BY <2>4 DEF DropReceived
    <3>2. UNCHANGED <<rx_queue, hdr, sender, send_idx>>
      BY <2>4 DEF DropReceived
    <3> QED
      BY <1>0, <3>1, <3>2, PoolOpsType DEF MachineType, RestType
  <2> QED
    BY <2>1, <2>2, <2>3, <2>4 DEF Sending
<1>3. MachineType'
  BY <1>0, <1>1, <1>2 DEF MachineType, IdxInv
<1>4. RestType'
  BY <1>0, <1>1, <1>2 DEF RestType
<1> QED
  BY <1>3, <1>4, TypePartsPrime

\* stop_receiving leaves well-typed state.
LEMMA StopReceivingType ==
  ASSUME TypeInv, StopReceiving
  PROVE  MachineType' /\ UNCHANGED peerVars
<1>0. MachineType
  BY TypeParts
<1>1. /\ rf' = Stop(rf) /\ state' = "Idle"
      /\ rx_idx' = NoIdx /\ pending_rx_idx' = NoIdx /\ ack_tx_idx' = NoIdx
      /\ UNCHANGED <<rx_queue, last, hdr, peerVars, got>>
  BY DEF StopReceiving
<1>2. Release(pool, rx_idx) \in [Buf -> BufState]
  BY <1>0, PoolOpsType DEF MachineType
<1>3. Release(Release(pool, rx_idx), pending_rx_idx) \in [Buf -> BufState]
  BY <1>2, PoolOpsType
<1>4. pool' \in [Buf -> BufState]
  BY <1>3, PoolOpsType DEF StopReceiving
<1>5. rf' \in RadioType
  <2>1. rf.rxmatch \in Pipes
    BY <1>0 DEF MachineType, RadioType
  <2> QED
    BY <1>0, <1>1, <2>1, RadioOpsType, NoIdxFacts DEF MachineType
<1> QED
  BY <1>0, <1>1, <1>4, <1>5, NoIdxFacts DEF MachineType, IdxInv, StatePrx

\* The steps of suspend and the other calls that only move the control task
LEMMA MoveType ==
  ASSUME TypeInv, NEW from, NEW to, Move(from, to),
         to \in MaskedCtl \cup {"idle", "busy", "flagged", "poll", "registered",
                                "wait", "ready"}, to # "suspended"
  PROVE  TypeInv'
<1>1. /\ UNCHANGED <<prxVars, driverVars, pending, listening, sender, send_idx, held>>
      /\ ctl' = to
  BY DEF Move
<1>2. MachineType /\ RestType
  BY TypeParts
<1>3. MachineType'
  BY <1>1, <1>2 DEF MachineType, IdxInv, prxVars, smVars
<1>4. RestType'
  BY <1>1, <1>2 DEF RestType, prxVars, smVars, peerVars, driverVars
<1> QED
  BY <1>3, <1>4, TypePartsPrime

\* The end of a suspend call keeps the types.
LEMMA SuspendType ==
  ASSUME TypeInv, NEW c, Suspend(c)
  PROVE  TypeInv'
<1>1. MachineType /\ RestType /\ MachineType' /\ UNCHANGED peerVars
  BY TypeParts, StopReceivingType DEF Suspend
<1>2. /\ ctl' = "suspended" /\ saved' = last /\ pending' = Line(rf') /\ state' = "Idle"
      /\ listening' = FALSE /\ suspend_requested' = FALSE
      /\ UNCHANGED <<timeslot_managed, suspend_signal, sender, send_idx, held>>
  BY DEF Suspend, StopReceiving
<1>3. Line(rf') \in BOOLEAN
  BY <1>1 DEF Line, MachineType, RadioType
<1>4. RestType'
  BY <1>1, <1>2, <1>3 DEF RestType, MachineType, peerVars, MaskedCtl
<1> QED
  BY <1>1, <1>4, TypePartsPrime

\* The control task keeps the types.
LEMMA ControlType ==
  TypeInv /\ (BeginCall \/ BeginListen \/ Control \/ CancelSuspend \/ Restore) => TypeInv'
<1> SUFFICES ASSUME TypeInv,
                    BeginCall \/ BeginListen \/ Control \/ CancelSuspend \/ Restore
             PROVE  TypeInv'
  OBVIOUS
<1>0. MachineType /\ RestType
  BY TypeParts
<1>m. \A from, to : /\ Move(from, to)
                    /\ to \in MaskedCtl \cup {"idle", "busy", "flagged", "poll",
                                               "registered", "wait", "ready"}
                    /\ to # "suspended"
                    => TypeInv'
  BY MoveType
<1>s. \A c : Suspend(c) => TypeInv'
  BY SuspendType
<1>1. CASE BeginCall \/ BeginListen
  BY <1>1, <1>m DEF BeginCall, BeginListen, MaskedCtl
<1>2. CASE Listen
  <2>1. /\ ctl' = "idle" /\ StartListening
        /\ pending' = Line(rf') /\ listening' = (state' # "Idle")
        /\ UNCHANGED <<rx_queue, pending_rx_idx, ack_tx_idx, timeslot_managed, last,
                       hdr, got, sent, sent_no_ack, heard, saved, suspend_requested,
                       suspend_signal, sender, send_idx, held>>
    BY <1>2 DEF Listen, peerVars, driverVars
  <2>2. MachineType'
    <3>1. CASE state = "Idle"
      <4>2. AllocDmaBuffer(pool) /\ pool' \in [Buf -> BufState] /\ rx_idx' \in Opt
        BY <1>0, <2>1, <3>1, AllocDma DEF StartListening, MachineType
      <4>3. rx_idx' # NoIdx => rf' = StartReceiving(rf, rx_idx') /\ state' = "Receiver"
        BY <1>0, <2>1, <3>1, Shortcuts DEF StartListening, RestType
      <4>4. rx_idx' = NoIdx => rf' = rf /\ state' = state
        BY <2>1, <3>1 DEF StartListening
      <4>5. rf' \in RadioType
        <5>1. rf.rxmatch \in Pipes /\ rf \in RadioType
          BY <1>0 DEF MachineType, RadioType
        <5>2. StartReceiving(rf, rx_idx') \in RadioType
          BY <4>2, <5>1, RadioOpsType
        <5> QED
          BY <4>3, <4>4, <5>1, <5>2
      <4> QED
        BY <1>0, <2>1, <3>1, <4>2, <4>3, <4>4, <4>5 DEF MachineType, IdxInv, StatePrx
    <3>2. CASE state # "Idle"
      BY <1>0, <2>1, <3>2 DEF StartListening, MachineType, IdxInv
    <3> QED
      BY <3>1, <3>2
  <2>3. Line(rf') \in BOOLEAN /\ listening' \in BOOLEAN
    BY <2>1, <2>2 DEF Line, MachineType, RadioType
  <2>4. RestType'
    BY <1>0, <2>1, <2>3 DEF RestType
  <2> QED
    BY <2>2, <2>4, TypePartsPrime
<1>3. CASE StopCall
  <2>1. /\ ctl' = "idle" /\ pending' = Line(rf') /\ listening' = FALSE
        /\ UNCHANGED <<timeslot_managed, driverVars, sender, send_idx, held>>
    BY <1>3 DEF StopCall
  <2>2. MachineType' /\ UNCHANGED peerVars
    BY <1>3, StopReceivingType DEF StopCall
  <2>3. Line(rf') \in BOOLEAN
    BY <2>2 DEF Line, MachineType, RadioType
  <2>4. RestType'
    BY <1>0, <2>1, <2>2, <2>3 DEF RestType, peerVars, driverVars
  <2> QED
    BY <2>2, <2>4, TypePartsPrime
<1>4. CASE TrySuspend \/ SuspendFast \/ SuspendRecheck
  BY <1>4, <1>m, <1>s
  DEF TrySuspend, SuspendFast, SuspendRecheck, SuspendIfSuspendable, MaskedCtl
<1>5. CASE SuspendFinal
  BY <1>5, <1>m, <1>s DEF SuspendFinal, MaskedCtl
<1>6. CASE PollRead
  BY <1>6, <1>m DEF PollRead, MaskedCtl
<1>7. CASE RequestSuspend \/ PollRegister \/ PollAgain \/ CancelSuspend
  <2>1. /\ UNCHANGED <<prxVars, saved, pending, listening, sender, send_idx, held>>
        /\ suspend_requested' \in BOOLEAN
        /\ suspend_signal' \in {"none", "registered", "woken"}
        /\ ctl' \in {"flagged", "registered", "poll", "idle"}
    BY <1>0, <1>7 DEF RequestSuspend, PollRegister, PollAgain, CancelSuspend, RestType
  <2>2. MachineType'
    BY <1>0, <2>1 DEF MachineType, IdxInv, prxVars, smVars
  <2>3. RestType'
    BY <1>0, <2>1 DEF RestType, prxVars, smVars, peerVars
  <2> QED
    BY <2>2, <2>3, TypePartsPrime
<1>8. CASE Restore
  <2>1. /\ ctl' = "idle" /\ rf' = RadioReset /\ state' = "Idle" /\ last' = saved
        /\ suspend_requested' = FALSE /\ pending' = Line(rf')
        /\ UNCHANGED <<pool, rx_queue, rx_idx, pending_rx_idx, ack_tx_idx,
                       timeslot_managed, hdr, got, sent, sent_no_ack, heard,
                       suspend_signal, saved, listening, sender, send_idx, held>>
    BY <1>8 DEF Restore, DoRestore, Restored, poolVars, peerVars
  <2>2. ctl = "suspended" /\ state = "Idle"
    BY <1>0, <1>8 DEF Restore, DoRestore, RestType
  <2>3. rf' \in RadioType
    BY <2>1, ResetType
  <2>4. MachineType'
    BY <1>0, <2>1, <2>2, <2>3 DEF MachineType, RestType, IdxInv
  <2>5. Line(rf') \in BOOLEAN
    BY <2>3 DEF Line, RadioType
  <2>6. RestType'
    BY <1>0, <2>1, <2>5 DEF RestType
  <2> QED
    BY <2>4, <2>6, TypePartsPrime
<1> QED
  BY <1>1, <1>2, <1>3, <1>4, <1>5, <1>6, <1>7, <1>8 DEF Control

\* The driver starts well typed.
LEMMA InitType == EsbPrxInit => TypeInv
<1> SUFFICES ASSUME EsbPrxInit PROVE TypeInv
  OBVIOUS
<1>1. (CHOOSE p \in Pipes : TRUE) \in Pipes /\ MaxSeq \in Nat
  BY PrxAssumption
<1>2. NoLast \in LastType
  <2>1. 0 \in 0 .. 3
    OBVIOUS
  <2>2. <<0, FALSE>> \in (0 .. 3) \X BOOLEAN
    BY <2>1, Zenon
  <2> QED
    BY <2>1, <2>2 DEF NoLast, LastType
<1>3. /\ pool \in [Buf -> BufState] /\ rx_queue \in Seq(Buf)
      /\ last \in [Pipes -> LastType] /\ saved \in [Pipes -> LastType]
      /\ hdr \in [Buf -> Header] /\ rf \in RadioType
  BY <1>1, <1>2, ResetType DEF EsbPrxInit, Init, PoolInit, BufState, Header
<1>4. MachineType
  BY <1>1, <1>3, NoIdxFacts DEF EsbPrxInit, Init, MachineType, IdxInv, StatePrx
<1>5. RestType
  <2>1. -1 \in -1 .. MaxSeq
    BY <1>1
  <2>2. /\ sent \in [Pipes -> -1 .. MaxSeq] /\ heard \in [Pipes -> -1 .. MaxSeq]
        /\ sent_no_ack \in [Pipes -> BOOLEAN]
    BY <2>1 DEF EsbPrxInit, Init
  <2> QED
    BY <1>3, <2>2, NoIdxFacts DEF EsbPrxInit, RestType
<1> QED
  BY <1>4, <1>5, TypeParts

\* Every step keeps the types.
LEMMA NextType == TypeInv /\ [Next]_vars => TypeInv'
<1> SUFFICES ASSUME TypeInv, [Next]_vars PROVE TypeInv'
  OBVIOUS
<1>1. CASE UNCHANGED vars
  BY <1>1 DEF vars, prxVars, smVars, peerVars, driverVars, TypeInv, TypeOK, IdxInv
<1>2. CASE Next
  BY <1>2, IsrType, AirType, TaskType, ControlType DEF Next
<1> QED
  BY <1>1, <1>2

\* The driver's variables keep their types, and the indices of the state
\* machine are those its state requires.
THEOREM PrxTypeInvariant == Spec => []TypeInv
<1>1. EsbPrxInit => TypeInv
  BY InitType
<1>2. TypeInv /\ [Next]_vars => TypeInv'
  BY NextType
<1> QED
  BY <1>1, <1>2, PTL DEF Spec

\* Every variable of the PRX driver always holds a value of its type: the
\* indices are buffers or NO_IDX, queued packets are buffers, the duplicate
\* filters' PIDs stay in two bits.
THEOREM PrxTypeCorrect == Spec => []TypeOK
<1>1. TypeInv => TypeOK
  BY DEF TypeInv
<1> QED
  BY <1>1, PrxTypeInvariant, PTL

-----------------------------------------------------------------------------
(* The radio in each state of the state machine, stop and suspend          *)

\* In Idle the radio is off.  In Receiver it receives into rx_idx, or has
\* received and ramps up for the ACK by the shortcut; with an ACK it sends, or
\* has sent and ramps up to receive.
RadioInv ==
  /\ state = "Idle" => rf.mode = "off" /\ ~rf.disabled /\ ~rf.rxen
  /\ state = "Receiver" =>
       /\ rf.inten /\ rf.txen /\ ~rf.rxen /\ rf.ptr = rx_idx
       /\ (rf.mode = "rx" /\ ~rf.disabled) \/ (rf.mode = "tx" /\ rf.disabled)
  /\ state \in {"TxAck", "TxRepeatedAck"} =>
       /\ rf.inten /\ rf.rxen /\ ~rf.txen
       /\ (rf.mode = "tx" /\ ~rf.disabled) \/ (rf.mode = "rx" /\ rf.disabled)
  /\ state = "TxAck" => rf.ptr = ack_tx_idx
  /\ state = "TxRepeatedAck" => rf.ptr = Fallback

\* The steps of suspend() after the request
Requested == {"flagged", "recheck", "poll", "registered", "read", "ready", "final",
              "wait"}

\* The NVIC has RADIO pending when its line is high and at no other time, a
\* driver that is not to listen is idle, and a suspend() that waits, or reads the
\* state to decide, has its request and its waker in place.
DriverInv ==
  /\ pending = Line(rf)
  /\ ~listening => state = "Idle"
  /\ ctl \in {"listen", "suspended"} => ~listening
  /\ ctl \in Requested => suspend_requested
  /\ ctl \in {"registered", "read", "wait"} => suspend_signal \in {"registered", "woken"}
  /\ NoLostWakeup

PrxInv == TypeInv /\ RadioInv /\ DriverInv

\* What the register sequences leave in each register
LEMMA RadioFields ==
  ASSUME NEW r \in RadioType, NEW i
  PROVE  /\ RestartBadCrc(r) =
              [r EXCEPT !.mode = "rx", !.txen = TRUE, !.rxen = FALSE, !.inten = TRUE,
                        !.disabled = FALSE]
         /\ CompleteRxNoAck(Stop(r), i) =
              [r EXCEPT !.mode = "rx", !.txen = TRUE, !.rxen = FALSE, !.inten = TRUE,
                        !.disabled = FALSE, !.ptr = i]
         /\ r.mode = "off" =>
              StartReceiving(r, i) =
                [r EXCEPT !.mode = "rx", !.txen = TRUE, !.inten = TRUE, !.ptr = i,
                          !.disabled = FALSE]
<1> DEFINE s == [Stop(r) EXCEPT !.txen = TRUE, !.inten = TRUE]
           n == [Stop(r) EXCEPT !.ptr = i, !.txen = TRUE, !.inten = TRUE]
           a == [r EXCEPT !.txen = TRUE, !.inten = TRUE, !.ptr = i, !.disabled = FALSE]
<1>1. /\ s.mode = "off" /\ n.mode = "off" /\ a.mode = r.mode
  BY DEF Stop, RadioType
<1>2. /\ RestartBadCrc(r) = [s EXCEPT !.mode = "rx"]
      /\ CompleteRxNoAck(Stop(r), i) = [n EXCEPT !.mode = "rx"]
  BY <1>1 DEF RestartBadCrc, CompleteRxNoAck, Ramp
<1>3. r.mode = "off" => StartReceiving(r, i) = [a EXCEPT !.mode = "rx"]
  BY <1>1 DEF StartReceiving, Ramp
<1> QED
  BY <1>2, <1>3 DEF Stop, RadioType

\* Each branch of the handler finds the radio as its state says and leaves it as
\* the next state says.
LEMMA HandlerRadio ==
  ASSUME TypeInv, RadioInv, HandleRadioEvent, rf.disabled, TypeInv'
  PROVE  RadioInv'
<1>0. /\ rf \in RadioType /\ Seen \in RadioType /\ timeslot_managed = FALSE
      /\ Seen = [rf EXCEPT !.disabled = FALSE]
      /\ state \in StatePrx /\ IdxInv
  BY SeenType DEF TypeInv, TypeOK, Seen
<1>1. CASE OnBadCrc
  <2>1. /\ rf' = [rf EXCEPT !.mode = "rx", !.txen = TRUE, !.rxen = FALSE,
                            !.inten = TRUE, !.disabled = FALSE]
        /\ state = "Receiver" /\ UNCHANGED <<state, rx_idx>>
    BY <1>0, <1>1, RadioFields DEF OnBadCrc, smVars, RadioType
  <2> QED
    BY <1>0, <2>1 DEF RadioInv, RadioType
<1>2. CASE OnDuplicateNoAck \/ (OnNewNoAck /\ rx_idx' # NoIdx)
  <2>1. /\ rf' = CompleteRxNoAck(Stop(Seen), rx_idx')
        /\ state = "Receiver" /\ state' = "Receiver"
    BY <1>0, <1>2, Shortcuts DEF OnDuplicateNoAck, OnNewNoAck, Packet
  <2>2. rf' = [rf EXCEPT !.mode = "rx", !.txen = TRUE, !.rxen = FALSE,
                         !.inten = TRUE, !.disabled = FALSE, !.ptr = rx_idx']
    <3>1. rf' = [Seen EXCEPT !.mode = "rx", !.txen = TRUE, !.rxen = FALSE,
                             !.inten = TRUE, !.disabled = FALSE, !.ptr = rx_idx']
      BY <1>0, <2>1, RadioFields
    <3> QED
      BY <1>0, <3>1 DEF RadioType
  <2> QED
    BY <1>0, <2>1, <2>2 DEF RadioInv, RadioType
<1>3. CASE OnNewNoAck /\ rx_idx' = NoIdx
  <2>1. rf' = Stop(Seen) /\ state' = "Idle"
    BY <1>3 DEF OnNewNoAck
  <2> QED
    BY <1>0, <2>1 DEF RadioInv, RadioType, Stop
<1>4. CASE OnDuplicate \/ OnNew
  <2>1. /\ state = "Receiver"
        /\ \/ state' = "TxRepeatedAck" /\ rf' = SetupAckTx(Seen, rf.rxmatch, Fallback)
           \/ state' = "TxAck" /\ rf' = SetupAckTx(Seen, rf.rxmatch, ack_tx_idx')
    <3>1. CASE OnDuplicate
      BY <1>0, <3>1, Shortcuts DEF OnDuplicate, Packet
    <3>2. CASE OnNew
      BY <1>0, <3>2, Shortcuts, NoIdxFacts DEF OnNew, Packet
    <3> QED
      BY <1>4, <3>1, <3>2
  <2>2. rf.mode = "tx" /\ rf.inten
    BY <2>1 DEF RadioInv
  <2> QED
    BY <1>0, <2>1, <2>2 DEF RadioInv, RadioType, SetupAckTx
<1>5. CASE OnAckSent \/ OnRepeatedAckSent
  <2>1. /\ state \in {"TxAck", "TxRepeatedAck"}
        /\ \/ rf' = CompleteRxAck(Seen, rx_idx') /\ state' = "Receiver"
           \/ rf' = Stop(Seen) /\ state' = "Idle"
    BY <1>0, <1>5, Shortcuts DEF OnAckSent, OnRepeatedAckSent, ReceiveAfterAck
  <2>2. rf.mode = "rx" /\ rf.inten
    BY <2>1 DEF RadioInv
  <2> QED
    BY <1>0, <2>1, <2>2 DEF RadioInv, RadioType, CompleteRxAck, Stop
<1> QED
  BY <1>1, <1>2, <1>3, <1>4, <1>5 DEF HandleRadioEvent, IgnoreUserEvent, OnIdle

\* The handler, run when RADIO is pending
LEMMA IsrDriver == PrxInv /\ RadioIsr => RadioInv' /\ DriverInv'
<1> SUFFICES ASSUME PrxInv, RadioIsr PROVE RadioInv' /\ DriverInv'
  OBVIOUS
<1>1. TypeInv /\ TypeInv' /\ RadioInv /\ DriverInv
  BY IsrType DEF PrxInv
<1>2. rf \in RadioType /\ pending \in BOOLEAN /\ pending /\ rf.disabled
  BY <1>1 DEF RadioIsr, RadioReady, DriverInv, Line, TypeInv, TypeOK
<1>3. RadioInv' /\ state # "Idle"
  BY <1>1, <1>2, HandlerRadio DEF RadioIsr, RadioInv
<1>4. listening /\ ctl \notin {"listen", "suspended"}
  BY <1>1, <1>3 DEF DriverInv
<1>5. DriverInv'
  BY <1>1, <1>4 DEF RadioIsr, DriverInv, NoLostWakeup, Requested
<1> QED
  BY <1>3, <1>5

\* On the air the radio keeps to its state, and an end makes RADIO pending.
LEMMA AirDriver == PrxInv /\ Radio => RadioInv' /\ DriverInv'
<1> SUFFICES ASSUME PrxInv, Radio PROVE RadioInv' /\ DriverInv'
  OBVIOUS
<1>1. /\ TypeInv /\ RadioInv /\ DriverInv /\ rf \in RadioType /\ state \in StatePrx
      /\ ~pending
  BY DEF PrxInv, TypeInv, TypeOK, Radio
<1>2. /\ UNCHANGED <<state, rx_idx, ack_tx_idx, listening, ctl, suspend_requested,
                     suspend_signal>>
      /\ pending' = Line(rf')
  BY DEF Radio, AckEnd, Receive, Miss, driverVars, smVars
<1>3. ~rf.disabled \/ state = "Idle"
  BY <1>1 DEF DriverInv, RadioInv, Line, StatePrx
<1>4. RadioInv'
  <2>1. CASE AckEnd
    <3>1. rf' = [rf EXCEPT !.mode = IF rf.rxen THEN "rx" ELSE "off", !.disabled = TRUE]
          /\ rf.mode = "tx"
      BY <2>1 DEF AckEnd
    <3>2. state \in {"TxAck", "TxRepeatedAck"}
      BY <1>1, <1>3, <3>1 DEF RadioInv, StatePrx
    <3> QED
      BY <1>1, <1>2, <3>1, <3>2 DEF RadioInv, RadioType
  <2>2. ASSUME NEW p \in Pipes, Receive(p) PROVE RadioInv'
    <3>1. PICK n, na, ok : RxEnd(p, n, na, ok)
      BY <2>2 DEF Receive
    <3>2. rf' = [rf EXCEPT !.mode = IF rf.txen THEN "tx" ELSE "off", !.disabled = TRUE,
                           !.crcok = ok, !.rxmatch = p]
          /\ rf.mode = "rx"
      BY <3>1 DEF RxEnd
    <3>3. state = "Receiver"
      BY <1>1, <1>3, <3>2 DEF RadioInv, StatePrx
    <3> QED
      BY <1>1, <1>2, <3>2, <3>3 DEF RadioInv, RadioType
  <2>3. ASSUME NEW p \in Pipes, Miss(p) PROVE RadioInv'
    BY <1>1, <1>2, <2>3 DEF RadioInv, Miss
  <2> QED
    BY <2>1, <2>2, <2>3 DEF Radio
<1>5. DriverInv'
  BY <1>1, <1>2 DEF DriverInv, NoLostWakeup, Suspendable
<1> QED
  BY <1>4, <1>5

\* Neither the state machine nor the control task is touched by the tasks that
\* queue ACK payloads and receive.
LEMMA TaskDriver ==
  PrxInv /\ (Sending \/ ReceivePacket \/ DropReceived) => RadioInv' /\ DriverInv'
<1> SUFFICES ASSUME PrxInv, Sending \/ ReceivePacket \/ DropReceived
             PROVE  RadioInv' /\ DriverInv'
  OBVIOUS
<1>1. UNCHANGED <<state, rx_idx, ack_tx_idx, rf, pending, listening, ctl,
                  suspend_requested, suspend_signal>>
  BY DEF Sending, SendAlloc, SendEnqueue, ReceivePacket, DropReceived, smVars,
         driverVars
<1> QED
  BY <1>1 DEF PrxInv, RadioInv, DriverInv, NoLostWakeup, Suspendable

\* A step that only moves the control task to a place that needs nothing more
LEMMA MoveDriver ==
  ASSUME PrxInv, NEW from, NEW to, Move(from, to),
         to \in {"listen", "suspended"} => ~listening,
         to \in Requested => suspend_requested,
         to \in {"registered", "read", "wait"} => suspend_signal \in {"registered", "woken"},
         to = "wait" => ~Suspendable
  PROVE  RadioInv' /\ DriverInv'
<1>1. /\ UNCHANGED <<state, rx_idx, ack_tx_idx, rf, pending, listening,
                     suspend_requested, suspend_signal>>
      /\ ctl' = to
  BY DEF Move, prxVars, smVars, driverVars
<1> QED
  BY <1>1 DEF PrxInv, RadioInv, DriverInv, NoLostWakeup, Suspendable

\* stop and the end of a suspend leave the radio off and nothing pending.
LEMMA StopDriver ==
  ASSUME PrxInv, StopReceiving
  PROVE  RadioInv' /\ Line(rf') = FALSE /\ state' = "Idle"
<1>1. rf \in RadioType /\ rf' = Stop(rf) /\ state' = "Idle"
  BY DEF PrxInv, TypeInv, TypeOK, StopReceiving
<1> QED
  BY <1>1 DEF RadioInv, RadioType, Stop, Line

\* The same for the step that ends a suspend call
LEMMA SuspendDriver ==
  ASSUME PrxInv, NEW c, Suspend(c)
  PROVE  RadioInv' /\ DriverInv'
<1>1. /\ RadioInv' /\ Line(rf') = FALSE /\ state' = "Idle" /\ ctl' = "suspended"
      /\ pending' = Line(rf') /\ listening' = FALSE
  BY StopDriver DEF Suspend
<1> QED
  BY <1>1 DEF DriverInv, NoLostWakeup, Requested

\* The control task keeps to the protocol of stop and suspend.
LEMMA ControlDriver ==
  PrxInv /\ (BeginCall \/ BeginListen \/ Control \/ CancelSuspend \/ Restore)
    => RadioInv' /\ DriverInv'
<1> SUFFICES ASSUME PrxInv,
                    BeginCall \/ BeginListen \/ Control \/ CancelSuspend \/ Restore
             PROVE  RadioInv' /\ DriverInv'
  OBVIOUS
<1>0. TypeInv /\ RadioInv /\ DriverInv /\ rf \in RadioType /\ timeslot_managed = FALSE
  BY DEF PrxInv, TypeInv, TypeOK
<1>s. \A c : Suspend(c) => RadioInv' /\ DriverInv'
  BY SuspendDriver
<1>1. CASE BeginCall
  BY <1>1, MoveDriver DEF BeginCall, Requested
<1>2. CASE BeginListen
  BY <1>2, MoveDriver DEF BeginListen, Requested
<1>3. CASE Listen
  <2>1. /\ ctl = "listen" /\ ctl' = "idle" /\ StartListening
        /\ pending' = Line(rf') /\ listening' = (state' # "Idle")
        /\ UNCHANGED ack_tx_idx
    BY <1>3 DEF Listen
  <2>2. state = "Idle"
    BY <1>0, <2>1 DEF DriverInv
  <2>3. \/ rf' = StartReceiving(rf, rx_idx') /\ state' = "Receiver"
        \/ UNCHANGED <<rf, state>>
    BY <1>0, <2>1, <2>2, Shortcuts DEF StartListening
  <2>4. RadioInv'
    <3>1. CASE rf' = StartReceiving(rf, rx_idx') /\ state' = "Receiver"
      <4>1. rf' = [rf EXCEPT !.mode = "rx", !.txen = TRUE, !.inten = TRUE,
                             !.ptr = rx_idx', !.disabled = FALSE]
        BY <1>0, <2>2, <3>1, RadioFields DEF RadioInv
      <4> QED
        BY <1>0, <2>2, <3>1, <4>1 DEF RadioInv, RadioType
    <3>2. CASE UNCHANGED <<rf, state>>
      BY <1>0, <2>2, <3>2 DEF RadioInv
    <3> QED
      BY <2>3, <3>1, <3>2
  <2>5. DriverInv'
    BY <2>1 DEF DriverInv, NoLostWakeup, Requested
  <2> QED
    BY <2>4, <2>5
<1>4. CASE StopCall
  <2>1. /\ RadioInv' /\ Line(rf') = FALSE /\ state' = "Idle" /\ ctl' = "idle"
        /\ pending' = Line(rf') /\ listening' = FALSE
    BY <1>4, StopDriver DEF StopCall
  <2> QED
    BY <2>1 DEF DriverInv, NoLostWakeup, Requested
<1>5. CASE TrySuspend
  <2>1. Move("try", "idle") => RadioInv' /\ DriverInv'
    BY MoveDriver DEF Requested
  <2> QED
    BY <1>5, <1>s, <2>1 DEF TrySuspend, SuspendIfSuspendable
<1>6. CASE SuspendFast
  <2>1. Move("fast", "busy") => RadioInv' /\ DriverInv'
    BY MoveDriver DEF Requested
  <2> QED
    BY <1>6, <1>s, <2>1 DEF SuspendFast, SuspendIfSuspendable
<1>7. CASE RequestSuspend
  <2>1. /\ ctl' = "flagged" /\ suspend_requested' = TRUE
        /\ UNCHANGED <<state, rx_idx, ack_tx_idx, rf, pending, listening>>
    BY <1>7 DEF RequestSuspend, prxVars, smVars
  <2> QED
    BY <1>0, <2>1 DEF RadioInv, DriverInv, NoLostWakeup
<1>8. CASE SuspendRecheck
  <2>1. Move("flagged", "recheck") => RadioInv' /\ DriverInv'
    <3>1. Move("flagged", "recheck") => suspend_requested
      BY <1>0 DEF Move, DriverInv, Requested
    <3> QED
      BY <3>1, MoveDriver
  <2>2. Move("recheck", "poll") => RadioInv' /\ DriverInv'
    <3>1. Move("recheck", "poll") => suspend_requested
      BY <1>0 DEF Move, DriverInv, Requested
    <3> QED
      BY <3>1, MoveDriver
  <2> QED
    BY <1>8, <1>s, <2>1, <2>2 DEF SuspendRecheck, SuspendIfSuspendable
<1>9. CASE PollRegister
  <2>1. /\ ctl = "poll" /\ ctl' = "registered" /\ suspend_signal' = "registered"
        /\ UNCHANGED <<state, rx_idx, ack_tx_idx, rf, suspend_requested, pending,
                       listening>>
    BY <1>9 DEF PollRegister, prxVars, smVars
  <2> QED
    BY <1>0, <2>1 DEF RadioInv, DriverInv, NoLostWakeup, Requested
<1>10. CASE PollRead
  <2>1. ASSUME NEW from \in {"registered", "read"}, NEW to \in {"read", "ready", "wait"},
               Move(from, to), to = "wait" => ~Suspendable
        PROVE  RadioInv' /\ DriverInv'
    <3>1. suspend_requested /\ suspend_signal \in {"registered", "woken"}
      BY <1>0, <2>1 DEF Move, DriverInv, Requested
    <3>2. to \notin {"listen", "suspended"}
      BY <2>1
    <3> QED
      BY <2>1, <3>1, <3>2, MoveDriver
  <2> QED
    BY <1>10, <2>1 DEF PollRead
<1>11. CASE PollAgain
  <2>1. /\ ctl = "wait" /\ ctl' = "poll"
        /\ UNCHANGED <<state, rx_idx, ack_tx_idx, rf, suspend_requested, pending,
                       listening>>
    BY <1>11 DEF PollAgain, prxVars, smVars
  <2> QED
    BY <1>0, <2>1 DEF RadioInv, DriverInv, NoLostWakeup, Requested
<1>12. CASE SuspendFinal
  <2>1. Move("ready", "final") => RadioInv' /\ DriverInv'
    <3>1. Move("ready", "final") => suspend_requested
      BY <1>0 DEF Move, DriverInv, Requested
    <3> QED
      BY <3>1, MoveDriver
  <2> QED
    BY <1>12, <1>s, <2>1 DEF SuspendFinal
<1>13. CASE CancelSuspend
  <2>1. /\ ctl' = "idle"
        /\ UNCHANGED <<state, rx_idx, ack_tx_idx, rf, pending, listening>>
    BY <1>13 DEF CancelSuspend, prxVars, smVars
  <2> QED
    BY <1>0, <2>1 DEF RadioInv, DriverInv, NoLostWakeup, Requested
<1>14. CASE Restore
  <2>1. /\ ctl' = "idle" /\ rf' = RadioReset /\ state' = "Idle"
        /\ pending' = Line(rf') /\ UNCHANGED listening
    BY <1>14 DEF Restore, DoRestore
  <2>2. RadioInv'
    BY <2>1 DEF RadioInv, RadioReset
  <2>3. DriverInv'
    BY <1>0, <2>1 DEF DriverInv, NoLostWakeup, Requested
  <2> QED
    BY <2>2, <2>3
<1> QED
  BY <1>1, <1>2, <1>3, <1>4, <1>5, <1>6, <1>7, <1>8, <1>9, <1>10, <1>11, <1>12, <1>13,
     <1>14 DEF Control

\* The inductive invariant of the driver
THEOREM PrxInvariant == Spec => []PrxInv
<1>1. EsbPrxInit => PrxInv
  <2>1. EsbPrxInit => TypeInv
    BY InitType
  <2>2. EsbPrxInit => RadioInv
    BY DEF EsbPrxInit, Init, RadioInv, RadioReset
  <2>3. EsbPrxInit => DriverInv
    <3>1. Line(RadioReset) = FALSE
      BY DEF Line, RadioReset
    <3> QED
      BY <3>1 DEF EsbPrxInit, Init, DriverInv, NoLostWakeup, Requested
  <2> QED
    BY <2>1, <2>2, <2>3 DEF PrxInv
<1>2. PrxInv /\ [Next]_vars => PrxInv'
  <2> SUFFICES ASSUME PrxInv, [Next]_vars PROVE PrxInv'
    OBVIOUS
  <2>1. TypeInv'
    BY NextType DEF PrxInv
  <2>2. CASE UNCHANGED vars
    <3>1. RadioInv' /\ DriverInv'
      BY <2>2 DEF PrxInv, RadioInv, DriverInv, NoLostWakeup, Suspendable, vars, prxVars,
                  smVars, driverVars
    <3> QED
      BY <2>1, <3>1 DEF PrxInv
  <2>3. CASE Next
    BY <2>1, <2>3, IsrDriver, AirDriver, TaskDriver, ControlDriver DEF Next, PrxInv
  <2> QED
    BY <2>2, <2>3
<1> QED
  BY <1>1, <1>2, PTL DEF Spec

\* After stop or suspend the radio stays off until start_listening (isr.rs, lines
\* 841 to 862): RADIO is pending only with its line high, so the interrupt that
\* the masked section latched is gone with the unpend that follows the stop.
THEOREM PrxStaysStopped == Spec => []StaysStopped
<1>1. PrxInv => StaysStopped
  BY DEF PrxInv, DriverInv, RadioInv, StaysStopped
<1> QED
  BY <1>1, PrxInvariant, PTL

\* No wake-up of a waiting suspend() is lost: its waker is registered before it
\* reads the state, and a handler that makes the state suspendable later wakes it.
THEOREM PrxNoLostWakeup == Spec => []NoLostWakeup
<1>1. PrxInv => NoLostWakeup
  BY DEF PrxInv, DriverInv
<1> QED
  BY <1>1, PrxInvariant, PTL

-----------------------------------------------------------------------------
(* A driver that listens goes on: a receiver does not fall silent.         *)

\* Outside Idle the radio works and its end will interrupt, or has.
RadioAtWork == state # "Idle" => rf.inten /\ (pending \/ rf.mode # "off")

\* A receiver falls back to Idle by stop or suspend, or when the pool has no
\* buffer for the next packet.
StopsForWantOfBuffer ==
  state # "Idle" /\ state' = "Idle" => ~listening' \/ FreeBufs(pool') = {}

\* The search for a buffer fails in a pool without a free one only.
LEMMA NoneAllocated ==
  ASSUME NEW p \in [Buf -> BufState], AllocDmaBuffer(p), rx_idx' = NoIdx
  PROVE  FreeBufs(pool') = {}
<1>1. RxToDmaChoice(p) = {} /\ pool' = p
  BY NoIdxFacts, ChoiceType DEF AllocDmaBuffer
<1>2. FreeBufs(p) \in SUBSET Buf
  BY DEF FreeBufs, InState
<1> QED
  BY <1>1, <1>2, LowestExists DEF RxToDmaChoice

\* After an ACK
LEMMA AckStops ==
  ASSUME NEW p \in [Buf -> BufState], ReceiveAfterAck(p), state' = "Idle"
  PROVE  FreeBufs(pool') = {}
<1>1. Release(p, ack_tx_idx) \in [Buf -> BufState]
  BY PoolOpsType
<1>2. AllocDmaBuffer(Release(p, ack_tx_idx)) /\ rx_idx' = NoIdx
  BY DEF ReceiveAfterAck
<1> QED
  BY <1>1, <1>2, NoneAllocated

\* The handler, in any of its branches
LEMMA HandlerStops ==
  ASSUME TypeInv, HandleRadioEvent
  PROVE  StopsForWantOfBuffer
<1>0. pool \in [Buf -> BufState] /\ state \in StatePrx
  BY DEF TypeInv, TypeOK
<1>p. \A i : RxComplete(pool, i) \in [Buf -> BufState]
  BY <1>0, PoolOpsType
<1> SUFFICES ASSUME state # "Idle", state' = "Idle" PROVE FreeBufs(pool') = {}
  BY DEF StopsForWantOfBuffer
<1>1. CASE IgnoreUserEvent \/ OnBadCrc \/ OnDuplicateNoAck \/ OnDuplicate \/ OnNew
           \/ OnIdle
  BY <1>1 DEF IgnoreUserEvent, OnBadCrc, OnDuplicateNoAck, OnDuplicate, OnNew, OnIdle,
              Packet, smVars
<1>2. CASE OnNewNoAck
  <2>1. AllocDmaBuffer(RxComplete(pool, rx_idx))
    BY <1>2 DEF OnNewNoAck
  <2>2. rx_idx' = NoIdx
    BY <1>2 DEF OnNewNoAck
  <2> QED
    BY <1>p, <2>1, <2>2, NoneAllocated
<1>3. CASE OnAckSent
  <2>1. ReceiveAfterAck(RxComplete(pool, pending_rx_idx)) \/ ReceiveAfterAck(pool)
    BY <1>3 DEF OnAckSent
  <2> QED
    BY <1>0, <1>p, <2>1, AckStops
<1>4. CASE OnRepeatedAckSent
  BY <1>0, <1>4, AckStops DEF OnRepeatedAckSent
<1> QED
  BY <1>1, <1>2, <1>3, <1>4 DEF HandleRadioEvent

\* The other steps
LEMMA NextStops ==
  ASSUME TypeInv, [Next]_vars
  PROVE  StopsForWantOfBuffer
<1>1. CASE UNCHANGED vars
  BY <1>1 DEF StopsForWantOfBuffer, vars, prxVars, smVars
<1>2. CASE RadioIsr
  BY <1>2, HandlerStops DEF RadioIsr
<1>3. CASE Radio \/ Sending \/ ReceivePacket \/ DropReceived
  <2>1. UNCHANGED state
    BY <1>3 DEF Radio, AckEnd, Receive, Miss, Sending, SendAlloc, SendEnqueue,
                ReceivePacket, DropReceived, smVars
  <2> QED
    BY <2>1 DEF StopsForWantOfBuffer
<1>m. ASSUME NEW from, NEW to, Move(from, to) PROVE StopsForWantOfBuffer
  BY <1>m DEF Move, prxVars, smVars, StopsForWantOfBuffer
<1>s. ASSUME NEW c, Suspend(c) PROVE StopsForWantOfBuffer
  BY <1>s DEF Suspend, StopsForWantOfBuffer
<1>4. CASE BeginCall \/ BeginListen \/ TrySuspend \/ SuspendFast \/ SuspendRecheck
           \/ PollRead \/ SuspendFinal
  BY <1>4, <1>m, <1>s DEF BeginCall, BeginListen, TrySuspend, SuspendFast,
     SuspendRecheck, PollRead, SuspendFinal, SuspendIfSuspendable
<1>5. CASE Listen
  <2>1. listening' = (state' # "Idle")
    BY <1>5 DEF Listen
  <2> QED
    BY <2>1 DEF StopsForWantOfBuffer
<1>6. CASE StopCall
  BY <1>6 DEF StopCall, StopsForWantOfBuffer
<1>7. CASE RequestSuspend \/ PollRegister \/ PollAgain \/ CancelSuspend
  BY <1>7 DEF RequestSuspend, PollRegister, PollAgain, CancelSuspend, prxVars, smVars,
              StopsForWantOfBuffer
<1>8. CASE Restore
  <2>1. state = "Idle"
    BY <1>8 DEF Restore, TypeInv
  <2> QED
    BY <2>1 DEF StopsForWantOfBuffer
<1> QED
  BY <1>1, <1>2, <1>3, <1>4, <1>5, <1>6, <1>7, <1>8 DEF Next, Control

\* A driver that listens goes on listening: outside Idle its radio works with
\* the interrupt enabled, or that interrupt is pending, and it falls back to Idle
\* by stop, by suspend or for want of a buffer only (state_machine.rs:966), never
\* by a bad CRC, a repeat, or an ACK that falls together with a call.
THEOREM PrxKeepsListening ==
  Spec => []RadioAtWork /\ [][StopsForWantOfBuffer]_vars
<1>1. PrxInv => TypeInv /\ RadioAtWork
  <2>1. PrxInv => state \in StatePrx
    BY DEF PrxInv, TypeInv, TypeOK
  <2> QED
    BY <2>1 DEF PrxInv, RadioInv, RadioAtWork, StatePrx
<1>2. TypeInv /\ [Next]_vars => [StopsForWantOfBuffer]_vars
  BY NextStops
<1> QED
  BY <1>1, <1>2, PrxInvariant, PTL DEF Spec

-----------------------------------------------------------------------------
(* The ownership of the buffers                                            *)

Dma(p) == InState(p, "in_dma")

\* The state machine's indices name the buffers in DMA ownership, and differ.
MachineOwns ==
  /\ Dma(pool) = {rx_idx, pending_rx_idx, ack_tx_idx} \ {NoIdx}
  /\ pending_rx_idx # NoIdx => pending_rx_idx # ack_tx_idx

\* A received buffer is in the channel, once, or held by the application.
ReceiverOwns ==
  /\ \A i \in Buf : pool[i] = "rx_queued"
                      <=> i \in held \/ \E k \in 1 .. Len(rx_queue) : rx_queue[k] = i
  /\ \A k, l \in 1 .. Len(rx_queue) : rx_queue[k] = rx_queue[l] => k = l
  /\ \A k \in 1 .. Len(rx_queue) : rx_queue[k] \notin held

\* send_ack_payload fills a buffer of its own.
SenderOwns ==
  sender = "alloc" => send_idx \in Buf /\ pool[send_idx] = "tx_allocated"

OwnInv == MachineOwns /\ ReceiverOwns /\ SenderOwns

\* What the tasks own is the same in pool values p and q.
TasksOwn == {"rx_queued", "tx_allocated"}

Untouched(p, q) ==
  \A j \in Buf : p[j] \in TasksOwn \/ q[j] \in TasksOwn => q[j] = p[j]

\* The pool's operators on the set of buffers in DMA ownership
LEMMA DmaSets ==
  ASSUME NEW p \in [Buf -> BufState], NEW i
  PROVE  /\ Dma(Release(p, i)) = Dma(p) \ {i}
         /\ Dma(RxComplete(p, i)) = Dma(p) \ {i}
         /\ i \in Buf => Dma(ToDma(p, i)) = Dma(p) \cup {i}
BY DEF Dma, InState, Release, RxComplete, ToDma, Store

\* The pool's operators on what the tasks own
LEMMA PoolUntouched ==
  ASSUME NEW p \in [Buf -> BufState], NEW i, i \in Buf => p[i] \notin TasksOwn
  PROVE  Untouched(p, Release(p, i)) /\ Untouched(p, ToDma(p, i))
BY DEF Untouched, Release, ToDma, Store, TasksOwn

\* What two pool operations in turn leave alone, both leave alone.
LEMMA UntouchedTrans ==
  ASSUME NEW p, NEW q, NEW r, Untouched(p, q), Untouched(q, r)
  PROVE  Untouched(p, r)
BY DEF Untouched

\* A buffer in DMA is none of the tasks'.
LEMMA DmaNotTasks ==
  ASSUME NEW p, NEW i, i \in Dma(p) \/ p[i] \in {"free", "tx_queued"}
  PROVE  p[i] \notin TasksOwn
BY DEF Dma, InState, TasksOwn

\* alloc_dma_buffer adds the buffer it returns to those in DMA ownership.
LEMMA AllocDmaOwns ==
  ASSUME NEW p \in [Buf -> BufState], AllocDmaBuffer(p)
  PROVE  /\ Dma(pool') = Dma(p) \cup ({rx_idx'} \ {NoIdx})
         /\ rx_idx' \notin Dma(p)
         /\ Untouched(p, pool')
<1>1. CASE rx_idx' \in Buf /\ p[rx_idx'] = "free" /\ pool' = ToDma(p, rx_idx')
  <2>1. rx_idx' # NoIdx /\ rx_idx' \notin Dma(p)
    BY <1>1, NoIdxFacts DEF Dma, InState
  <2>2. p[rx_idx'] \notin TasksOwn
    BY <1>1, DmaNotTasks
  <2> QED
    BY <1>1, <2>1, <2>2, DmaSets, PoolUntouched
<1>2. CASE rx_idx' = NoIdx /\ pool' = p
  BY <1>2, NoIdxFacts DEF Dma, InState, Untouched
<1> QED
  BY <1>1, <1>2, AllocDma

\* The branches of the handler that hand out no packet
QuietBranch ==
  IgnoreUserEvent \/ OnBadCrc \/ OnDuplicateNoAck \/ OnDuplicate \/ OnNew
    \/ OnRepeatedAckSent \/ OnIdle

\* They leave the tasks' buffers alone.
LEMMA QuietOwns ==
  ASSUME TypeInv, MachineOwns, QuietBranch
  PROVE  MachineOwns' /\ Untouched(pool, pool') /\ UNCHANGED rx_queue
<1>0. pool \in [Buf -> BufState] /\ IdxInv /\ rx_idx \in Opt
  BY DEF TypeInv, TypeOK
<1>1. CASE IgnoreUserEvent \/ OnBadCrc
  BY <1>1 DEF IgnoreUserEvent, OnBadCrc, poolVars, smVars, MachineOwns, Untouched
<1>2. CASE OnDuplicateNoAck
  <2>1. /\ state = "Receiver" /\ rx_idx \in Buf
        /\ UNCHANGED <<rx_queue, pending_rx_idx, ack_tx_idx>>
        /\ pending_rx_idx = NoIdx /\ ack_tx_idx = NoIdx
        /\ Dma(pool) = {rx_idx}
    BY <1>0, <1>2, NoIdxFacts DEF OnDuplicateNoAck, Packet, IdxInv, Opt, MachineOwns
  <2>2. CASE UNCHANGED <<pool, rx_idx>>
    BY <2>1, <2>2 DEF MachineOwns, Untouched
  <2>3. CASE \E i \in RxToDmaChoice(pool) :
               pool' = Release(ToDma(pool, i), rx_idx) /\ rx_idx' = i
    <3>1. PICK i \in RxToDmaChoice(pool) :
               pool' = Release(ToDma(pool, i), rx_idx) /\ rx_idx' = i
      BY <2>3
    <3> DEFINE q == ToDma(pool, i)
    <3>2. i \in Buf /\ pool[i] = "free" /\ i # rx_idx /\ i # NoIdx
      BY <2>1, ChoiceType, NoIdxFacts DEF Dma, InState
    <3>3. q \in [Buf -> BufState] /\ Dma(q) = {rx_idx, i} /\ Untouched(pool, q)
      BY <1>0, <2>1, <3>2, PoolOpsType, DmaSets, PoolUntouched, DmaNotTasks
    <3>4. Dma(pool') = {i} /\ Untouched(q, pool')
      <4>1. q[rx_idx] \notin TasksOwn
        BY <3>3, DmaNotTasks
      <4>2. pool' = Release(q, rx_idx)
        BY <3>1
      <4>3. Dma(pool') = Dma(q) \ {rx_idx} /\ Untouched(q, pool')
        BY <3>3, <4>1, <4>2, DmaSets, PoolUntouched
      <4> QED
        BY <3>2, <3>3, <4>3
    <3> QED
      BY <2>1, <3>1, <3>2, <3>3, <3>4, UntouchedTrans DEF MachineOwns
  <2> QED
    BY <1>2, <2>2, <2>3 DEF OnDuplicateNoAck
<1>3. CASE OnDuplicate
  <2>1. /\ state = "Receiver" /\ pool' = Release(pool, rx_idx) /\ rx_idx' = NoIdx
        /\ UNCHANGED <<rx_queue, pending_rx_idx, ack_tx_idx>>
        /\ pending_rx_idx = NoIdx /\ ack_tx_idx = NoIdx /\ rx_idx # NoIdx
        /\ Dma(pool) = {rx_idx}
    BY <1>0, <1>3 DEF OnDuplicate, Packet, IdxInv, MachineOwns
  <2>2. Dma(pool') = {} /\ Untouched(pool, pool')
    BY <1>0, <2>1, DmaSets, PoolUntouched, DmaNotTasks
  <2> QED
    BY <2>1, <2>2 DEF MachineOwns
<1>4. CASE OnNew
  <2>1. /\ state = "Receiver" /\ pending_rx_idx' = rx_idx /\ rx_idx' = NoIdx
        /\ UNCHANGED rx_queue
        /\ pending_rx_idx = NoIdx /\ ack_tx_idx = NoIdx /\ rx_idx # NoIdx
        /\ Dma(pool) = {rx_idx}
    BY <1>0, <1>4 DEF OnNew, Packet, IdxInv, MachineOwns
  <2>2. CASE ack_tx_idx' = NoIdx /\ UNCHANGED pool
    BY <2>1, <2>2 DEF MachineOwns, Untouched
  <2>3. CASE \E i \in DequeueForPipeChoice(rf.rxmatch) :
               pool' = ToDma(pool, i) /\ ack_tx_idx' = i
    <3>1. PICK i \in DequeueForPipeChoice(rf.rxmatch) :
               pool' = ToDma(pool, i) /\ ack_tx_idx' = i
      BY <2>3
    <3>2. i \in Buf /\ pool[i] = "tx_queued"
      BY DEF DequeueForPipeChoice, Lowest, InState
    <3>3. i # rx_idx /\ i # NoIdx
      BY <2>1, <3>2, NoIdxFacts DEF Dma, InState
    <3>4. Dma(pool') = {rx_idx, i} /\ Untouched(pool, pool')
      BY <1>0, <2>1, <3>1, <3>2, DmaSets, PoolUntouched, DmaNotTasks
    <3> QED
      BY <2>1, <3>1, <3>3, <3>4 DEF MachineOwns
  <2> QED
    BY <1>4, <2>2, <2>3 DEF OnNew
<1>5. CASE OnRepeatedAckSent
  <2>1. /\ state = "TxRepeatedAck" /\ AllocDmaBuffer(Release(pool, ack_tx_idx))
        /\ UNCHANGED <<rx_queue, pending_rx_idx>> /\ ack_tx_idx' = NoIdx
        /\ rx_idx = NoIdx /\ pending_rx_idx = NoIdx /\ ack_tx_idx = NoIdx
        /\ Dma(pool) = {}
    BY <1>0, <1>5 DEF OnRepeatedAckSent, ReceiveAfterAck, IdxInv, MachineOwns
  <2>2. Release(pool, ack_tx_idx) = pool
    BY <2>1, NoIdxFacts DEF Release, Store
  <2> QED
    BY <1>0, <2>1, <2>2, AllocDmaOwns DEF MachineOwns
<1>6. CASE OnIdle
  <2>1. /\ state = "Idle" /\ AllocDmaBuffer(pool)
        /\ UNCHANGED <<rx_queue, pending_rx_idx, ack_tx_idx>>
        /\ rx_idx = NoIdx /\ pending_rx_idx = NoIdx /\ ack_tx_idx = NoIdx
        /\ Dma(pool) = {}
    BY <1>0, <1>6 DEF OnIdle, StartListening, IdxInv, MachineOwns
  <2> QED
    BY <1>0, <2>1, AllocDmaOwns DEF MachineOwns
<1> QED
  BY <1>1, <1>2, <1>3, <1>4, <1>5, <1>6 DEF QuietBranch

\* The branches that hand a packet out move its buffer to the channel.
LEMMA DeliverOwns ==
  ASSUME TypeInv, MachineOwns, OnNewNoAck \/ OnAckSent
  PROVE  /\ MachineOwns'
         /\ \E i \in Dma(pool) : /\ Deliver(i) /\ Untouched(RxComplete(pool, i), pool')
                                 /\ i = IF state = "Receiver" THEN rx_idx
                                                              ELSE pending_rx_idx
<1>0. pool \in [Buf -> BufState] /\ IdxInv
  BY DEF TypeInv, TypeOK
<1>1. CASE OnNewNoAck
  <2> DEFINE q == RxComplete(pool, rx_idx)
  <2>1. /\ state = "Receiver" /\ Deliver(rx_idx) /\ AllocDmaBuffer(q)
        /\ UNCHANGED <<pending_rx_idx, ack_tx_idx>>
        /\ pending_rx_idx = NoIdx /\ ack_tx_idx = NoIdx /\ rx_idx # NoIdx
        /\ Dma(pool) = {rx_idx}
    BY <1>0, <1>1 DEF OnNewNoAck, Packet, IdxInv, MachineOwns
  <2>2. q \in [Buf -> BufState] /\ Dma(q) = {}
    BY <1>0, <2>1, PoolOpsType, DmaSets
  <2>3. Dma(pool') = {rx_idx'} \ {NoIdx} /\ Untouched(q, pool')
    BY <2>1, <2>2, AllocDmaOwns
  <2> QED
    BY <2>1, <2>3 DEF MachineOwns
<1>2. CASE OnAckSent
  <2> DEFINE q == RxComplete(pool, pending_rx_idx)
             r == Release(q, ack_tx_idx)
  <2>1. /\ state = "TxAck" /\ Deliver(pending_rx_idx) /\ AllocDmaBuffer(r)
        /\ pending_rx_idx' = NoIdx /\ ack_tx_idx' = NoIdx
        /\ rx_idx = NoIdx /\ pending_rx_idx # NoIdx /\ pending_rx_idx # ack_tx_idx
        /\ Dma(pool) = {pending_rx_idx} \cup ({ack_tx_idx} \ {NoIdx})
    BY <1>0, <1>2 DEF OnAckSent, ReceiveAfterAck, IdxInv, MachineOwns
  <2>2. q \in [Buf -> BufState] /\ Dma(q) = {ack_tx_idx} \ {NoIdx}
    BY <1>0, <2>1, PoolOpsType, DmaSets
  <2>3. ack_tx_idx \in Buf => q[ack_tx_idx] \notin TasksOwn
    BY <2>2, DmaNotTasks, NoIdxFacts
  <2>4. r \in [Buf -> BufState] /\ Dma(r) = {} /\ Untouched(q, r)
    BY <2>2, <2>3, PoolOpsType, DmaSets, PoolUntouched
  <2>5. Dma(pool') = {rx_idx'} \ {NoIdx} /\ Untouched(r, pool')
    BY <2>1, <2>4, AllocDmaOwns
  <2>6. Untouched(q, pool')
    BY <2>4, <2>5, UntouchedTrans
  <2> QED
    BY <2>1, <2>5, <2>6 DEF MachineOwns
<1> QED
  BY <1>1, <1>2

\* What leaves the tasks' buffers alone leaves them their owners.
LEMMA UntouchedOwns ==
  ASSUME ReceiverOwns, Untouched(pool, pool'), UNCHANGED <<rx_queue, held>>
  PROVE  ReceiverOwns'
BY DEF ReceiverOwns, Untouched, TasksOwn

\* The same for the sender
LEMMA UntouchedSender ==
  ASSUME SenderOwns, Untouched(pool, pool'), UNCHANGED <<sender, send_idx>>
  PROVE  SenderOwns'
BY DEF SenderOwns, Untouched, TasksOwn

\* A packet handed out is the last of the channel, which was not full.
LEMMA ReceivedOwns ==
  ASSUME TypeInv, ReceiverOwns, NEW i \in Dma(pool), Deliver(i), UNCHANGED held,
         Untouched(RxComplete(pool, i), pool')
  PROVE  ReceiverOwns' /\ rx_queue' = Append(rx_queue, i)
<1> DEFINE q == RxComplete(pool, i)
<1>0. /\ i \in Buf /\ pool[i] = "in_dma" /\ rx_queue \in Seq(Buf)
      /\ pool \in [Buf -> BufState] /\ held \subseteq Buf
  BY DEF TypeInv, TypeOK, Dma, InState
<1>1. q[i] = "rx_queued" /\ \A j \in Buf : j # i => q[j] = pool[j]
  BY <1>0 DEF RxComplete, Store
<1>2. \A j \in Buf : pool'[j] = "rx_queued" <=> j = i \/ pool[j] = "rx_queued"
  BY <1>1 DEF Untouched, TasksOwn
<1>3. i \notin held /\ \A k \in 1 .. Len(rx_queue) : rx_queue[k] \in Buf \ {i}
  BY <1>0 DEF ReceiverOwns
<1>4. Len(rx_queue) < N
  BY <1>0, <1>3, QueueNotFull DEF ReceiverOwns
<1>5. /\ rx_queue' = Append(rx_queue, i) /\ Len(rx_queue') = Len(rx_queue) + 1
      /\ \A k \in 1 .. Len(rx_queue) : rx_queue'[k] = rx_queue[k]
      /\ rx_queue'[Len(rx_queue) + 1] = i
  BY <1>0, <1>4 DEF Deliver, RxSend
<1>6. /\ \A k \in 1 .. Len(rx_queue') : k \in 1 .. Len(rx_queue) \/ k = Len(rx_queue) + 1
      /\ \A k \in 1 .. Len(rx_queue) : k \in 1 .. Len(rx_queue')
      /\ Len(rx_queue) + 1 \in 1 .. Len(rx_queue')
  BY <1>0, <1>5
<1>7. ASSUME NEW j \in Buf
      PROVE  pool'[j] = "rx_queued"
               <=> j \in held' \/ \E k \in 1 .. Len(rx_queue') : rx_queue'[k] = j
  <2>1. (\E k \in 1 .. Len(rx_queue') : rx_queue'[k] = j)
          <=> j = i \/ \E k \in 1 .. Len(rx_queue) : rx_queue[k] = j
    BY <1>5, <1>6
  <2> QED
    BY <1>2, <2>1 DEF ReceiverOwns
<1>8. ASSUME NEW k \in 1 .. Len(rx_queue'), NEW l \in 1 .. Len(rx_queue'),
             rx_queue'[k] = rx_queue'[l]
      PROVE  k = l
  BY <1>3, <1>5, <1>6, <1>8 DEF ReceiverOwns
<1>9. ASSUME NEW k \in 1 .. Len(rx_queue') PROVE rx_queue'[k] \notin held'
  BY <1>3, <1>5, <1>6 DEF ReceiverOwns
<1> QED
  BY <1>5, <1>7, <1>8, <1>9 DEF ReceiverOwns

\* stop_receiving frees what the state machine holds, and that alone.
LEMMA StopOwns ==
  ASSUME TypeInv, MachineOwns, StopReceiving
  PROVE  MachineOwns' /\ Untouched(pool, pool') /\ UNCHANGED rx_queue
<1> DEFINE p == Release(pool, rx_idx)
           q == Release(p, pending_rx_idx)
           r == Release(q, ack_tx_idx)
<1>0. /\ pool \in [Buf -> BufState]
      /\ Dma(pool) = {rx_idx, pending_rx_idx, ack_tx_idx} \ {NoIdx}
      /\ IdxInv
      /\ pending_rx_idx # NoIdx => pending_rx_idx # ack_tx_idx
  BY DEF TypeInv, TypeOK, MachineOwns
<1>a. /\ rx_idx # NoIdx => pending_rx_idx = NoIdx /\ ack_tx_idx = NoIdx
      /\ pending_rx_idx # NoIdx \/ ack_tx_idx # NoIdx => rx_idx = NoIdx
  BY <1>0 DEF IdxInv
<1>1. /\ pool' = r /\ rx_idx' = NoIdx /\ pending_rx_idx' = NoIdx /\ ack_tx_idx' = NoIdx
      /\ UNCHANGED rx_queue
  BY DEF StopReceiving
<1>2. /\ p \in [Buf -> BufState] /\ Untouched(pool, p)
      /\ Dma(p) = {pending_rx_idx, ack_tx_idx} \ {NoIdx}
  <2>1. rx_idx \in Buf => pool[rx_idx] \notin TasksOwn
    BY <1>0, DmaNotTasks, NoIdxFacts
  <2>2. Dma(p) = Dma(pool) \ {rx_idx}
    BY <1>0, DmaSets
  <2> QED
    BY <1>0, <1>a, <2>1, <2>2, PoolOpsType, PoolUntouched
<1>3. /\ q \in [Buf -> BufState] /\ Untouched(p, q)
      /\ Dma(q) = {ack_tx_idx} \ {NoIdx}
  <2>1. pending_rx_idx \in Buf => p[pending_rx_idx] \notin TasksOwn
    BY <1>2, DmaNotTasks, NoIdxFacts
  <2>2. Dma(q) = Dma(p) \ {pending_rx_idx}
    BY <1>2, DmaSets
  <2> QED
    BY <1>0, <1>2, <2>1, <2>2, PoolOpsType, PoolUntouched
<1>4. Untouched(q, r) /\ Dma(r) = {}
  <2>1. ack_tx_idx \in Buf => q[ack_tx_idx] \notin TasksOwn
    BY <1>3, DmaNotTasks, NoIdxFacts
  <2>2. Dma(r) = Dma(q) \ {ack_tx_idx}
    BY <1>3, DmaSets
  <2> QED
    BY <1>3, <2>1, <2>2, PoolUntouched
<1> HIDE DEF p, q, r
<1>5. Untouched(pool, r)
  BY <1>2, <1>3, <1>4, UntouchedTrans
<1> QED
  BY <1>1, <1>4, <1>5 DEF MachineOwns

\* The handler keeps one owner for each buffer.
LEMMA IsrOwns == TypeInv /\ OwnInv /\ RadioIsr => OwnInv'
<1> SUFFICES ASSUME TypeInv, OwnInv, RadioIsr PROVE OwnInv'
  OBVIOUS
<1>0. UNCHANGED <<sender, send_idx, held>> /\ MachineOwns /\ ReceiverOwns /\ SenderOwns
  BY DEF RadioIsr, OwnInv
<1>1. CASE QuietBranch
  BY <1>0, <1>1, QuietOwns, UntouchedOwns, UntouchedSender DEF OwnInv
<1>2. CASE OnNewNoAck \/ OnAckSent
  <2>1. PICK i \in Dma(pool) : Deliver(i) /\ Untouched(RxComplete(pool, i), pool')
    BY <1>0, <1>2, DeliverOwns
  <2>2. MachineOwns' /\ ReceiverOwns'
    BY <1>0, <1>2, <2>1, DeliverOwns, ReceivedOwns
  <2>3. SenderOwns'
    <3>1. /\ pool \in [Buf -> BufState] /\ i \in Buf /\ pool[i] = "in_dma"
      BY DEF TypeInv, TypeOK, Dma, InState
    <3>2. \A j \in Buf : pool[j] = "tx_allocated" => RxComplete(pool, i)[j] = pool[j]
      BY <3>1 DEF RxComplete, Store
    <3> QED
      BY <1>0, <2>1, <3>2 DEF SenderOwns, Untouched, TasksOwn
  <2> QED
    BY <2>2, <2>3 DEF OwnInv
<1> QED
  BY <1>1, <1>2 DEF RadioIsr, HandleRadioEvent, QuietBranch

\* A step that changes no owner
LEMMA SameOwns ==
  ASSUME OwnInv, UNCHANGED <<pool, rx_queue, rx_idx, pending_rx_idx, ack_tx_idx, sender,
                             send_idx, held>>
  PROVE  OwnInv'
BY DEF OwnInv, MachineOwns, ReceiverOwns, SenderOwns

\* The tasks that queue ACK payloads and receive keep one owner for each buffer.
LEMMA TaskOwns == TypeInv /\ OwnInv /\ (Sending \/ ReceivePacket \/ DropReceived) => OwnInv'
<1> SUFFICES ASSUME TypeInv, OwnInv, Sending \/ ReceivePacket \/ DropReceived PROVE OwnInv'
  OBVIOUS
<1>0. /\ pool \in [Buf -> BufState] /\ rx_queue \in Seq(Buf) /\ held \subseteq Buf
      /\ MachineOwns /\ ReceiverOwns /\ SenderOwns
      /\ UNCHANGED <<rx_idx, pending_rx_idx, ack_tx_idx>>
  BY DEF TypeInv, TypeOK, OwnInv, Sending, SendAlloc, SendEnqueue, ReceivePacket,
         DropReceived, smVars
<1>1. CASE SendAlloc
  <2>1. PICK i \in AllocTxChoice(pool) : pool' = AllocTx(pool, i) /\ send_idx' = i
    BY <1>1 DEF SendAlloc
  <2>2. i \in Buf /\ pool[i] = "free"
    BY ChoiceType
  <2>3. /\ pool'[i] = "tx_allocated" /\ \A j \in Buf : j # i => pool'[j] = pool[j]
    BY <1>0, <2>1, <2>2 DEF AllocTx, Store
  <2>4. UNCHANGED <<rx_queue, held>>
    BY <1>1 DEF SendAlloc
  <2>5. Dma(pool') = Dma(pool)
    BY <2>2, <2>3 DEF Dma, InState
  <2>6. ReceiverOwns'
    BY <1>0, <2>2, <2>3, <2>4 DEF ReceiverOwns
  <2> QED
    BY <1>0, <2>1, <2>2, <2>3, <2>5, <2>6 DEF OwnInv, MachineOwns, SenderOwns
<1>2. CASE SendEnqueue
  <2>1. /\ sender = "alloc" /\ sender' = "idle" /\ pool' = EnqueueTx(pool, send_idx)
        /\ UNCHANGED <<rx_queue, held>>
    BY <1>2 DEF SendEnqueue
  <2>2. send_idx \in Buf /\ pool[send_idx] = "tx_allocated"
    BY <1>0, <2>1 DEF SenderOwns
  <2>3. /\ pool'[send_idx] = "tx_queued"
        /\ \A j \in Buf : j # send_idx => pool'[j] = pool[j]
    BY <1>0, <2>1, <2>2 DEF EnqueueTx, Store
  <2>4. Dma(pool') = Dma(pool)
    BY <2>2, <2>3 DEF Dma, InState
  <2>5. ReceiverOwns'
    BY <1>0, <2>1, <2>2, <2>3 DEF ReceiverOwns
  <2> QED
    BY <1>0, <2>1, <2>4, <2>5 DEF OwnInv, MachineOwns, SenderOwns
<1>3. CASE ReceivePacket
  <2>1. /\ rx_queue # <<>> /\ rx_queue' = Tail(rx_queue)
        /\ held' = held \cup {Head(rx_queue)} /\ UNCHANGED <<pool, sender, send_idx>>
    BY <1>3 DEF ReceivePacket
  <2>2. /\ Len(rx_queue) \in Nat /\ Len(rx_queue') = Len(rx_queue) - 1
        /\ \A k \in 1 .. Len(rx_queue') : rx_queue'[k] = rx_queue[k + 1]
        /\ Head(rx_queue) = rx_queue[1] /\ Len(rx_queue) >= 1
    BY <1>0, <2>1
  <2>3. /\ \A k \in 1 .. Len(rx_queue') : k + 1 \in 1 .. Len(rx_queue) /\ k + 1 # 1
        /\ 1 \in 1 .. Len(rx_queue)
    BY <2>2
  <2>4. ASSUME NEW k \in 1 .. Len(rx_queue), k # 1
        PROVE  \E l \in 1 .. Len(rx_queue') : rx_queue'[l] = rx_queue[k]
    <3>1. k - 1 \in 1 .. Len(rx_queue') /\ (k - 1) + 1 = k
      BY <2>2, <2>4
    <3> QED
      BY <2>2, <3>1
  <2>5. ASSUME NEW j \in Buf
        PROVE  pool'[j] = "rx_queued"
                 <=> j \in held' \/ \E k \in 1 .. Len(rx_queue') : rx_queue'[k] = j
    BY <1>0, <2>1, <2>2, <2>3, <2>4 DEF ReceiverOwns
  <2>6. ASSUME NEW k \in 1 .. Len(rx_queue'), NEW l \in 1 .. Len(rx_queue'),
               rx_queue'[k] = rx_queue'[l]
        PROVE  k = l
    <3>1. rx_queue[k + 1] = rx_queue[l + 1]
      BY <2>2, <2>6
    <3>2. k + 1 = l + 1
      BY <1>0, <2>3, <3>1 DEF ReceiverOwns
    <3> QED
      BY <2>2, <3>2
  <2>7. ASSUME NEW k \in 1 .. Len(rx_queue') PROVE rx_queue'[k] \notin held'
    BY <1>0, <2>1, <2>2, <2>3 DEF ReceiverOwns
  <2>8. ReceiverOwns'
    BY <2>5, <2>6, <2>7 DEF ReceiverOwns
  <2> QED
    BY <1>0, <2>1, <2>8 DEF OwnInv, MachineOwns, SenderOwns
<1>4. CASE DropReceived
  <2>1. PICK i \in held : pool' = Release(pool, i) /\ held' = held \ {i}
    BY <1>4 DEF DropReceived
  <2>2. UNCHANGED <<rx_queue, sender, send_idx>>
    BY <1>4 DEF DropReceived
  <2>3. i \in Buf /\ pool[i] = "rx_queued"
    BY <1>0 DEF ReceiverOwns
  <2>4. pool'[i] = "free" /\ \A j \in Buf : j # i => pool'[j] = pool[j]
    BY <1>0, <2>1, <2>3 DEF Release, Store
  <2>5. Dma(pool') = Dma(pool)
    BY <2>3, <2>4 DEF Dma, InState
  <2>6. ReceiverOwns'
    BY <1>0, <2>1, <2>2, <2>3, <2>4 DEF ReceiverOwns
  <2>7. SenderOwns'
    BY <1>0, <2>2, <2>3, <2>4 DEF SenderOwns
  <2> QED
    BY <1>0, <2>5, <2>6, <2>7 DEF OwnInv, MachineOwns
<1> QED
  BY <1>1, <1>2, <1>3, <1>4 DEF Sending

\* The control task keeps one owner for each buffer.
LEMMA ControlOwns ==
  TypeInv /\ OwnInv /\ (BeginCall \/ BeginListen \/ Control \/ CancelSuspend \/ Restore)
    => OwnInv'
<1> SUFFICES ASSUME TypeInv, OwnInv,
                    BeginCall \/ BeginListen \/ Control \/ CancelSuspend \/ Restore
             PROVE  OwnInv'
  OBVIOUS
<1>0. MachineOwns /\ ReceiverOwns /\ SenderOwns
  BY DEF OwnInv
<1>m. \A from, to : Move(from, to) => OwnInv'
  BY SameOwns DEF Move, prxVars, smVars
<1>s. StopReceiving /\ UNCHANGED <<sender, send_idx, held>> => OwnInv'
  BY <1>0, StopOwns, UntouchedOwns, UntouchedSender DEF OwnInv
<1>c. \A c : Suspend(c) => OwnInv'
  BY <1>s DEF Suspend
<1>1. CASE BeginCall \/ BeginListen \/ PollRead
  BY <1>1, <1>m DEF BeginCall, BeginListen, PollRead
<1>2. CASE Listen
  <2>1. /\ StartListening
        /\ UNCHANGED <<rx_queue, pending_rx_idx, ack_tx_idx, sender, send_idx, held>>
    BY <1>2 DEF Listen
  <2>2. CASE state = "Idle"
    <3>1. /\ AllocDmaBuffer(pool) /\ pool \in [Buf -> BufState]
          /\ rx_idx = NoIdx /\ pending_rx_idx = NoIdx /\ ack_tx_idx = NoIdx
          /\ Dma(pool) = {}
      BY <1>0, <2>1, <2>2 DEF StartListening, TypeInv, TypeOK, IdxInv, MachineOwns
    <3>2. MachineOwns' /\ Untouched(pool, pool')
      BY <2>1, <3>1, AllocDmaOwns DEF MachineOwns
    <3> QED
      BY <1>0, <2>1, <3>2, UntouchedOwns, UntouchedSender DEF OwnInv
  <2>3. CASE state # "Idle"
    BY <2>1, <2>3, SameOwns DEF StartListening
  <2> QED
    BY <2>2, <2>3
<1>3. CASE StopCall
  BY <1>3, <1>s DEF StopCall
<1>4. CASE TrySuspend \/ SuspendFast \/ SuspendRecheck \/ SuspendFinal
  BY <1>4, <1>m, <1>c
  DEF TrySuspend, SuspendFast, SuspendRecheck, SuspendFinal, SuspendIfSuspendable
<1>5. CASE RequestSuspend \/ PollRegister \/ PollAgain \/ CancelSuspend \/ Restore
  BY <1>5, SameOwns
  DEF RequestSuspend, PollRegister, PollAgain, CancelSuspend, Restore, DoRestore, prxVars, smVars,
      poolVars
<1> QED
  BY <1>1, <1>2, <1>3, <1>4, <1>5 DEF Control

\* Every step keeps one owner for each buffer.
LEMMA NextOwns == TypeInv /\ OwnInv /\ [Next]_vars => OwnInv'
<1> SUFFICES ASSUME TypeInv, OwnInv, [Next]_vars PROVE OwnInv'
  OBVIOUS
<1>1. CASE UNCHANGED vars
  BY <1>1, SameOwns DEF vars, prxVars, smVars
<1>2. CASE Radio
  BY <1>2, SameOwns DEF Radio, AckEnd, Receive, Miss, poolVars, smVars
<1>3. CASE Next /\ ~Radio
  BY <1>3, IsrOwns, TaskOwns, ControlOwns DEF Next
<1> QED
  BY <1>1, <1>2, <1>3

\* Each buffer has one owner at every time.
THEOREM PrxOneOwner == Spec => []OwnInv
<1>1. EsbPrxInit => OwnInv
  BY NoIdxFacts
  DEF EsbPrxInit, Init, PoolInit, OwnInv, MachineOwns, ReceiverOwns, SenderOwns, Dma,
      InState
<1>2. TypeInv /\ OwnInv /\ [Next]_vars => OwnInv'
  BY NextOwns
<1> QED
  BY <1>1, <1>2, PrxTypeInvariant, PTL DEF Spec

\* The state machine's indices name exactly the buffers in DMA ownership and the
\* channel and the application exactly the received ones: no path of a packet, an
\* ACK payload or a stop loses a buffer, for any pool.
THEOREM PrxBuffersKnown == Spec => []BuffersKnown
<1>1. TypeInv /\ OwnInv => BuffersKnown
  <2> SUFFICES ASSUME TypeInv, OwnInv PROVE BuffersKnown
    OBVIOUS
  <2>1. /\ IdxInv /\ MachineOwns /\ ReceiverOwns
        /\ rx_queue \in Seq(Buf) /\ held \subseteq Buf
    BY DEF TypeInv, TypeOK, OwnInv
  <2>2. InState(pool, "rx_queued") = held \cup {rx_queue[k] : k \in 1 .. Len(rx_queue)}
    BY <2>1 DEF ReceiverOwns, InState
  <2> QED
    BY <2>1, <2>2 DEF BuffersKnown, IdxInv, MachineOwns, ReceiverOwns, Dma
<1> QED
  BY <1>1, PrxTypeInvariant, PrxOneOwner, PTL

\* While the radio works, EasyDMA works on a buffer the state machine holds, or on
\* the fallback ACK, whatever the tasks do with theirs: what the radio points at
\* follows from the state, and what the state holds is in DMA ownership.
THEOREM PrxDmaOwned == Spec => []DmaOwned
<1>1. PrxInv /\ OwnInv => DmaOwned
  <2> SUFFICES ASSUME PrxInv, OwnInv PROVE DmaOwned
    OBVIOUS
  <2>1. /\ RadioInv /\ pending = Line(rf) /\ MachineOwns /\ IdxInv /\ state \in StatePrx
        /\ rf \in RadioType
    BY DEF PrxInv, DriverInv, OwnInv, TypeInv, TypeOK
  <2>2. rf.mode # "off" /\ rf.ptr # Fallback => rf.ptr \in Dma(pool)
    BY <2>1, NoIdxFacts DEF RadioInv, MachineOwns, IdxInv, StatePrx
  <2>3. rf.mode = "rx" /\ ~pending => state = "Receiver" /\ rf.ptr = rx_idx
    BY <2>1 DEF RadioInv, Line, StatePrx
  <2> QED
    BY <2>2, <2>3 DEF DmaOwned, Dma, InState
<1> QED
  BY <1>1, PrxInvariant, PrxOneOwner, PTL

-----------------------------------------------------------------------------
(* ACKs and their pipes                                                    *)

\* What the handler leaves of the headers and of the radio when it ends
LEMMA HandlerLeaves ==
  ASSUME TypeInv, HandleRadioEvent, rf.disabled
  PROVE  /\ rf'.disabled = FALSE
         /\ ~OnNew => state' # "TxAck"
         /\ hdr' = hdr \/ OnNew \/ OnNewNoAck
<1>0. /\ rf \in RadioType /\ Seen \in RadioType /\ timeslot_managed = FALSE
      /\ Seen.disabled = FALSE
  BY SeenType DEF TypeInv, TypeOK, Seen, RadioType
<1>r. CompleteRxNoAck(Stop(Seen), rx_idx').disabled = FALSE
  <2>1. CompleteRxNoAck(Stop(Seen), rx_idx') =
          [Seen EXCEPT !.mode = "rx", !.txen = TRUE, !.rxen = FALSE, !.inten = TRUE,
                       !.disabled = FALSE, !.ptr = rx_idx']
    BY <1>0, RadioFields
  <2> QED
    BY <1>0, <2>1 DEF RadioType
<1>1. CASE OnBadCrc
  BY <1>0, <1>1, RadioFields DEF OnBadCrc, smVars, RadioType
<1>2. CASE OnDuplicateNoAck
  <2>1. rf' = CompleteRxNoAck(Stop(Seen), rx_idx') /\ state' = "Receiver" /\ hdr' = hdr
    BY <1>0, <1>2, Shortcuts DEF OnDuplicateNoAck, Packet
  <2> QED
    BY <1>r, <2>1
<1>3. CASE OnNewNoAck
  <2>1. \/ rf' = CompleteRxNoAck(Stop(Seen), rx_idx') /\ state' = "Receiver"
        \/ rf' = Stop(Seen) /\ state' = "Idle"
    BY <1>0, <1>3, Shortcuts DEF OnNewNoAck, Packet
  <2>2. CompleteRxNoAck(Stop(Seen), rx_idx').disabled = FALSE
    BY <1>r
  <2>3. Stop(Seen).disabled = FALSE
    BY <1>0 DEF Stop, RadioType
  <2> QED
    BY <1>3, <2>1, <2>2, <2>3
<1>4. CASE OnDuplicate
  <2>1. rf' = SetupAckTx(Seen, rf.rxmatch, Fallback) /\ state' = "TxRepeatedAck" /\ hdr' = hdr
    BY <1>0, <1>4, Shortcuts DEF OnDuplicate
  <2> QED
    BY <1>0, <2>1 DEF SetupAckTx, RadioType
<1>5. CASE OnNew
  <2>1. rf' = SetupAckTx(Seen, rf.rxmatch, ack_tx_idx')
    BY <1>0, <1>5, Shortcuts, NoIdxFacts DEF OnNew
  <2> QED
    BY <1>0, <1>5, <2>1 DEF SetupAckTx, RadioType
<1>6. CASE OnAckSent \/ OnRepeatedAckSent
  <2>1. /\ \/ rf' = CompleteRxAck(Seen, rx_idx') /\ state' = "Receiver"
           \/ rf' = Stop(Seen) /\ state' = "Idle"
        /\ hdr' = hdr
    BY <1>0, <1>6, Shortcuts DEF OnAckSent, OnRepeatedAckSent, ReceiveAfterAck
  <2> QED
    BY <1>0, <2>1 DEF CompleteRxAck, Stop, RadioType
<1> QED
  BY <1>1, <1>2, <1>3, <1>4, <1>5, <1>6 DEF HandleRadioEvent, IgnoreUserEvent, OnIdle

\* The packet found by the handler: its buffer is the state machine's and none that
\* an ACK payload is queued in.
LEMMA NewPacket ==
  ASSUME TypeInv, MachineOwns, OnNew \/ OnNewNoAck
  PROVE  /\ rx_idx \in Buf /\ rf.rxmatch \in Pipes /\ pool[rx_idx] = "in_dma"
         /\ hdr \in [Buf -> Header] /\ state = "Receiver"
         /\ hdr' = [hdr EXCEPT ![rx_idx].pipe = rf.rxmatch]
         /\ hdr'[rx_idx].pipe = rf.rxmatch
         /\ hdr'[rx_idx].seq = hdr[rx_idx].seq
<1>1. /\ state = "Receiver" /\ IdxInv /\ rx_idx \in Opt /\ rf \in RadioType
      /\ hdr \in [Buf -> Header]
  BY TypeParts DEF MachineType, OnNew, OnNewNoAck, Packet
<1>2. rx_idx \in Buf /\ rf.rxmatch \in Pipes
  BY <1>1, NoIdxFacts DEF IdxInv, Opt, RadioType
<1>3. rx_idx \in Dma(pool)
  BY <1>2, NoIdxFacts DEF MachineOwns
<1>4. hdr' = [hdr EXCEPT ![rx_idx].pipe = rf.rxmatch]
  BY DEF OnNew, OnNewNoAck, UpdateDetection
<1> QED
  BY <1>1, <1>2, <1>3, <1>4 DEF Dma, InState, Header

\* A new packet is acknowledged to its own pipe, with a payload of that pipe.
LEMMA NewPacketPipe ==
  ASSUME TypeInv, MachineOwns, OnNew
  PROVE  /\ rf'.txaddress = rf.rxmatch
         /\ ack_tx_idx' # NoIdx => hdr'[ack_tx_idx'].pipe = rf.rxmatch
<1>1. /\ hdr \in [Buf -> Header] /\ hdr' = [hdr EXCEPT ![rx_idx].pipe = rf.rxmatch]
      /\ rx_idx \in Buf /\ pool[rx_idx] = "in_dma" /\ Seen \in RadioType
  BY NewPacket, SeenType
<1>2. CASE \E i \in DequeueForPipeChoice(rf.rxmatch) :
                /\ pool' = ToDma(pool, i) /\ ack_tx_idx' = i
                /\ rf' = TransmitAck(Seen, rf.rxmatch, i)
  <2>1. PICK i \in DequeueForPipeChoice(rf.rxmatch) :
               ack_tx_idx' = i /\ rf' = TransmitAck(Seen, rf.rxmatch, i)
    BY <1>2
  <2>2. rf' = SetupAckTx(Seen, rf.rxmatch, i)
    BY <2>1, Shortcuts DEF TypeInv
  <2>3. i \in Buf /\ pool[i] = "tx_queued" /\ hdr[i].pipe = rf.rxmatch
    BY DEF DequeueForPipeChoice, Lowest, InState
  <2>4. i # rx_idx
    BY <1>1, <2>3
  <2>5. hdr'[i].pipe = rf.rxmatch
    BY <1>1, <2>3, <2>4
  <2> QED
    BY <1>1, <2>1, <2>2, <2>5 DEF SetupAckTx, RadioType
<1>3. CASE ack_tx_idx' = NoIdx /\ rf' = TransmitAck(Seen, rf.rxmatch, Fallback)
  <2>1. rf' = SetupAckTx(Seen, rf.rxmatch, Fallback)
    BY <1>3, Shortcuts DEF TypeInv
  <2> QED
    BY <1>1, <1>3, <2>1 DEF SetupAckTx, RadioType
<1> QED
  BY <1>2, <1>3 DEF OnNew

\* The tasks write the header of a free buffer only: none the state machine holds.
LEMMA TaskHeaders ==
  ASSUME TypeInv, Sending \/ ReceivePacket \/ DropReceived,
         NEW i \in Buf, pool[i] = "in_dma"
  PROVE  hdr'[i] = hdr[i]
<1>1. CASE SendAlloc
  <2>1. PICK j \in AllocTxChoice(pool), p \in AckPipes :
               hdr' = [hdr EXCEPT ![j].pipe = p, ![j].no_ack = FALSE]
    BY <1>1 DEF SendAlloc
  <2>2. j \in Buf /\ pool[j] = "free"
    BY ChoiceType
  <2>3. i # j /\ hdr \in [Buf -> Header]
    BY <2>2, TypeParts DEF MachineType
  <2> QED
    BY <2>1, <2>3
<1> QED
  BY <1>1 DEF Sending, SendEnqueue, ReceivePacket, DropReceived

\* What start_receiving leaves: it starts an idle state machine only.
LEMMA ListenLeaves ==
  ASSUME TypeInv, RadioInv, Listen
  PROVE  /\ UNCHANGED <<rx_queue, pending_rx_idx, ack_tx_idx, last, hdr, peerVars, got, saved>>
         /\ ctl' = "idle"
         /\ \/ state = "Idle" /\ state' = "Receiver" /\ rf'.disabled = FALSE
            \/ UNCHANGED <<rx_idx, rf, state>>
            \/ state' = "Idle"
<1>1. /\ UNCHANGED <<rx_queue, pending_rx_idx, ack_tx_idx, last, hdr, peerVars, got, saved>>
      /\ ctl' = "idle" /\ StartListening /\ rf \in RadioType /\ timeslot_managed = FALSE
  BY DEF Listen, TypeInv, TypeOK, driverVars
<1>2. CASE state = "Idle" /\ rx_idx' # NoIdx
  <2>1. rf' = StartReceiving(rf, rx_idx') /\ state' = "Receiver"
    BY <1>1, <1>2, Shortcuts DEF StartListening
  <2>2. rf.mode = "off"
    BY <1>2 DEF RadioInv
  <2>3. rf' = [rf EXCEPT !.mode = "rx", !.txen = TRUE, !.inten = TRUE, !.ptr = rx_idx',
                         !.disabled = FALSE]
    BY <1>1, <2>1, <2>2, RadioFields
  <2>4. rf'.disabled = FALSE
    BY <1>1, <2>3 DEF RadioType
  <2> QED
    BY <1>1, <1>2, <2>1, <2>4
<1>3. CASE ~(state = "Idle" /\ rx_idx' # NoIdx)
  BY <1>1, <1>3 DEF StartListening
<1> QED
  BY <1>2, <1>3

\* What a control step leaves of the state machine: all of it, or nothing but its
\* duplicate filters, or it is start_receiving
LEMMA ControlLeaves ==
  ASSUME TypeInv, BeginCall \/ BeginListen \/ Control \/ CancelSuspend \/ Restore
  PROVE  \/ UNCHANGED prxVars
         \/ /\ state' = "Idle"
            /\ UNCHANGED <<rx_queue, hdr, peerVars, got>>
         \/ Listen
<1>m. \A from, to : Move(from, to) => UNCHANGED prxVars
  BY DEF Move
<1>c. \A c : Suspend(c) => state' = "Idle" /\ UNCHANGED <<rx_queue, hdr, peerVars, got>>
  BY DEF Suspend, StopReceiving
<1>1. CASE BeginCall \/ BeginListen \/ PollRead
  BY <1>1, <1>m DEF BeginCall, BeginListen, PollRead
<1>2. CASE TrySuspend \/ SuspendFast \/ SuspendRecheck \/ SuspendFinal
  BY <1>2, <1>m, <1>c
  DEF TrySuspend, SuspendFast, SuspendRecheck, SuspendFinal, SuspendIfSuspendable
<1>3. CASE RequestSuspend \/ PollRegister \/ PollAgain \/ CancelSuspend
  BY <1>3 DEF RequestSuspend, PollRegister, PollAgain, CancelSuspend
<1>4. CASE StopCall
  BY <1>4 DEF StopCall, StopReceiving
<1>5. CASE Restore
  BY <1>5 DEF Restore, DoRestore, poolVars
<1> QED
  BY <1>1, <1>2, <1>3, <1>4, <1>5 DEF Control

\* An ACK goes to the pipe of its packet, an ACK payload to the pipe it was queued
\* for (isr.rs, line 819): while the ACK is sent no task and no reception writes
\* the headers it was chosen by.
THEOREM PrxAckToItsPipe == Spec => []AckToItsPipe
<1>1. EsbPrxInit => AckToItsPipe
  BY DEF EsbPrxInit, Init, AckToItsPipe
<1>2. PrxInv /\ OwnInv /\ AckToItsPipe /\ [Next]_vars => AckToItsPipe'
  <2> SUFFICES ASSUME PrxInv, OwnInv, AckToItsPipe, [Next]_vars PROVE AckToItsPipe'
    OBVIOUS
  <2>0. /\ TypeInv /\ RadioInv /\ pending = Line(rf) /\ MachineOwns /\ IdxInv
        /\ rf \in RadioType /\ pending_rx_idx \in Opt /\ ack_tx_idx \in Opt
        /\ pending \in BOOLEAN
    BY DEF PrxInv, OwnInv, DriverInv, TypeInv, TypeOK
  <2>1. CASE RadioIsr
    <3>1. HandleRadioEvent /\ rf.disabled
      BY <2>0, <2>1 DEF RadioIsr, RadioReady, Line
    <3>2. CASE OnNew
      <4>1. pending_rx_idx' = rx_idx
        BY <3>2 DEF OnNew
      <4> QED
        BY <2>0, <3>2, <4>1, NewPacket, NewPacketPipe DEF AckToItsPipe
    <3>3. CASE ~OnNew
      BY <2>0, <3>1, <3>3, HandlerLeaves DEF AckToItsPipe
    <3> QED
      BY <3>2, <3>3
  <2>2. CASE Radio
    <3>1. UNCHANGED smVars /\ ~pending
      BY <2>2 DEF Radio, AckEnd, Receive, Miss
    <3>2. CASE AckEnd
      <4>1. rf'.txaddress = rf.txaddress /\ UNCHANGED hdr
        BY <2>0, <3>2 DEF AckEnd, RadioType
      <4> QED
        BY <3>1, <4>1 DEF AckToItsPipe, smVars
    <3>3. ASSUME NEW p \in Pipes, Receive(p) PROVE AckToItsPipe'
      <4>1. rf.mode = "rx"
        BY <3>3 DEF Receive, RxEnd
      <4>2. state # "TxAck"
        BY <2>0, <3>1, <4>1 DEF RadioInv, Line
      <4> QED
        BY <3>1, <4>2 DEF AckToItsPipe, smVars
    <3>4. ASSUME NEW p \in Pipes, Miss(p) PROVE AckToItsPipe'
      BY <3>1, <3>4 DEF AckToItsPipe, smVars, Miss
    <3> QED
      BY <2>2, <3>2, <3>3, <3>4 DEF Radio
  <2>3. CASE Sending \/ ReceivePacket \/ DropReceived
    <3>1. UNCHANGED <<state, pending_rx_idx, ack_tx_idx, rf>>
      BY <2>3 DEF Sending, SendAlloc, SendEnqueue, ReceivePacket, DropReceived, smVars
    <3>2. state = "TxAck" => pending_rx_idx \in Dma(pool)
      BY <2>0 DEF MachineOwns, IdxInv
    <3>3. ack_tx_idx # NoIdx => ack_tx_idx \in Dma(pool)
      BY <2>0 DEF MachineOwns
    <3> QED
      BY <2>0, <2>3, <3>1, <3>2, <3>3, TaskHeaders DEF AckToItsPipe, Dma, InState
  <2>4. CASE BeginCall \/ BeginListen \/ Control \/ CancelSuspend \/ Restore
    <3>1. CASE Listen
      BY <2>0, <3>1, ListenLeaves DEF AckToItsPipe
    <3>2. CASE ~Listen
      BY <2>0, <2>4, <3>2, ControlLeaves DEF AckToItsPipe, prxVars, smVars
    <3> QED
      BY <3>1, <3>2
  <2>5. CASE UNCHANGED vars
    BY <2>5 DEF AckToItsPipe, vars, prxVars, smVars
  <2> QED
    BY <2>1, <2>2, <2>3, <2>4, <2>5 DEF Next
<1> QED
  BY <1>1, <1>2, PrxInvariant, PrxOneOwner, PTL DEF Spec

-----------------------------------------------------------------------------
(* Delivery                                                                *)

\* The filter is never behind the application nor ahead of the peer, and it has
\* the CRC of the packet it has accepted last while the peer may repeat it.
FilterInv ==
  \A p \in Pipes :
    /\ got[p] <= Accepted(p) /\ Accepted(p) <= sent[p]
    /\ last[p].valid /\ last[p].pid = sent[p]
         => last[p].crc = <<sent[p], sent_no_ack[p]>>

\* A packet that waits for the handler is the one its peer sends: the ACK has not
\* ended, so that the peer has not gone on.
LatestInv ==
  state = "Receiver" /\ rf.disabled /\ rf.crcok =>
    /\ hdr[rx_idx].seq = sent[rf.rxmatch]
    /\ hdr[rx_idx].no_ack = sent_no_ack[rf.rxmatch]

\* A packet that is being acknowledged is the one accepted last, not handed out.
PendingInv ==
  state = "TxAck" =>
    LET h == hdr[pending_rx_idx]
    IN  last[h.pipe].valid /\ last[h.pipe].pid = h.seq /\ got[h.pipe] < h.seq

DeliveryInv ==
  /\ FilterInv /\ LatestInv /\ PendingInv
  /\ ctl = "suspended" => saved = last

\* With at most four packets a packet's PID is its number.
LEMMA PidIsNumber == \A n \in 0 .. MaxSeq : Pid(n) = n
<1>1. ASSUME NEW n \in 0 .. MaxSeq PROVE Pid(n) = n
  <2>1. n \in 0 .. 3
    BY PrxAssumption
  <2>2. n % 4 = n
    BY <2>1
  <2> QED
    BY <2>2 DEF Pid
<1> QED
  BY <1>1

\* What a new packet is, and what the filter keeps of it
LEMMA NewPacketNumber ==
  ASSUME TypeInv, MachineOwns, DeliveryInv, OnNew \/ OnNewNoAck
  PROVE  /\ hdr[rx_idx].seq = sent[rf.rxmatch]
         /\ Accepted(rf.rxmatch) < sent[rf.rxmatch]
         /\ got[rf.rxmatch] < sent[rf.rxmatch]
         /\ last' = [last EXCEPT ![rf.rxmatch] =
                       [valid |-> TRUE, pid |-> sent[rf.rxmatch],
                        crc |-> <<sent[rf.rxmatch], sent_no_ack[rf.rxmatch]>>]]
<1> DEFINE p == rf.rxmatch
           h == hdr[rx_idx]
<1>0. /\ p \in Pipes /\ h \in Header /\ rx_idx \in Buf
      /\ last \in [Pipes -> LastType] /\ got \in [Pipes -> -1 .. MaxSeq]
      /\ sent \in [Pipes -> -1 .. MaxSeq] /\ sent_no_ack \in [Pipes -> BOOLEAN]
      /\ MaxSeq \in 0 .. 3
  BY NewPacket, TypeParts, PrxAssumption DEF MachineType, RestType
<1>1. h.seq = sent[p] /\ h.no_ack = sent_no_ack[p]
  BY DEF DeliveryInv, LatestInv, OnNew, OnNewNoAck, Packet
<1>2. h.seq \in 0 .. MaxSeq /\ Pid(h.seq) = sent[p]
  BY <1>0, <1>1, PidIsNumber DEF Header
<1>3. Crc(h) = <<sent[p], sent_no_ack[p]>>
  BY <1>1, <1>2 DEF Crc
<1>4. /\ got[p] <= Accepted(p) /\ Accepted(p) <= sent[p]
      /\ last[p].valid /\ last[p].pid = sent[p] => last[p].crc = <<sent[p], sent_no_ack[p]>>
  BY <1>0 DEF DeliveryInv, FilterInv
<1>5. CheckDuplicate(p, h) = FALSE
  BY DEF OnNew, OnNewNoAck, Packet
<1>6. ~(last[p].valid /\ last[p].pid = sent[p])
  BY <1>2, <1>3, <1>4, <1>5 DEF CheckDuplicate
<1>7. last[p] \in LastType /\ got[p] \in -1 .. MaxSeq /\ sent[p] \in 0 .. MaxSeq
  BY <1>0, <1>1, <1>2
<1>8. Accepted(p) # sent[p] /\ Accepted(p) \in -1 .. 3
  BY <1>0, <1>6, <1>7 DEF Accepted, LastType
<1>9. Accepted(p) < sent[p] /\ got[p] < sent[p]
  BY <1>0, <1>4, <1>7, <1>8
<1>10. last' = [last EXCEPT ![p] = [valid |-> TRUE, pid |-> Pid(h.seq), crc |-> Crc(h)]]
  BY DEF OnNew, OnNewNoAck, UpdateDetection
<1> QED
  BY <1>1, <1>2, <1>3, <1>9, <1>10

\* A new packet leaves the filter in order, whether it is handed out at once or
\* held until its ACK has been sent.
LEMMA NewPacketFilter ==
  ASSUME TypeInv, TypeInv', MachineOwns, DeliveryInv, OnNew \/ OnNewNoAck,
         UNCHANGED peerVars
  PROVE  FilterInv' /\ PendingInv'
<1> DEFINE p == rf.rxmatch
<1>0. /\ p \in Pipes /\ rx_idx \in Buf
      /\ hdr'[rx_idx].pipe = p /\ hdr'[rx_idx].seq = hdr[rx_idx].seq
      /\ UNCHANGED <<sent, sent_no_ack>>
      /\ last \in [Pipes -> LastType] /\ got \in [Pipes -> -1 .. MaxSeq]
      /\ sent \in [Pipes -> -1 .. MaxSeq]
  BY NewPacket, TypeParts DEF MachineType, RestType, peerVars
<1>1. /\ hdr[rx_idx].seq = sent[p] /\ got[p] < sent[p]
      /\ last' = [last EXCEPT ![p] = [valid |-> TRUE, pid |-> sent[p],
                                      crc |-> <<sent[p], sent_no_ack[p]>>]]
  BY NewPacketNumber
<1>2. /\ last'[p].valid /\ last'[p].pid = sent[p]
      /\ last'[p].crc = <<sent[p], sent_no_ack[p]>>
      /\ \A q \in Pipes : q # p => last'[q] = last[q]
  BY <1>0, <1>1
<1>3. CASE OnNew
  <2>1. got' = got /\ pending_rx_idx' = rx_idx
    BY <1>3 DEF OnNew
  <2>2. FilterInv'
    <3> SUFFICES ASSUME NEW q \in Pipes
                 PROVE  /\ got[q] <= Accepted(q)' /\ Accepted(q)' <= sent[q]
                        /\ last'[q].valid /\ last'[q].pid = sent[q]
                             => last'[q].crc = <<sent[q], sent_no_ack[q]>>
      BY <1>0, <2>1 DEF FilterInv
    <3>1. CASE q = p
      BY <1>0, <1>1, <1>2, <3>1 DEF Accepted
    <3>2. CASE q # p
      BY <1>2, <3>2 DEF DeliveryInv, FilterInv, Accepted
    <3> QED
      BY <3>1, <3>2
  <2>3. PendingInv'
    BY <1>0, <1>1, <1>2, <2>1 DEF PendingInv
  <2> QED
    BY <2>2, <2>3
<1>4. CASE OnNewNoAck
  <2>1. got' = [got EXCEPT ![p] = sent[p]]
    BY <1>0, <1>1, <1>4 DEF OnNewNoAck, Deliver
  <2>2. FilterInv'
    <3> SUFFICES ASSUME NEW q \in Pipes
                 PROVE  /\ got'[q] <= Accepted(q)' /\ Accepted(q)' <= sent[q]
                        /\ last'[q].valid /\ last'[q].pid = sent[q]
                             => last'[q].crc = <<sent[q], sent_no_ack[q]>>
      BY <1>0 DEF FilterInv
    <3>1. CASE q = p
      BY <1>0, <1>1, <1>2, <2>1, <3>1 DEF Accepted
    <3>2. CASE q # p
      BY <1>0, <1>2, <2>1, <3>2 DEF DeliveryInv, FilterInv, Accepted
    <3> QED
      BY <3>1, <3>2
  <2>3. PendingInv'
    <3>1. state' # "TxAck"
      BY <1>4 DEF OnNewNoAck, Packet
    <3> QED
      BY <3>1 DEF PendingInv
  <2> QED
    BY <2>2, <2>3
<1> QED
  BY <1>3, <1>4

\* Handing out the packet whose ACK has ended keeps the filter's order.
LEMMA AckSentFilter ==
  ASSUME TypeInv, DeliveryInv, OnAckSent, UNCHANGED peerVars
  PROVE  FilterInv' /\ got' = [got EXCEPT ![hdr[pending_rx_idx].pipe] = hdr[pending_rx_idx].seq]
<1>0. /\ pending_rx_idx \in Buf /\ hdr[pending_rx_idx] \in Header
      /\ last \in [Pipes -> LastType] /\ got \in [Pipes -> -1 .. MaxSeq]
      /\ state = "TxAck" /\ pending_rx_idx # NoIdx
  BY NoIdxFacts, TypeParts DEF OnAckSent, MachineType, IdxInv, Opt
<1>1. /\ got' = [got EXCEPT ![hdr[pending_rx_idx].pipe] = hdr[pending_rx_idx].seq]
      /\ UNCHANGED <<last, hdr, sent, sent_no_ack>>
  BY <1>0 DEF OnAckSent, Deliver, peerVars
<1>2. /\ Accepted(hdr[pending_rx_idx].pipe) = hdr[pending_rx_idx].seq
      /\ hdr[pending_rx_idx].pipe \in Pipes /\ hdr[pending_rx_idx].seq \in Int
  BY <1>0, PrxAssumption DEF DeliveryInv, PendingInv, Accepted, Header
<1>3. ASSUME NEW q \in Pipes PROVE got'[q] <= Accepted(q)
  BY <1>0, <1>1, <1>2 DEF DeliveryInv, FilterInv
<1>4. \A q \in Pipes : Accepted(q)' = Accepted(q)
  BY <1>1 DEF Accepted
<1> QED
  BY <1>1, <1>3, <1>4 DEF DeliveryInv, FilterInv

\* What FilterInv and PendingInv say of the same filters and packets
LEMMA SameDelivery ==
  ASSUME DeliveryInv, UNCHANGED <<last, got, sent, sent_no_ack>>
  PROVE  /\ FilterInv'
         /\ state' # "TxAck" \/ UNCHANGED <<state, pending_rx_idx, hdr>> => PendingInv'
<1>1. \A q : Accepted(q)' = Accepted(q)
  BY DEF Accepted
<1> QED
  BY <1>1 DEF DeliveryInv, FilterInv, PendingInv

\* The handler keeps the filters and the packets in order.
LEMMA IsrDelivery == PrxInv /\ OwnInv /\ DeliveryInv /\ RadioIsr => DeliveryInv'
<1> SUFFICES ASSUME PrxInv, OwnInv, DeliveryInv, RadioIsr PROVE DeliveryInv'
  OBVIOUS
<1>0. /\ TypeInv /\ TypeInv' /\ MachineOwns /\ HandleRadioEvent /\ rf.disabled
      /\ UNCHANGED peerVars /\ UNCHANGED <<sent, sent_no_ack>>
      /\ ctl # "suspended" /\ ctl' = ctl
  BY IsrType DEF PrxInv, OwnInv, DriverInv, TypeInv, TypeOK, RadioIsr, RadioReady, Line,
                 HandleRadioEvent, MaskedCtl, peerVars
<1>1. LatestInv'
  BY <1>0, HandlerLeaves DEF LatestInv
<1>2. CASE OnNew \/ OnNewNoAck
  BY <1>0, <1>1, <1>2, NewPacketFilter DEF DeliveryInv
<1>3. CASE OnAckSent
  <2>1. state' # "TxAck"
    BY <1>3 DEF OnAckSent, ReceiveAfterAck
  <2> QED
    BY <1>0, <1>1, <1>3, <2>1, AckSentFilter DEF DeliveryInv, PendingInv
<1>4. CASE ~(OnNew \/ OnNewNoAck \/ OnAckSent)
  <2>1. UNCHANGED <<last, got>>
    BY <1>0, <1>4 DEF HandleRadioEvent, IgnoreUserEvent, OnBadCrc, OnDuplicateNoAck,
                      OnDuplicate, OnRepeatedAckSent, OnIdle, smVars
  <2>2. state' # "TxAck"
    BY <1>0, <1>4, HandlerLeaves
  <2> QED
    BY <1>0, <1>1, <2>1, <2>2, SameDelivery DEF DeliveryInv
<1> QED
  BY <1>2, <1>3, <1>4

\* On the air a peer goes on only while no packet of its own waits.
LEMMA AirDelivery == PrxInv /\ OwnInv /\ DeliveryInv /\ Radio => DeliveryInv'
<1> SUFFICES ASSUME PrxInv, OwnInv, DeliveryInv, Radio PROVE DeliveryInv'
  OBVIOUS
<1>0. /\ TypeInv /\ RadioInv /\ pending = Line(rf) /\ ~pending /\ rf \in RadioType
      /\ state \in StatePrx /\ IdxInv /\ rx_idx \in Opt
      /\ UNCHANGED <<state, rx_idx, pending_rx_idx, last, got, ctl, saved>>
      /\ last \in [Pipes -> LastType]
      /\ sent \in [Pipes -> -1 .. MaxSeq] /\ sent_no_ack \in [Pipes -> BOOLEAN]
      /\ MaxSeq \in 0 .. 3
  BY PrxAssumption DEF PrxInv, DriverInv, TypeInv, TypeOK, Radio, AckEnd, Receive, Miss,
                       smVars, driverVars
<1>1. ~rf.disabled \/ state = "Idle"
  BY <1>0 DEF RadioInv, Line, StatePrx
<1>a. \A q \in Pipes : Accepted(q)' = Accepted(q) /\ Accepted(q) \in -1 .. 3
  BY <1>0 DEF Accepted, LastType
<1>2. CASE AckEnd
  <2>1. UNCHANGED <<hdr, sent, sent_no_ack>> /\ rf.mode = "tx"
    BY <1>2 DEF AckEnd
  <2>2. state # "Receiver"
    BY <1>0, <1>1, <2>1 DEF RadioInv
  <2> QED
    BY <1>0, <2>1, <2>2, SameDelivery DEF DeliveryInv, LatestInv
<1>3. ASSUME NEW p \in Pipes, Receive(p) PROVE DeliveryInv'
  <2>1. PICK n \in 0 .. MaxSeq, na \in BOOLEAN, ok \in BOOLEAN :
               /\ PeerSends(p, n, na) /\ RxEnd(p, n, na, ok)
               /\ sent' = [sent EXCEPT ![p] = n]
               /\ sent_no_ack' = [sent_no_ack EXCEPT ![p] = na]
    BY <1>3 DEF Receive
  <2>2. state = "Receiver" /\ rf.ptr = rx_idx /\ rx_idx \in Buf
    BY <1>0, <1>1, <2>1, NoIdxFacts DEF RxEnd, RadioInv, StatePrx, IdxInv, Opt
  <2>3. /\ rf'.rxmatch = p /\ hdr'[rx_idx].seq = n /\ hdr'[rx_idx].no_ack = na
    BY <1>0, <2>1, <2>2, TypeParts DEF RxEnd, RadioType, MachineType, Header
  <2>4. sent'[p] = n /\ sent_no_ack'[p] = na
    BY <1>0, <2>1
  <2>5. LatestInv'
    BY <1>0, <2>3, <2>4 DEF LatestInv
  <2>6. PendingInv'
    BY <1>0, <2>2 DEF PendingInv
  <2>7. FilterInv'
    <3> SUFFICES ASSUME NEW q \in Pipes
                 PROVE  /\ got[q] <= Accepted(q) /\ Accepted(q) <= sent'[q]
                        /\ last[q].valid /\ last[q].pid = sent'[q]
                             => last[q].crc = <<sent'[q], sent_no_ack'[q]>>
      BY <1>0, <1>a DEF FilterInv
    <3>0. /\ got[q] <= Accepted(q) /\ Accepted(q) <= sent[q]
          /\ last[q].valid /\ last[q].pid = sent[q]
               => last[q].crc = <<sent[q], sent_no_ack[q]>>
      BY DEF DeliveryInv, FilterInv
    <3>1. CASE q # p
      BY <1>0, <2>1, <3>0, <3>1
    <3>2. CASE q = p /\ n = sent[p] /\ na = sent_no_ack[p]
      BY <2>4, <3>0, <3>2
    <3>3. CASE q = p /\ n = sent[p] + 1
      <4>1. Accepted(q) < n /\ Accepted(q) <= n
        BY <1>0, <1>a, <3>0, <3>3
      <4>2. ~(last[q].valid /\ last[q].pid = n)
        BY <1>a, <4>1 DEF Accepted
      <4> QED
        BY <2>4, <3>0, <3>3, <4>1, <4>2
    <3> QED
      BY <2>1, <3>1, <3>2, <3>3 DEF PeerSends
  <2> QED
    BY <1>0, <2>5, <2>6, <2>7 DEF DeliveryInv
<1>4. ASSUME NEW p \in Pipes, Miss(p) PROVE DeliveryInv'
  <2>1. /\ sent' = [sent EXCEPT ![p] = sent[p] + 1] /\ UNCHANGED <<hdr, rf>>
        /\ \E na \in NoAckKinds : sent_no_ack' = [sent_no_ack EXCEPT ![p] = na]
    BY <1>4 DEF Miss
  <2>2. LatestInv' /\ PendingInv'
    BY <1>0, <1>1, <2>1 DEF LatestInv, PendingInv, DeliveryInv
  <2>3. FilterInv'
    <3> SUFFICES ASSUME NEW q \in Pipes
                 PROVE  /\ got[q] <= Accepted(q) /\ Accepted(q) <= sent'[q]
                        /\ last[q].valid /\ last[q].pid = sent'[q]
                             => last[q].crc = <<sent'[q], sent_no_ack'[q]>>
      BY <1>0, <1>a DEF FilterInv
    <3>0. /\ got[q] <= Accepted(q) /\ Accepted(q) <= sent[q]
          /\ last[q].valid /\ last[q].pid = sent[q]
               => last[q].crc = <<sent[q], sent_no_ack[q]>>
      BY DEF DeliveryInv, FilterInv
    <3>1. CASE q # p
      BY <1>0, <2>1, <3>0, <3>1
    <3>2. CASE q = p
      <4>1. sent'[q] = sent[q] + 1 /\ Accepted(q) < sent'[q] /\ Accepted(q) <= sent'[q]
        BY <1>0, <1>a, <2>1, <3>0, <3>2
      <4>2. ~(last[q].valid /\ last[q].pid = sent'[q])
        BY <1>a, <4>1 DEF Accepted
      <4> QED
        BY <3>0, <4>1, <4>2
    <3> QED
      BY <3>1, <3>2
  <2> QED
    BY <1>0, <2>2, <2>3 DEF DeliveryInv
<1> QED
  BY <1>2, <1>3, <1>4 DEF Radio

\* The tasks write no header the handler reads.
LEMMA TaskDelivery ==
  PrxInv /\ OwnInv /\ DeliveryInv /\ (Sending \/ ReceivePacket \/ DropReceived)
    => DeliveryInv'
<1> SUFFICES ASSUME PrxInv, OwnInv, DeliveryInv, Sending \/ ReceivePacket \/ DropReceived
             PROVE  DeliveryInv'
  OBVIOUS
<1>0. /\ TypeInv /\ MachineOwns /\ IdxInv /\ rx_idx \in Opt /\ pending_rx_idx \in Opt
      /\ UNCHANGED <<state, rx_idx, pending_rx_idx, rf, last, got, sent, sent_no_ack,
                     ctl, saved>>
  BY DEF PrxInv, OwnInv, TypeInv, TypeOK, Sending, SendAlloc, SendEnqueue, ReceivePacket,
         DropReceived, smVars, peerVars, driverVars
<1>1. FilterInv'
  BY <1>0, SameDelivery
<1>2. state = "Receiver" => hdr'[rx_idx] = hdr[rx_idx]
  BY <1>0, TaskHeaders, NoIdxFacts DEF MachineOwns, IdxInv, Opt, Dma, InState
<1>3. state = "TxAck" => hdr'[pending_rx_idx] = hdr[pending_rx_idx]
  BY <1>0, TaskHeaders, NoIdxFacts DEF MachineOwns, IdxInv, Opt, Dma, InState
<1> QED
  BY <1>0, <1>1, <1>2, <1>3 DEF DeliveryInv, LatestInv, PendingInv

\* The control task keeps the filters, through suspend and restore too.
LEMMA ControlDelivery ==
  PrxInv /\ DeliveryInv /\ (BeginCall \/ BeginListen \/ Control \/ CancelSuspend \/ Restore)
    => DeliveryInv'
<1> SUFFICES ASSUME PrxInv, DeliveryInv,
                    BeginCall \/ BeginListen \/ Control \/ CancelSuspend \/ Restore
             PROVE  DeliveryInv'
  OBVIOUS
<1>0. TypeInv /\ RadioInv
  BY DEF PrxInv
<1>1. CASE Listen
  <2>1. /\ UNCHANGED <<last, got, sent, sent_no_ack, hdr, pending_rx_idx>>
        /\ ctl' = "idle"
    BY <1>0, <1>1, ListenLeaves DEF peerVars
  <2>2. LatestInv'
    BY <1>0, <1>1, <2>1, ListenLeaves DEF DeliveryInv, LatestInv
  <2>3. state' # "TxAck" \/ UNCHANGED <<state, pending_rx_idx, hdr>>
    BY <1>0, <1>1, <2>1, ListenLeaves
  <2> QED
    BY <2>1, <2>2, <2>3, SameDelivery DEF DeliveryInv
<1>2. CASE \E c : Suspend(c)
  <2>1. /\ UNCHANGED <<last, got, sent, sent_no_ack>> /\ saved' = last /\ state' = "Idle"
    BY <1>2 DEF Suspend, StopReceiving, peerVars
  <2> QED
    BY <2>1, SameDelivery DEF DeliveryInv, LatestInv
<1>3. CASE StopCall
  <2>1. /\ UNCHANGED <<last, got, sent, sent_no_ack>> /\ state' = "Idle" /\ ctl' = "idle"
    BY <1>3 DEF StopCall, StopReceiving, peerVars
  <2> QED
    BY <2>1, SameDelivery DEF DeliveryInv, LatestInv
<1>4. CASE Restore
  <2>1. /\ ctl = "suspended" /\ last' = saved /\ state' = "Idle" /\ ctl' = "idle"
        /\ UNCHANGED <<got, sent, sent_no_ack>>
    BY <1>4 DEF Restore, DoRestore, Restored, peerVars
  <2>2. last' = last
    BY <2>1 DEF DeliveryInv
  <2> QED
    BY <2>1, <2>2, SameDelivery DEF DeliveryInv, LatestInv
<1>5. CASE ~(Listen \/ (\E c : Suspend(c)) \/ StopCall \/ Restore)
  <2>1. UNCHANGED prxVars /\ UNCHANGED saved /\ ctl' # "suspended"
    <3>1. \A from, to : to # "suspended" /\ Move(from, to) =>
            UNCHANGED prxVars /\ UNCHANGED saved /\ ctl' # "suspended"
      BY DEF Move, driverVars
    <3> QED
      BY <1>5, <3>1
      DEF BeginCall, BeginListen, Control, TrySuspend, SuspendFast, SuspendRecheck,
          SuspendFinal, SuspendIfSuspendable, PollRead, RequestSuspend, PollRegister,
          PollAgain, CancelSuspend
  <2>2. UNCHANGED <<last, got, sent, sent_no_ack, state, pending_rx_idx, hdr, rf, rx_idx>>
    BY <2>1 DEF prxVars, smVars, peerVars
  <2> QED
    BY <2>1, <2>2, SameDelivery DEF DeliveryInv, LatestInv
<1> QED
  BY <1>1, <1>2, <1>3, <1>4, <1>5

\* The filters, the packets and the application agree at every time.
THEOREM PrxDelivery == Spec => []DeliveryInv
<1>1. EsbPrxInit => DeliveryInv
  <2> SUFFICES ASSUME EsbPrxInit PROVE DeliveryInv
    OBVIOUS
  <2>1. /\ state = "Idle" /\ ctl = "idle"
        /\ \A p \in Pipes : last[p].valid = FALSE /\ got[p] = -1 /\ sent[p] = -1
    BY DEF EsbPrxInit, Init, NoLast
  <2>2. \A p \in Pipes : Accepted(p) = -1
    BY <2>1 DEF Accepted
  <2> QED
    BY <2>1, <2>2 DEF DeliveryInv, FilterInv, LatestInv, PendingInv
<1>2. PrxInv /\ OwnInv /\ DeliveryInv /\ [Next]_vars => DeliveryInv'
  <2> SUFFICES ASSUME PrxInv, OwnInv, DeliveryInv, [Next]_vars PROVE DeliveryInv'
    OBVIOUS
  <2>1. CASE UNCHANGED vars
    <3>1. UNCHANGED <<last, got, sent, sent_no_ack, state, pending_rx_idx, hdr, rf, rx_idx,
                      ctl, saved>>
      BY <2>1 DEF vars, prxVars, smVars, peerVars, driverVars
    <3> QED
      BY <3>1, SameDelivery DEF DeliveryInv, LatestInv
  <2>2. CASE Next
    BY <2>2, IsrDelivery, AirDelivery, TaskDelivery, ControlDelivery DEF Next
  <2> QED
    BY <2>1, <2>2
<1> QED
  BY <1>1, <1>2, PrxInvariant, PrxOneOwner, PTL DEF Spec

\* A packet handed out is newer than all of its pipe before it.
LEMMA DeliversNewer ==
  ASSUME TypeInv, NEW i \in Buf, Deliver(i), hdr'[i].seq > got[hdr'[i].pipe],
         Len(rx_queue') > Len(rx_queue)
  PROVE  LET m == hdr'[rx_queue'[Len(rx_queue')]] IN m.seq > got[m.pipe]
<1>0. rx_queue \in Seq(Buf)
  BY DEF TypeInv, TypeOK
<1>1. rx_queue' = Append(rx_queue, i)
  BY DEF Deliver, RxSend
<1>2. rx_queue'[Len(rx_queue')] = i
  BY <1>0, <1>1
<1> QED
  BY <1>2

\* The application gets the packets of a pipe in order and none twice, whatever is
\* repeated, lost or damaged on the air, through stop, suspend and restore.
THEOREM PrxDeliveredOnce == Spec => DeliveredOnce
<1> DEFINE Newer ==
      Len(rx_queue') > Len(rx_queue) =>
        LET m == hdr'[rx_queue'[Len(rx_queue')]] IN m.seq > got[m.pipe]
<1>1. PrxInv /\ OwnInv /\ DeliveryInv /\ [Next]_vars => Newer
  <2> SUFFICES ASSUME PrxInv, OwnInv, DeliveryInv, [Next]_vars PROVE Newer
    OBVIOUS
  <2>0. TypeInv /\ MachineOwns /\ rx_queue \in Seq(Buf)
    BY DEF PrxInv, OwnInv, TypeInv, TypeOK
  <2>1. CASE RadioIsr
    <3>1. CASE OnNewNoAck
      <4>1. /\ Deliver(rx_idx) /\ rx_idx \in Buf
            /\ hdr'[rx_idx].seq > got[hdr'[rx_idx].pipe]
        BY <2>0, <3>1, NewPacket, NewPacketNumber, TypeParts
        DEF OnNewNoAck, MachineType, RestType
      <4> QED
        BY <2>0, <4>1, DeliversNewer
    <3>2. CASE OnAckSent
      <4>1. /\ Deliver(pending_rx_idx) /\ pending_rx_idx \in Buf /\ hdr' = hdr
            /\ state = "TxAck"
        BY <2>0, <3>2, NoIdxFacts, TypeParts DEF OnAckSent, MachineType, IdxInv, Opt
      <4>2. /\ hdr[pending_rx_idx] \in Header /\ got \in [Pipes -> -1 .. MaxSeq]
            /\ MaxSeq \in 0 .. 3
        BY <2>0, <4>1, TypeParts, PrxAssumption DEF MachineType
      <4>3. hdr'[pending_rx_idx].seq > got[hdr'[pending_rx_idx].pipe]
        BY <4>1, <4>2 DEF DeliveryInv, PendingInv, Header
      <4> QED
        BY <2>0, <4>1, <4>3, DeliversNewer
    <3>3. CASE QuietBranch
      BY <2>0, <3>3, QuietOwns
    <3> QED
      BY <2>1, <3>1, <3>2, <3>3 DEF RadioIsr, HandleRadioEvent, QuietBranch
  <2>2. CASE ReceivePacket
    <3>1. rx_queue # <<>> /\ rx_queue' = Tail(rx_queue)
      BY <2>2 DEF ReceivePacket
    <3> QED
      BY <2>0, <3>1
  <2>3. CASE Radio \/ Sending \/ DropReceived \/ UNCHANGED vars
    <3>1. UNCHANGED rx_queue
      BY <2>3 DEF Radio, AckEnd, Receive, Miss, poolVars, Sending, SendAlloc,
                  SendEnqueue, DropReceived, vars, prxVars
    <3> QED
      BY <2>0, <3>1
  <2>4. CASE BeginCall \/ BeginListen \/ Control \/ CancelSuspend \/ Restore
    <3>1. UNCHANGED rx_queue
      BY <2>0, <2>4, ControlLeaves DEF Listen, prxVars
    <3> QED
      BY <2>0, <3>1
  <2> QED
    BY <2>1, <2>2, <2>3, <2>4 DEF Next
<1> QED
  BY <1>1, PrxInvariant, PrxOneOwner, PrxDelivery, PTL DEF Spec, DeliveredOnce

-----------------------------------------------------------------------------
(* What an ACK on the air acknowledges                                     *)

\* An ACK on the air is for the packet its peer sends, accepted now or before.
SendingInv ==
  state \in {"TxAck", "TxRepeatedAck"} /\ rf.mode = "tx"
    => sent[rf.txaddress] = Accepted(rf.txaddress)

\* All that is known of a state of the driver
AllInv == PrxInv /\ OwnInv /\ DeliveryInv /\ AckToItsPipe /\ SendingInv

\* The types the lemmas below need
LEMMA DriverTypes ==
  AllInv => /\ rf \in RadioType /\ hdr \in [Buf -> Header] /\ last \in [Pipes -> LastType]
            /\ got \in [Pipes -> -1 .. MaxSeq] /\ sent \in [Pipes -> -1 .. MaxSeq]
            /\ heard \in [Pipes -> -1 .. MaxSeq] /\ MaxSeq \in 0 .. 3
            /\ state \in StatePrx /\ IdxInv /\ MachineOwns /\ TypeInv /\ RadioInv
            /\ \A p \in Pipes : Accepted(p) \in -1 .. 3
<1> SUFFICES ASSUME AllInv
             PROVE  /\ rf \in RadioType /\ hdr \in [Buf -> Header]
                    /\ last \in [Pipes -> LastType]
                    /\ got \in [Pipes -> -1 .. MaxSeq] /\ sent \in [Pipes -> -1 .. MaxSeq]
                    /\ heard \in [Pipes -> -1 .. MaxSeq] /\ MaxSeq \in 0 .. 3
                    /\ state \in StatePrx /\ IdxInv /\ MachineOwns /\ TypeInv /\ RadioInv
                    /\ \A p \in Pipes : Accepted(p) \in -1 .. 3
  OBVIOUS
<1>1. TypeInv /\ RadioInv /\ MachineOwns
  BY DEF AllInv, PrxInv, OwnInv
<1>2. MachineType /\ RestType
  BY <1>1, TypeParts
<1>3. \A p \in Pipes : Accepted(p) \in -1 .. 3
  BY <1>2 DEF MachineType, Accepted, LastType
<1> QED
  BY <1>1, <1>2, <1>3, PrxAssumption DEF MachineType, RestType

\* A new packet is accepted; no other pipe's filter changes.
LEMMA NewPacketAccepted ==
  ASSUME AllInv, OnNew \/ OnNewNoAck
  PROVE  \A q \in Pipes : Accepted(q)' = IF q = rf.rxmatch THEN sent[rf.rxmatch]
                                                           ELSE Accepted(q)
<1>1. /\ rf.rxmatch \in Pipes
      /\ last' = [last EXCEPT ![rf.rxmatch] =
                    [valid |-> TRUE, pid |-> sent[rf.rxmatch],
                     crc |-> <<sent[rf.rxmatch], sent_no_ack[rf.rxmatch]>>]]
  BY DriverTypes, NewPacket, NewPacketNumber DEF AllInv
<1> QED
  BY <1>1, DriverTypes DEF Accepted

\* The handler acknowledges the packet its peer sends, new or repeated.
LEMMA IsrSending ==
  ASSUME AllInv, RadioIsr
  PROVE  SendingInv'
<1> DEFINE p == rf.rxmatch
<1>0. /\ TypeInv /\ MachineOwns /\ HandleRadioEvent /\ rf.disabled /\ DeliveryInv
      /\ UNCHANGED <<sent, heard>> /\ RadioInv /\ IdxInv /\ rf \in RadioType
      /\ Seen \in RadioType /\ timeslot_managed = FALSE
  <2>1. rf.disabled
    BY DEF AllInv, PrxInv, DriverInv, TypeInv, TypeOK, RadioIsr, RadioReady, Line
  <2> QED
    BY <2>1, DriverTypes, SeenType DEF AllInv, RadioIsr, HandleRadioEvent, peerVars, TypeInv
<1>1. CASE OnNew
  <2>1. p \in Pipes /\ rf'.txaddress = p
    BY <1>0, <1>1, NewPacket, NewPacketPipe
  <2>2. \A q \in Pipes : Accepted(q)' = IF q = p THEN sent[p] ELSE Accepted(q)
    BY <1>1, NewPacketAccepted
  <2> QED
    BY <1>0, <2>1, <2>2 DEF SendingInv
<1>2. CASE OnDuplicate
  <2>1. /\ state = "Receiver" /\ UNCHANGED last
        /\ rf' = SetupAckTx(Seen, p, Fallback) /\ p \in Pipes
        /\ rx_idx \in Buf /\ hdr[rx_idx] \in Header
    <3>1. /\ state = "Receiver" /\ UNCHANGED last
          /\ rf' = SetupAckTx(Seen, p, Fallback)
      BY <1>0, <1>2, Shortcuts DEF OnDuplicate, Packet
    <3>2. rx_idx \in Buf /\ p \in Pipes
      BY <1>0, <3>1, NoIdxFacts, TypeParts DEF MachineType, IdxInv, Opt, RadioType
    <3> QED
      BY <3>1, <3>2, DriverTypes
  <2>2. rf'.txaddress = p
    BY <1>0, <2>1 DEF SetupAckTx, RadioType
  <2>3. /\ CheckDuplicate(p, hdr[rx_idx]) /\ hdr[rx_idx].seq = sent[p]
    BY <1>0, <1>2 DEF OnDuplicate, Packet, DeliveryInv, LatestInv
  <2>4. Pid(hdr[rx_idx].seq) = sent[p]
    BY <2>1, <2>3, PidIsNumber DEF Header
  <2>5. Accepted(p) = sent[p] /\ \A q \in Pipes : Accepted(q)' = Accepted(q)
    BY <2>1, <2>3, <2>4 DEF CheckDuplicate, Accepted
  <2> QED
    BY <1>0, <2>1, <2>2, <2>5 DEF SendingInv
<1>3. CASE ~(OnNew \/ OnDuplicate)
  <2>1. state' \notin {"TxAck", "TxRepeatedAck"}
    BY <1>0, <1>3 DEF HandleRadioEvent, IgnoreUserEvent, OnBadCrc, OnDuplicateNoAck, Packet,
                      OnNewNoAck, OnAckSent, OnRepeatedAckSent, ReceiveAfterAck, OnIdle, smVars
  <2> QED
    BY <2>1 DEF SendingInv
<1> QED
  BY <1>1, <1>2, <1>3

\* While an ACK is on the air its peer does not go on, and no filter changes.
LEMMA SendingNext == AllInv /\ [Next]_vars => SendingInv'
<1> SUFFICES ASSUME AllInv, [Next]_vars PROVE SendingInv'
  OBVIOUS
<1>0. /\ TypeInv /\ RadioInv /\ SendingInv /\ pending = Line(rf) /\ rf \in RadioType
      /\ state \in StatePrx
  BY DriverTypes DEF AllInv, PrxInv, DriverInv
<1>1. CASE RadioIsr
  BY <1>1, IsrSending
<1>2. CASE Radio
  <2>1. /\ ~pending /\ UNCHANGED <<state, last>>
    BY <1>2 DEF Radio, AckEnd, Receive, Miss, smVars
  <2>2. CASE AckEnd
    BY <1>0, <2>1, <2>2 DEF AckEnd, RadioType, RadioInv, Line, SendingInv, StatePrx
  <2>3. ASSUME NEW p \in Pipes, Receive(p) PROVE SendingInv'
    <3>1. rf.mode = "rx"
      BY <2>3 DEF Receive, RxEnd
    <3>2. state = "Receiver"
      BY <1>0, <2>1, <3>1 DEF RadioInv, Line, StatePrx
    <3> QED
      BY <2>1, <3>2 DEF SendingInv
  <2>4. ASSUME NEW p \in Pipes, Miss(p) PROVE SendingInv'
    BY <2>4 DEF Miss, SendingInv
  <2> QED
    BY <1>2, <2>2, <2>3, <2>4 DEF Radio
<1>3. CASE Sending \/ ReceivePacket \/ DropReceived \/ UNCHANGED vars
  <2>1. UNCHANGED <<state, rf, last, sent>>
    BY <1>3 DEF Sending, SendAlloc, SendEnqueue, ReceivePacket, DropReceived, smVars,
                peerVars, vars, prxVars
  <2> QED
    BY <1>0, <2>1 DEF SendingInv, Accepted
<1>4. CASE BeginCall \/ BeginListen \/ Control \/ CancelSuspend \/ Restore
  <2>1. CASE UNCHANGED prxVars
    BY <1>0, <2>1 DEF SendingInv, Accepted, prxVars, smVars, peerVars
  <2>2. CASE state' = "Idle"
    BY <2>2 DEF SendingInv
  <2>3. CASE Listen
    <3>1. UNCHANGED <<last, sent>> /\ (state' \in {"Receiver", "Idle"} \/ UNCHANGED <<rf, state>>)
      BY <1>0, <2>3, ListenLeaves DEF peerVars
    <3> QED
      BY <1>0, <3>1 DEF SendingInv, Accepted
  <2> QED
    BY <1>0, <1>4, <2>1, <2>2, <2>3, ControlLeaves
<1> QED
  BY <1>1, <1>2, <1>3, <1>4 DEF Next

\* All that the sections above establish holds at every time.
THEOREM PrxAllInvariant == Spec => []AllInv
<1>1. EsbPrxInit => SendingInv
  BY DEF EsbPrxInit, Init, SendingInv
<1>2. AllInv /\ [Next]_vars => SendingInv'
  BY SendingNext
<1>3. AllInv <=> PrxInv /\ OwnInv /\ DeliveryInv /\ AckToItsPipe /\ SendingInv
  BY DEF AllInv
<1> QED
  BY <1>1, <1>2, <1>3, PrxInvariant, PrxOneOwner, PrxDelivery, PrxAckToItsPipe, PTL DEF Spec

-----------------------------------------------------------------------------
(* The driver implements PacketReception.                                  *)

\* The initial states implement those of PacketReception.
LEMMA ReceptionInit == EsbPrxInit => Reception!Init
BY DEF EsbPrxInit, Init, NoLast, Accepted, Reception!Init

\* A step that changes no filter, no peer and nothing handed out is a stutter.
LEMMA ReceptionStutter ==
  ASSUME UNCHANGED <<last, sent, got, heard>>
  PROVE  UNCHANGED Reception!vars
BY DEF Reception!vars, Accepted

\* A run of the handler accepts a packet, hands one out, or neither.
LEMMA IsrReception ==
  ASSUME AllInv, RadioIsr
  PROVE  Reception!Next \/ UNCHANGED Reception!vars
<1> DEFINE p == rf.rxmatch
           a == [q \in Pipes |-> Accepted(q)]
<1>0. /\ TypeInv /\ MachineOwns /\ DeliveryInv /\ IdxInv
      /\ HandleRadioEvent /\ rf.disabled /\ UNCHANGED peerVars
      /\ UNCHANGED <<sent, heard>>
  <2>1. rf.disabled
    BY DEF AllInv, PrxInv, DriverInv, TypeInv, TypeOK, RadioIsr, RadioReady, Line
  <2> QED
    BY <2>1, DriverTypes DEF AllInv, RadioIsr, HandleRadioEvent, peerVars
<1>1. CASE OnNew \/ OnNewNoAck
  <2>1. /\ p \in Pipes /\ Accepted(p) < sent[p] /\ hdr[rx_idx].seq = sent[p]
        /\ hdr'[rx_idx].pipe = p
    BY <1>0, <1>1, NewPacket, NewPacketNumber
  <2>2. a' = [a EXCEPT ![p] = sent[p]]
    BY <1>1, <2>1, NewPacketAccepted
  <2>3. Reception!New(p)
    BY <1>0, <2>1, <2>2 DEF Reception!New
  <2>4. CASE OnNew
    <3>1. Reception!Accept(p)
      BY <2>3, <2>4 DEF OnNew, Reception!Accept
    <3> QED
      BY <2>1, <3>1 DEF Reception!Next
  <2>5. CASE OnNewNoAck
    <3>1. got' = [got EXCEPT ![p] = sent[p]]
      BY <2>1, <2>5 DEF OnNewNoAck, Deliver
    <3>2. Reception!AcceptNoAck(p)
      BY <2>3, <3>1 DEF Reception!AcceptNoAck
    <3> QED
      BY <2>1, <3>2 DEF Reception!Next
  <2> QED
    BY <1>1, <2>4, <2>5
<1>2. CASE OnAckSent
  <2> DEFINE h == hdr[pending_rx_idx]
  <2>1. /\ state = "TxAck" /\ pending_rx_idx \in Buf /\ h \in Header /\ last' = last
    BY <1>0, <1>2, NoIdxFacts, DriverTypes, TypeParts
    DEF OnAckSent, MachineType, IdxInv, Opt
  <2>2. got' = [got EXCEPT ![h.pipe] = h.seq]
    BY <1>0, <1>2, AckSentFilter
  <2>3. /\ h.pipe \in Pipes /\ Accepted(h.pipe) = h.seq /\ got[h.pipe] < h.seq
    BY <1>0, <2>1 DEF DeliveryInv, PendingInv, Accepted, Header
  <2>4. a' = a
    BY <2>1 DEF Accepted
  <2>5. Reception!HandOver(h.pipe)
    BY <1>0, <2>2, <2>3, <2>4 DEF Reception!HandOver
  <2> QED
    BY <2>3, <2>5 DEF Reception!Next
<1>3. CASE ~(OnNew \/ OnNewNoAck \/ OnAckSent)
  <2>1. UNCHANGED <<last, got>>
    BY <1>0, <1>3 DEF HandleRadioEvent, IgnoreUserEvent, OnBadCrc, OnDuplicateNoAck,
                      OnDuplicate, OnRepeatedAckSent, OnIdle, smVars
  <2> QED
    BY <1>0, <2>1, ReceptionStutter
<1> QED
  BY <1>1, <1>2, <1>3

\* On the air a peer goes on, repeats its packet, or hears an ACK.
LEMMA AirReception ==
  ASSUME AllInv, Radio
  PROVE  Reception!Next \/ UNCHANGED Reception!vars
<1> DEFINE a == [q \in Pipes |-> Accepted(q)]
<1>0. /\ UNCHANGED <<state, last, got>> /\ ~pending /\ pending = Line(rf)
      /\ rf \in RadioType /\ RadioInv /\ SendingInv /\ state \in StatePrx
      /\ sent \in [Pipes -> -1 .. MaxSeq]
  BY DriverTypes DEF AllInv, PrxInv, DriverInv, Radio, AckEnd, Receive, Miss, smVars
<1>a. a' = a
  BY <1>0 DEF Accepted
<1>1. CASE AckEnd
  <2> DEFINE t == rf.txaddress
  <2>1. /\ rf.mode = "tx" /\ t \in Pipes /\ UNCHANGED sent
        /\ heard' = [heard EXCEPT ![t] = sent[t]] \/ heard' = heard
    BY <1>0, <1>1 DEF AckEnd, RadioType
  <2>2. Accepted(t) = sent[t]
    <3>1. state \in {"TxAck", "TxRepeatedAck"}
      BY <1>0, <2>1 DEF RadioInv, Line, StatePrx
    <3> QED
      BY <1>0, <2>1, <3>1 DEF SendingInv
  <2>3. CASE heard' = [heard EXCEPT ![t] = sent[t]]
    <3>1. Reception!HearAck(t)
      BY <1>0, <1>a, <2>1, <2>2, <2>3 DEF Reception!HearAck
    <3> QED
      BY <2>1, <3>1 DEF Reception!Next
  <2>4. CASE heard' = heard
    BY <1>0, <2>1, <2>4, ReceptionStutter
  <2> QED
    BY <2>1, <2>3, <2>4
<1>2. ASSUME NEW p \in Pipes, Receive(p)
      PROVE  Reception!Next \/ UNCHANGED Reception!vars
  <2>1. PICK n \in 0 .. MaxSeq, na \in BOOLEAN :
               PeerSends(p, n, na) /\ sent' = [sent EXCEPT ![p] = n]
    BY <1>2 DEF Receive
  <2>2. heard' = heard
    BY <1>2 DEF Receive
  <2>3. CASE n = sent[p]
    <3>1. sent' = sent
      BY <1>0, <2>1, <2>3
    <3> QED
      BY <1>0, <2>2, <3>1, ReceptionStutter
  <2>4. CASE n = sent[p] + 1
    <3>1. Reception!Send(p)
      BY <1>0, <1>a, <2>1, <2>2, <2>4 DEF Reception!Send
    <3> QED
      BY <3>1 DEF Reception!Next
  <2> QED
    BY <2>1, <2>3, <2>4 DEF PeerSends
<1>3. ASSUME NEW p \in Pipes, Miss(p)
      PROVE  Reception!Next \/ UNCHANGED Reception!vars
  <2>1. Reception!Send(p)
    BY <1>0, <1>a, <1>3 DEF Miss, Reception!Send
  <2> QED
    BY <2>1 DEF Reception!Next
<1> QED
  BY <1>0, <1>1, <1>2, <1>3 DEF Radio

\* The tasks leave all of it alone, and so does the control task: what restore
\* writes into the filters is what suspend read from them.
LEMMA TaskReception ==
  ASSUME AllInv,
         \/ Sending \/ ReceivePacket \/ DropReceived \/ UNCHANGED vars
         \/ BeginCall \/ BeginListen \/ Control \/ CancelSuspend \/ Restore
  PROVE  UNCHANGED Reception!vars
<1>0. TypeInv /\ RadioInv /\ DeliveryInv
  BY DriverTypes DEF AllInv
<1>1. CASE Sending \/ ReceivePacket \/ DropReceived \/ UNCHANGED vars
  <2>1. UNCHANGED <<last, sent, got, heard>>
    BY <1>1 DEF Sending, SendAlloc, SendEnqueue, ReceivePacket, DropReceived, smVars,
                peerVars, vars, prxVars
  <2> QED
    BY <2>1, ReceptionStutter
<1>2. CASE Restore
  <2>1. /\ ctl = "suspended" /\ last' = saved /\ UNCHANGED <<sent, got, heard>>
    BY <1>2 DEF Restore, DoRestore, Restored, peerVars
  <2>2. last' = last
    BY <1>0, <2>1 DEF DeliveryInv
  <2> QED
    BY <2>1, <2>2, ReceptionStutter
<1>3. CASE BeginCall \/ BeginListen \/ Control \/ CancelSuspend
  <2> DEFINE Still == UNCHANGED <<last, sent, got, heard>>
  <2>m. \A from, to : Move(from, to) => Still
    BY DEF Move, prxVars, smVars, peerVars
  <2>c. \A c : Suspend(c) => Still
    BY DEF Suspend, StopReceiving, peerVars
  <2>1. ASSUME BeginCall \/ BeginListen \/ PollRead PROVE Still
    <3> HIDE DEF Still
    <3> QED
      BY <2>1, <2>m DEF BeginCall, BeginListen, PollRead
  <2>2. ASSUME TrySuspend \/ SuspendFast \/ SuspendRecheck \/ SuspendFinal PROVE Still
    <3> HIDE DEF Still
    <3> QED
      BY <2>2, <2>m, <2>c
      DEF TrySuspend, SuspendFast, SuspendRecheck, SuspendFinal, SuspendIfSuspendable
  <2>3. ASSUME RequestSuspend \/ PollRegister \/ PollAgain \/ CancelSuspend PROVE Still
    BY <2>3 DEF RequestSuspend, PollRegister, PollAgain, CancelSuspend, prxVars, smVars,
                peerVars
  <2>4. ASSUME StopCall PROVE Still
    BY <2>4 DEF StopCall, StopReceiving, peerVars
  <2>5. ASSUME Listen PROVE Still
    BY <1>0, <2>5, ListenLeaves DEF peerVars
  <2>6. Still
    <3> HIDE DEF Still
    <3> QED
      BY <1>3, <2>1, <2>2, <2>3, <2>4, <2>5 DEF Control
  <2> QED
    BY <2>6, ReceptionStutter
<1> QED
  BY <1>1, <1>2, <1>3

\* The driver implements PacketReception, whatever is lost or repeated and whatever
\* calls are made: no packet is accepted or handed out twice or after a later one, and
\* no peer hears an ACK for a packet that was not accepted.
THEOREM PrxReceptionSafe == Spec => ReceptionSafe
<1>1. EsbPrxInit => Reception!Init
  BY ReceptionInit
<1>2. AllInv /\ [Next]_vars => [Reception!Next]_(Reception!vars)
  BY IsrReception, AirReception, TaskReception DEF Next
<1> QED
  BY <1>1, <1>2, PrxAllInvariant, PTL DEF Spec, ReceptionSafe, Reception!Spec

-----------------------------------------------------------------------------
(* Acknowledged packets, when no call gives up a packet being acknowledged *)

\* A driver that is suspended by try_suspend alone keeps the packet in its ACK.
PatientCalls == Calls \subseteq {"try_suspend"}

\* The application has what the filter has accepted, but for the packet in its ACK.
GotInv ==
  \A p \in Pipes : got[p] = Accepted(p) \/ (state = "TxAck" /\ hdr[pending_rx_idx].pipe = p)

AckedInv ==
  /\ GotInv /\ AckedIsDelivered
  /\ ctl \in {"idle", "listen", "try", "suspended"}

\* Outside TxAck everything accepted is delivered and nothing more is acknowledged.
LEMMA OutsideAck ==
  ASSUME AllInv, AckedInv, state # "TxAck", NEW p \in Pipes
  PROVE  got[p] = Accepted(p) /\ heard[p] <= got[p]
<1>1. got[p] \in -1 .. MaxSeq /\ heard[p] \in -1 .. MaxSeq /\ MaxSeq \in 0 .. 3
  BY DriverTypes
<1>2. ~(heard[p] > got[p])
  BY DEF AckedInv, AckedIsDelivered
<1>3. got[p] = Accepted(p)
  BY DEF AckedInv, GotInv
<1> QED
  BY <1>1, <1>2, <1>3

\* A step out of TxAck, or within the other states, that keeps filters and peers
LEMMA StillAcked ==
  ASSUME AllInv, AckedInv, state # "TxAck", UNCHANGED <<last, got, heard>>
  PROVE  GotInv' /\ AckedIsDelivered'
<1>1. \A p \in Pipes : Accepted(p)' = Accepted(p)
  BY DEF Accepted
<1>2. \A p \in Pipes : got'[p] = Accepted(p)' /\ ~(heard'[p] > got'[p])
  <2>1. ASSUME NEW p \in Pipes PROVE got'[p] = Accepted(p)' /\ ~(heard'[p] > got'[p])
    <3>1. got[p] \in Int /\ heard[p] \in Int
      BY DriverTypes
    <3> QED
      BY <1>1, <3>1, OutsideAck
  <2> QED
    BY <2>1
<1> QED
  BY <1>2 DEF GotInv, AckedIsDelivered

\* The handler acknowledges what the application has or gets.
LEMMA IsrAcked ==
  ASSUME AllInv, AckedInv, RadioIsr
  PROVE  GotInv' /\ AckedIsDelivered'
<1> DEFINE p == rf.rxmatch
<1>0. /\ TypeInv /\ MachineOwns /\ HandleRadioEvent /\ rf.disabled /\ DeliveryInv
      /\ UNCHANGED <<sent, heard>> /\ RadioInv /\ IdxInv /\ rf \in RadioType
      /\ Seen \in RadioType /\ timeslot_managed = FALSE
  <2>1. rf.disabled
    BY DEF AllInv, PrxInv, DriverInv, TypeInv, TypeOK, RadioIsr, RadioReady, Line
  <2> QED
    BY <2>1, DriverTypes, SeenType DEF AllInv, RadioIsr, HandleRadioEvent, peerVars, TypeInv
<1>1. CASE OnNew
  <2>1. /\ p \in Pipes /\ rx_idx \in Buf /\ state = "Receiver"
        /\ hdr'[rx_idx].pipe = p /\ rf'.txaddress = p
        /\ got' = got /\ pending_rx_idx' = rx_idx /\ state' = "TxAck"
    BY <1>0, <1>1, NewPacket, NewPacketPipe DEF OnNew
  <2>2. last' = [last EXCEPT ![p] = [valid |-> TRUE, pid |-> sent[p],
                                     crc |-> <<sent[p], sent_no_ack[p]>>]]
    BY <1>0, <1>1, NewPacketNumber
  <2>3. \A q \in Pipes : Accepted(q)' = IF q = p THEN sent[p] ELSE Accepted(q)
    BY <2>1, <2>2, DriverTypes DEF Accepted
  <2>4. \A q \in Pipes : got[q] = Accepted(q) /\ ~(heard[q] > got[q])
    BY <2>1 DEF AckedInv, GotInv, AckedIsDelivered
  <2> QED
    BY <1>0, <2>1, <2>3, <2>4 DEF GotInv, AckedIsDelivered
<1>2. CASE OnNewNoAck
  <2>1. /\ p \in Pipes /\ rx_idx \in Buf /\ state = "Receiver"
        /\ hdr'[rx_idx].pipe = p /\ state' \in {"Receiver", "Idle"}
    BY <1>0, <1>2, NewPacket DEF OnNewNoAck
  <2>2. /\ last' = [last EXCEPT ![p] = [valid |-> TRUE, pid |-> sent[p],
                                        crc |-> <<sent[p], sent_no_ack[p]>>]]
        /\ got[p] < sent[p] /\ hdr[rx_idx].seq = sent[p]
    BY <1>0, <1>2, NewPacketNumber
  <2>3. got' = [got EXCEPT ![p] = sent[p]]
    BY <1>2, <2>1, <2>2 DEF OnNewNoAck, Deliver
  <2>4. ASSUME NEW q \in Pipes PROVE got'[q] = Accepted(q)' /\ ~(heard[q] > got'[q])
    <3>1. got[q] = Accepted(q) /\ heard[q] <= got[q] /\ heard[q] \in Int /\ got[q] \in Int
      BY <2>1, OutsideAck, DriverTypes
    <3>2. CASE q = p
      <4>1. got'[q] = sent[p] /\ last'[q].valid /\ last'[q].pid = sent[p] /\ sent[p] \in Int
        BY <2>1, <2>2, <2>3, <3>2, DriverTypes
      <4> QED
        BY <2>2, <3>1, <3>2, <4>1 DEF Accepted
    <3>3. CASE q # p
      BY <2>1, <2>2, <2>3, <3>1, <3>3, DriverTypes DEF Accepted
    <3> QED
      BY <3>2, <3>3
  <2> QED
    BY <1>0, <2>1, <2>4 DEF GotInv, AckedIsDelivered
<1>3. CASE OnAckSent
  <2> DEFINE h == hdr[pending_rx_idx]
  <2>1. /\ state = "TxAck" /\ pending_rx_idx \in Buf /\ h \in Header
        /\ state' \in {"Receiver", "Idle"} /\ last' = last
    BY <1>0, <1>3, NoIdxFacts, DriverTypes, TypeParts
    DEF OnAckSent, MachineType, IdxInv, Opt, ReceiveAfterAck
  <2>2. got' = [got EXCEPT ![h.pipe] = h.seq]
    BY <1>0, <1>3, AckSentFilter DEF RadioIsr, HandleRadioEvent
  <2>3. Accepted(h.pipe) = h.seq /\ h.pipe \in Pipes /\ h.seq \in Int /\ got[h.pipe] < h.seq
    BY <1>0, <2>1, DriverTypes DEF DeliveryInv, PendingInv, Accepted, Header
  <2>4. ASSUME NEW q \in Pipes PROVE got'[q] = Accepted(q) /\ ~(heard[q] > got'[q])
    <3>1. heard[q] \in Int /\ got[q] \in Int
      BY DriverTypes
    <3>2. heard[q] > got[q] => h.pipe = q /\ h.seq = heard[q]
      BY DEF AckedInv, AckedIsDelivered
    <3>3. CASE q = h.pipe
      BY <2>2, <2>3, <3>1, <3>2, <3>3, DriverTypes
    <3>4. CASE q # h.pipe
      <4>1. got[q] = Accepted(q)
        BY <2>1, <3>4 DEF AckedInv, GotInv
      <4> QED
        BY <2>2, <3>2, <3>4, <4>1, DriverTypes
    <3> QED
      BY <3>3, <3>4
  <2>5. \A q \in Pipes : Accepted(q)' = Accepted(q)
    BY <2>1 DEF Accepted
  <2> QED
    BY <1>0, <2>1, <2>4, <2>5 DEF GotInv, AckedIsDelivered
<1>4. CASE ~(OnNew \/ OnNewNoAck \/ OnAckSent)
  <2>1. UNCHANGED <<last, got>> /\ state # "TxAck"
    BY <1>0, <1>4 DEF HandleRadioEvent, IgnoreUserEvent, OnBadCrc, OnDuplicateNoAck, OnDuplicate,
                      Packet, OnRepeatedAckSent, OnIdle, smVars
  <2> QED
    BY <1>0, <2>1, StillAcked
<1> QED
  BY <1>1, <1>2, <1>3, <1>4

\* An ACK that a peer hears is for a packet the application has or gets.
LEMMA AirAcked ==
  ASSUME AllInv, AckedInv, Radio
  PROVE  GotInv' /\ AckedIsDelivered'
<1>0. /\ RadioInv /\ pending = Line(rf) /\ ~pending /\ rf \in RadioType
      /\ state \in StatePrx
      /\ UNCHANGED <<state, pending_rx_idx, last, got>>
  BY DriverTypes DEF AllInv, PrxInv, DriverInv, Radio, AckEnd, Receive, Miss, smVars
<1>1. ~rf.disabled \/ state = "Idle"
  BY <1>0 DEF RadioInv, Line, StatePrx
<1>a. \A q \in Pipes : Accepted(q)' = Accepted(q)
  BY <1>0 DEF Accepted
<1>2. CASE AckEnd
  <2> DEFINE t == rf.txaddress
  <2>1. /\ UNCHANGED <<hdr, sent>> /\ rf.mode = "tx" /\ t \in Pipes
        /\ heard' = [heard EXCEPT ![t] = sent[t]] \/ heard' = heard
    BY <1>0, <1>2 DEF AckEnd, RadioType
  <2>2. state \in {"TxAck", "TxRepeatedAck"}
    BY <1>0, <1>1, <2>1 DEF RadioInv, StatePrx
  <2>3. rf'.mode = "rx"
    BY <1>0, <1>2, <2>2 DEF RadioInv, AckEnd, RadioType
  <2>4. sent[t] = Accepted(t)
    BY <2>1, <2>2 DEF AllInv, SendingInv
  <2>5. ASSUME NEW q \in Pipes, heard'[q] > got[q]
        PROVE  /\ state = "TxAck" /\ hdr[pending_rx_idx].pipe = q
               /\ hdr[pending_rx_idx].seq = heard'[q]
    <3>1. CASE heard'[q] = heard[q]
      BY <2>5, <3>1 DEF AckedInv, AckedIsDelivered
    <3>2. CASE q = t /\ heard'[q] = sent[t]
      <4>1. got[q] # Accepted(q)
        BY <2>4, <2>5, <3>2, DriverTypes
      <4>2. state = "TxAck" /\ hdr[pending_rx_idx].pipe = q
        BY <4>1 DEF AckedInv, GotInv
      <4>3. Accepted(q) = hdr[pending_rx_idx].seq
        BY <4>2 DEF AllInv, DeliveryInv, PendingInv, Accepted
      <4> QED
        BY <2>4, <3>2, <4>2, <4>3
    <3> QED
      BY <2>1, <3>1, <3>2, DriverTypes
  <2>6. GotInv'
    BY <1>0, <1>a, <2>1 DEF AckedInv, GotInv
  <2> QED
    BY <1>0, <2>1, <2>3, <2>5, <2>6 DEF AckedIsDelivered
<1>3. ASSUME NEW q \in Pipes, Receive(q) PROVE GotInv' /\ AckedIsDelivered'
  <2>1. rf.mode = "rx" /\ heard' = heard
    BY <1>3 DEF Receive, RxEnd
  <2>2. state = "Receiver"
    BY <1>0, <1>1, <2>1 DEF RadioInv, StatePrx
  <2> QED
    BY <1>0, <2>1, <2>2, StillAcked
<1>4. ASSUME NEW q \in Pipes, Miss(q) PROVE GotInv' /\ AckedIsDelivered'
  BY <1>0, <1>a, <1>4 DEF Miss, AckedInv, GotInv, AckedIsDelivered
<1> QED
  BY <1>2, <1>3, <1>4 DEF Radio

\* The tasks change nothing an ACK depends on.
LEMMA TaskAcked ==
  ASSUME AllInv, AckedInv, Sending \/ ReceivePacket \/ DropReceived
  PROVE  GotInv' /\ AckedIsDelivered' /\ ctl' = ctl
<1>1. UNCHANGED <<state, pending_rx_idx, rf, last, got, sent, heard, ctl>>
  BY DEF Sending, SendAlloc, SendEnqueue, ReceivePacket, DropReceived, smVars, peerVars
<1>2. state = "TxAck" => hdr'[pending_rx_idx] = hdr[pending_rx_idx]
  <2>1. state = "TxAck" => pending_rx_idx \in Buf /\ pool[pending_rx_idx] = "in_dma"
    BY DriverTypes DEF MachineOwns, IdxInv, Dma, InState
  <2> QED
    BY <2>1, DriverTypes, TaskHeaders
<1>3. \A q : Accepted(q)' = Accepted(q)
  BY <1>1 DEF Accepted
<1> QED
  BY <1>1, <1>2, <1>3 DEF AckedInv, GotInv, AckedIsDelivered

\* The control task suspends the state machine outside its ACKs only.
LEMMA ControlAcked ==
  ASSUME PatientCalls, AllInv, AckedInv,
         BeginCall \/ BeginListen \/ Control \/ CancelSuspend \/ Restore
  PROVE  AckedInv'
<1>0. ctl \in {"idle", "listen", "try", "suspended"} /\ TypeInv /\ RadioInv
  BY DriverTypes DEF AckedInv
<1>1. CASE BeginCall \/ BeginListen \/ (TrySuspend /\ ~Suspendable)
  <2>1. ctl' \in {"idle", "listen", "try"} /\ UNCHANGED prxVars
    BY <1>1 DEF PatientCalls, BeginCall, BeginListen, TrySuspend, SuspendIfSuspendable, Move
  <2> QED
    BY <2>1 DEF AckedInv, GotInv, AckedIsDelivered, Accepted, prxVars, smVars,
                peerVars
<1>2. CASE TrySuspend /\ Suspendable
  <2>1. /\ state # "TxAck" /\ state' = "Idle" /\ UNCHANGED <<last, got, heard>>
        /\ ctl' = "suspended"
    BY <1>2 DEF Suspendable, TrySuspend, SuspendIfSuspendable, Suspend, StopReceiving, peerVars
  <2> QED
    BY <2>1, StillAcked DEF AckedInv
<1>3. CASE Restore
  <2>1. /\ state = "Idle" /\ state' = "Idle" /\ UNCHANGED <<got, heard>> /\ last' = saved
        /\ ctl = "suspended" /\ ctl' = "idle"
    BY <1>0, <1>3 DEF TypeInv, Restore, DoRestore, Restored, peerVars
  <2>2. last' = last
    BY <2>1 DEF AllInv, DeliveryInv
  <2> QED
    BY <2>1, <2>2, StillAcked DEF AckedInv
<1>4. CASE Listen
  <2>1. /\ UNCHANGED <<last, hdr, sent, heard, got, pending_rx_idx>> /\ ctl' = "idle"
        /\ \/ state = "Idle" /\ state' = "Receiver"
           \/ UNCHANGED <<rf, state>>
           \/ state' = "Idle"
    BY <1>0, <1>4, ListenLeaves DEF peerVars
  <2>2. state' = "Idle" => state = "Idle"
    BY <1>4 DEF Listen, StartListening
  <2>3. CASE state = "Idle" /\ state' \in {"Idle", "Receiver"}
    BY <2>1, <2>3, StillAcked DEF AckedInv
  <2>4. CASE UNCHANGED <<rf, state>>
    BY <2>1, <2>4 DEF AckedInv, GotInv, AckedIsDelivered, Accepted
  <2> QED
    BY <2>1, <2>2, <2>3, <2>4
<1> QED
  BY <1>0, <1>1, <1>2, <1>3, <1>4
  DEF Control, StopCall, SuspendFast, RequestSuspend, SuspendRecheck, PollRegister,
      PollRead, PollAgain, SuspendFinal, SuspendIfSuspendable, CancelSuspend, Suspend, Move

\* A packet whose ACK the peer has heard is with the application, or will be when
\* the end of the ACK is handled, if no call gives up the packet in its ACK: stop
\* does, and suspend() does when it is not asked again before its last mask.
THEOREM PrxAckedIsDelivered ==
  ASSUME PatientCalls
  PROVE  Spec => []AckedIsDelivered
<1>1. EsbPrxInit => AckedInv
  <2> SUFFICES ASSUME EsbPrxInit PROVE AckedInv
    OBVIOUS
  <2>1. /\ state = "Idle" /\ ctl = "idle"
        /\ \A p \in Pipes : last[p].valid = FALSE /\ got[p] = -1 /\ heard[p] = -1
    BY DEF EsbPrxInit, Init, NoLast
  <2>2. \A p \in Pipes : Accepted(p) = -1
    BY <2>1 DEF Accepted
  <2> QED
    BY <2>1, <2>2 DEF AckedInv, GotInv, AckedIsDelivered
<1>2. AllInv /\ AckedInv /\ [Next]_vars => AckedInv'
  <2> SUFFICES ASSUME AllInv, AckedInv, [Next]_vars PROVE AckedInv'
    OBVIOUS
  <2>1. CASE UNCHANGED vars
    BY <2>1 DEF AckedInv, GotInv, AckedIsDelivered, Accepted, vars, prxVars,
                smVars, peerVars
  <2>2. CASE RadioIsr
    <3>1. ctl' = ctl
      BY <2>2 DEF RadioIsr
    <3> QED
      BY <2>2, <3>1, IsrAcked DEF AckedInv
  <2>3. CASE Radio
    <3>1. ctl' = ctl
      BY <2>3 DEF Radio
    <3> QED
      BY <2>3, <3>1, AirAcked DEF AckedInv
  <2>4. CASE Sending \/ ReceivePacket \/ DropReceived
    BY <2>4, TaskAcked DEF AckedInv
  <2>5. CASE BeginCall \/ BeginListen \/ Control \/ CancelSuspend \/ Restore
    BY <2>5, ControlAcked
  <2> QED
    BY <2>1, <2>2, <2>3, <2>4, <2>5 DEF Next
<1>3. AckedInv => AckedIsDelivered
  BY DEF AckedInv
<1> QED
  BY <1>1, <1>2, <1>3, PrxAllInvariant, PTL DEF Spec
=============================================================================
