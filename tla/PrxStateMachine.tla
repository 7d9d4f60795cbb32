--------------------------- MODULE PrxStateMachine ---------------------------
(***************************************************************************)
(* The PRX state machine: PrxStateMachine of src/src/state_machine.rs on   *)
(* the RADIO methods of src/src/radio.rs, with the packets on the air.     *)
(*                                                                         *)
(* The same state machine runs in exclusive mode, where the DISABLED->TXEN *)
(* shortcut starts every ACK, and in timeslot mode (timeslot_managed),     *)
(* where the handler starts it.  A wrapper module says who calls the       *)
(* handlers, StartListening and StopReceiving, and when.                   *)
(*                                                                         *)
(* A peer sends on each pipe a sequence of packets with PIDs counted       *)
(* modulo 4, repeating each as often as it likes.  The payloads are equal, *)
(* the worst case for duplicate detection: two packets have the same CRC   *)
(* when their PIDs and no_ack bits agree.  At most four packets are sent   *)
(* per pipe, so that no PID is used twice.                                 *)
(***************************************************************************)
EXTENDS PacketPool

CONSTANTS
  Pipes,           \* enabled pipes
  MaxSeq,          \* number of the last packet of each peer
  NoAckKinds       \* values of the no_ack bit the peers use

ASSUME PrxAssumption ==
  /\ Pipes # {}
  /\ MaxSeq \in 0 .. 3
  /\ NoAckKinds \subseteq BOOLEAN

VARIABLES
  \* PrxStateMachine; last is the duplicate detection state of its radio
  state, rx_idx, pending_rx_idx, ack_tx_idx, timeslot_managed, last,
  \* header of each buffer: pipe, packet number (for its PID), no_ack
  hdr,
  \* the RADIO
  rf,
  \* the peers, per pipe: packet sent last, its no_ack bit, and the last
  \* packet the peer has heard an ACK for
  sent, sent_no_ack, heard,
  \* history, per pipe: the packet completed for the application last
  got

smVars   == <<state, rx_idx, pending_rx_idx, ack_tx_idx, timeslot_managed, last>>
peerVars == <<sent, sent_no_ack, heard>>
prxVars  == <<pool, rx_queue, smVars, hdr, rf, peerVars, got>>

StatePrx == {"Idle", "Receiver", "TxAck", "TxRepeatedAck"}

Opt == Buf \cup {NoIdx}

Pid(n) == n % 4

\* The CRC covers PID, no_ack and payload; the payloads are equal.
Crc(h) == <<Pid(h.seq), h.no_ack>>

-----------------------------------------------------------------------------
(* The RADIO as far as PRX uses it: mode is what the radio does or ramps   *)
(* up to, ptr is PACKETPTR, a buffer or NoIdx for the empty fallback ACK;  *)
(* txen and rxen are the shortcuts from DISABLED, disabled EVENTS_DISABLED *)
(* and inten its interrupt, crcok CRCSTATUS, rxmatch and txaddress pipes.  *)

RadioReset == [mode |-> "off", ptr |-> NoIdx, txen |-> FALSE, rxen |-> FALSE,
               disabled |-> FALSE, inten |-> FALSE, crcok |-> FALSE,
               rxmatch |-> CHOOSE p \in Pipes : TRUE,
               txaddress |-> CHOOSE p \in Pipes : TRUE]

Fallback == NoIdx

\* TASKS_RXEN and TASKS_TXEN act on the disabled radio only.
Ramp(r, m) == IF r.mode = "off" THEN [r EXCEPT !.mode = m] ELSE r

\* Mutant: TASKS_DISABLE is not triggered.
StopNoDisable(r) == [r EXCEPT !.txen = FALSE, !.rxen = FALSE, !.inten = FALSE,
                              !.disabled = FALSE]

Stop(r) == [r EXCEPT !.mode = "off", !.txen = FALSE, !.rxen = FALSE,
                     !.inten = FALSE, !.disabled = FALSE]

\* Mutant: the DISABLED->TXEN shortcut is not enabled.
StartReceivingNoShortcut(r, i) ==
  Ramp([r EXCEPT !.inten = TRUE, !.ptr = i, !.disabled = FALSE], "rx")

StartReceiving(r, i) ==
  Ramp([r EXCEPT !.txen = TRUE, !.inten = TRUE, !.ptr = i, !.disabled = FALSE], "rx")

StartReceivingManualAck(r, i) ==
  Ramp([r EXCEPT !.txen = FALSE, !.rxen = FALSE, !.inten = TRUE, !.ptr = i,
                 !.disabled = FALSE], "rx")

\* check_packet on a bad CRC: stop and receive again into the same buffer
RestartBadCrc(r) == Ramp([Stop(r) EXCEPT !.txen = TRUE, !.inten = TRUE], "rx")

\* Mutant: TXADDRESS keeps the pipe of the ACK before.
SetupAckTxOldPipe(r, p, i) == [r EXCEPT !.ptr = i, !.txen = FALSE, !.rxen = TRUE]

SetupAckTx(r, p, i) ==
  [r EXCEPT !.txaddress = p, !.ptr = i, !.txen = FALSE, !.rxen = TRUE]

TransmitAckManual(r, p, i) ==
  Ramp([r EXCEPT !.txaddress = p, !.txen = FALSE, !.rxen = FALSE,
                 !.inten = TRUE, !.ptr = i, !.disabled = FALSE], "tx")

CompleteRxAck(r, i) == [r EXCEPT !.ptr = i, !.rxen = FALSE, !.txen = TRUE]

CompleteRxNoAck(r, i) ==
  Ramp([r EXCEPT !.ptr = i, !.txen = TRUE, !.inten = TRUE], "rx")

(* The turnaround helpers of the state machine: shortcut or manual *)

ArmRx(r, i) ==
  IF timeslot_managed THEN StartReceivingManualAck(r, i) ELSE StartReceiving(r, i)

RestartRxNoAck(r, i) ==
  IF timeslot_managed THEN StartReceivingManualAck(Stop(r), i)
                      ELSE CompleteRxNoAck(Stop(r), i)

RestartRxAfterAck(r, i) ==
  IF timeslot_managed THEN StartReceivingManualAck(r, i) ELSE CompleteRxAck(r, i)

TransmitAck(r, p, i) ==
  IF timeslot_managed THEN TransmitAckManual(r, p, i) ELSE SetupAckTx(r, p, i)

-----------------------------------------------------------------------------
NoLast == [valid |-> FALSE, pid |-> 0, crc |-> <<0, FALSE>>]

Init ==
  /\ PoolInit
  /\ state = "Idle"
  /\ rx_idx = NoIdx /\ pending_rx_idx = NoIdx /\ ack_tx_idx = NoIdx
  /\ last = [p \in Pipes |-> NoLast]
  /\ hdr = [i \in Buf |-> [pipe |-> CHOOSE p \in Pipes : TRUE, seq |-> 0,
                           no_ack |-> FALSE]]
  /\ rf = RadioReset
  /\ sent = [p \in Pipes |-> -1]
  /\ sent_no_ack = [p \in Pipes |-> FALSE]
  /\ heard = [p \in Pipes |-> -1]
  /\ got = [p \in Pipes |-> -1]

-----------------------------------------------------------------------------
(* PrxStateMachine::handle_radio_event                                     *)

\* check_events has cleared the event the handler was entered with.
Seen == [rf EXCEPT !.disabled = FALSE]

\* Mutant: the buffer found is not moved to DMA ownership.
AllocDmaBufferUnclaimed(p) ==
  /\ pool' = p
  /\ IF RxToDmaChoice(p) = {} THEN rx_idx' = NoIdx ELSE rx_idx' \in RxToDmaChoice(p)

\* alloc_dma_buffer on pool p: the next RX buffer, or none
AllocDmaBuffer(p) ==
  \/ \E i \in RxToDmaChoice(p) : pool' = ToDma(p, i) /\ rx_idx' = i
  \/ RxToDmaChoice(p) = {} /\ pool' = p /\ rx_idx' = NoIdx

\* rx_complete hands buffer i to the application.
Deliver(i) ==
  /\ rx_queue' = RxSend(rx_queue, i)
  /\ got' = [got EXCEPT ![hdr'[i].pipe] = hdr[i].seq]

IgnoreUserEvent ==
  /\ ~rf.disabled /\ state # "Idle"
  /\ UNCHANGED <<poolVars, smVars, hdr, rf, got>>

OnBadCrc ==
  /\ state = "Receiver" /\ rf.disabled /\ ~rf.crcok
  /\ rf' = RestartBadCrc(Seen)
  /\ UNCHANGED <<poolVars, smVars, hdr, got>>

\* Mutant: the valid bit is not looked at.
CheckDuplicateAlways(p, h) == last[p].pid = Pid(h.seq) /\ last[p].crc = Crc(h)

CheckDuplicate(p, h) ==
  last[p].valid /\ last[p].pid = Pid(h.seq) /\ last[p].crc = Crc(h)

\* A packet with a good CRC has been received into rx_idx.
Packet(dup, no_ack) ==
  /\ state = "Receiver" /\ rf.disabled /\ rf.crcok
  /\ CheckDuplicate(rf.rxmatch, hdr[rx_idx]) = dup
  /\ hdr[rx_idx].no_ack = no_ack

OnDuplicateNoAck ==
  /\ Packet(TRUE, TRUE)
  /\ \/ \E i \in RxToDmaChoice(pool) :
          /\ pool' = Release(ToDma(pool, i), rx_idx) /\ rx_idx' = i
          /\ rf' = RestartRxNoAck(Seen, i)
     \/ /\ RxToDmaChoice(pool) = {}
        /\ rf' = RestartRxNoAck(Seen, rx_idx)
        /\ UNCHANGED <<pool, rx_idx>>
  /\ UNCHANGED <<rx_queue, state, pending_rx_idx, ack_tx_idx, last, hdr, got>>

\* A repeated packet: its buffer is freed and an empty ACK is sent.
OnDuplicate ==
  /\ Packet(TRUE, FALSE)
  /\ pool' = Release(pool, rx_idx) /\ rx_idx' = NoIdx
  /\ rf' = TransmitAck(Seen, rf.rxmatch, Fallback)
  /\ state' = "TxRepeatedAck"
  /\ UNCHANGED <<rx_queue, pending_rx_idx, ack_tx_idx, last, hdr, got>>

\* update_detection, then the pipe is written into the header.
UpdateDetection(p, h) ==
  /\ last' = [last EXCEPT ![p] = [valid |-> TRUE, pid |-> Pid(h.seq), crc |-> Crc(h)]]
  /\ hdr' = [hdr EXCEPT ![rx_idx].pipe = p]

\* Out of buffers the radio is stopped, and nothing here starts it again.
OnNewNoAck ==
  /\ Packet(FALSE, TRUE)
  /\ UpdateDetection(rf.rxmatch, hdr[rx_idx])
  /\ Deliver(rx_idx)
  /\ AllocDmaBuffer(RxComplete(pool, rx_idx))
  /\ IF rx_idx' # NoIdx
     THEN rf' = RestartRxNoAck(Seen, rx_idx') /\ UNCHANGED state
     ELSE rf' = Stop(Seen) /\ state' = "Idle"
  /\ UNCHANGED <<pending_rx_idx, ack_tx_idx>>

\* Mutant: the pipe of a queued payload is not compared.
DequeueForAnyPipe(p) == Lowest(InState(pool, "tx_queued"))

\* try_dequeue_tx_for_pipe: the queued ACK payloads of pipe p
DequeueForPipeChoice(p) ==
  Lowest({i \in InState(pool, "tx_queued") : hdr[i].pipe = p})

OnNew ==
  /\ Packet(FALSE, FALSE)
  /\ UpdateDetection(rf.rxmatch, hdr[rx_idx])
  /\ \/ \E i \in DequeueForPipeChoice(rf.rxmatch) :
          /\ pool' = ToDma(pool, i) /\ ack_tx_idx' = i
          /\ rf' = TransmitAck(Seen, rf.rxmatch, i)
     \/ /\ DequeueForPipeChoice(rf.rxmatch) = {}
        /\ ack_tx_idx' = NoIdx /\ rf' = TransmitAck(Seen, rf.rxmatch, Fallback)
        /\ UNCHANGED pool
  /\ pending_rx_idx' = rx_idx /\ rx_idx' = NoIdx /\ state' = "TxAck"
  /\ UNCHANGED <<rx_queue, got>>

\* Mutant: out of buffers after an ACK, the radio is left to its shortcut.
ReceiveAfterAckNoStop(p) ==
  /\ AllocDmaBuffer(Release(p, ack_tx_idx))
  /\ IF rx_idx' # NoIdx
     THEN rf' = RestartRxAfterAck(Seen, rx_idx') /\ state' = "Receiver"
     ELSE rf' = Seen /\ state' = "Idle"
  /\ ack_tx_idx' = NoIdx

\* release_ack_tx, then receive again or stop for want of a buffer
ReceiveAfterAck(p) ==
  /\ AllocDmaBuffer(Release(p, ack_tx_idx))
  /\ IF rx_idx' # NoIdx
     THEN rf' = RestartRxAfterAck(Seen, rx_idx') /\ state' = "Receiver"
     ELSE rf' = Stop(Seen) /\ state' = "Idle"
  /\ ack_tx_idx' = NoIdx

OnAckSent ==
  /\ state = "TxAck" /\ rf.disabled
  /\ UNCHANGED <<last, hdr>>
  /\ IF pending_rx_idx # NoIdx
     THEN Deliver(pending_rx_idx) /\ ReceiveAfterAck(RxComplete(pool, pending_rx_idx))
     ELSE ReceiveAfterAck(pool) /\ UNCHANGED <<rx_queue, got>>
  /\ pending_rx_idx' = NoIdx

OnRepeatedAckSent ==
  /\ state = "TxRepeatedAck" /\ rf.disabled
  /\ ReceiveAfterAck(pool)
  /\ UNCHANGED <<rx_queue, pending_rx_idx, last, hdr, got>>

\* start_receiving: nothing to do unless Idle, Err when out of memory; in
\* Idle there is no RX buffer to keep.
StartListening ==
  IF state = "Idle"
  THEN /\ AllocDmaBuffer(pool)
       /\ IF rx_idx' # NoIdx
          THEN rf' = ArmRx(rf, rx_idx') /\ state' = "Receiver"
          ELSE UNCHANGED <<rf, state>>
  ELSE UNCHANGED <<pool, rx_idx, rf, state>>

OnIdle ==
  /\ state = "Idle" /\ ~rf.disabled
  /\ StartListening
  /\ UNCHANGED <<rx_queue, pending_rx_idx, ack_tx_idx, last, hdr, got>>

\* One run of the handler
HandleRadioEvent ==
  /\ \/ IgnoreUserEvent \/ OnBadCrc \/ OnDuplicateNoAck \/ OnDuplicate
     \/ OnNewNoAck \/ OnNew \/ OnAckSent \/ OnRepeatedAckSent \/ OnIdle
  /\ UNCHANGED <<timeslot_managed, peerVars>>

-----------------------------------------------------------------------------
(* stop_receiving: the packet being acknowledged is dropped with the rest. *)

\* Mutant: the buffer of the packet being acknowledged is not released.
StopReceivingKeepsPending ==
  /\ pool' = Release(Release(pool, rx_idx), ack_tx_idx)
  /\ rf' = Stop(rf) /\ state' = "Idle"
  /\ rx_idx' = NoIdx /\ pending_rx_idx' = NoIdx /\ ack_tx_idx' = NoIdx
  /\ UNCHANGED <<rx_queue, last, hdr, peerVars, got>>

StopReceiving ==
  /\ pool' = Release(Release(Release(pool, rx_idx), pending_rx_idx), ack_tx_idx)
  /\ rf' = Stop(rf) /\ state' = "Idle"
  /\ rx_idx' = NoIdx /\ pending_rx_idx' = NoIdx /\ ack_tx_idx' = NoIdx
  /\ UNCHANGED <<rx_queue, last, hdr, peerVars, got>>

-----------------------------------------------------------------------------
(* The air.  A peer does not send while the radio sends an ACK.            *)

\* The next packet, or the last one again (n = sent[p])
PeerSends(p, n, na) ==
  \/ n = sent[p] + 1 /\ n <= MaxSeq /\ na \in NoAckKinds
  \/ n = sent[p] /\ n >= 0 /\ na = sent_no_ack[p]

\* A reception ends: EasyDMA has written the header, except its pipe, and
\* the shortcut has the radio ramp up for the ACK.
RxEnd(p, n, na, ok) ==
  /\ rf.mode = "rx"
  /\ rf' = [rf EXCEPT !.mode = IF rf.txen THEN "tx" ELSE "off", !.disabled = TRUE,
                      !.crcok = ok, !.rxmatch = p]
  /\ hdr' = [hdr EXCEPT ![rf.ptr].seq = n, ![rf.ptr].no_ack = na]

Receive(p) ==
  \E n \in 0 .. MaxSeq, na \in BOOLEAN, ok \in BOOLEAN :
    /\ PeerSends(p, n, na) /\ RxEnd(p, n, na, ok)
    /\ sent' = [sent EXCEPT ![p] = n]
    /\ sent_no_ack' = [sent_no_ack EXCEPT ![p] = na]
    /\ UNCHANGED <<poolVars, smVars, heard, got>>

\* A packet is lost on the air, or sent to a radio that does not listen.
Miss(p) ==
  /\ rf.mode # "tx" /\ sent[p] < MaxSeq
  /\ sent' = [sent EXCEPT ![p] = @ + 1]
  /\ \E na \in NoAckKinds : sent_no_ack' = [sent_no_ack EXCEPT ![p] = na]
  /\ UNCHANGED <<poolVars, smVars, hdr, rf, heard, got>>

\* An ACK has been sent; the peer it is for hears it or not.
AckEnd ==
  /\ rf.mode = "tx"
  /\ rf' = [rf EXCEPT !.mode = IF rf.rxen THEN "rx" ELSE "off", !.disabled = TRUE]
  /\ \E h \in BOOLEAN :
       heard' = IF h THEN [heard EXCEPT ![rf.txaddress] = sent[rf.txaddress]]
                     ELSE heard
  /\ UNCHANGED <<poolVars, smVars, hdr, sent, sent_no_ack, got>>
=============================================================================
