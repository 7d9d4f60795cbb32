------------------------------ MODULE Transport ------------------------------
(***************************************************************************)
(* The split transport of src/src/transport.rs: frames, the transport ACK, *)
(* the binding of pipes to devices, and duplicate suppression.             *)
(*                                                                         *)
(* A frame is the buffer the radio delivers: its size in bytes, the five   *)
(* header fields, and the payload they declare.  The functions have no     *)
(* state of their own, so they are operators here; the tracker and the     *)
(* binding table are values that their owner keeps in a variable.          *)
(***************************************************************************)
EXTENDS Integers, FiniteSets

CONSTANTS
  SeqCount,          \* number of sequence numbers (256: the field is a u8)
  Devices,         \* device ids the tracker holds (0 .. N - 1)
  BoundPipes,      \* pipes the binding table holds (0 .. PIPES - 1)
  NoDevice         \* an unbound pipe (None)

ASSUME TransportAssumption ==
  /\ SeqCount \in Nat \ {0, 1}
  /\ Devices \subseteq Nat
  /\ NoDevice \notin Nat

TRANSPORT_VERSION == 1
TRANSPORT_HEADER_LEN == 5
MAX_PAYLOAD == 252
MAX_TRANSPORT_PAYLOAD_LEN == MAX_PAYLOAD - TRANSPORT_HEADER_LEN
TRANSPORT_ACK_LEN == 4

FLAGS_V1_MASK == {"ack", "retransmit"}

SeqNumber == 0 .. SeqCount - 1

\* The sender's counter is advanced with wrapping_add(1).
NextSeq(s) == (s + 1) % SeqCount

-----------------------------------------------------------------------------
required_esb_payload_len(len) == TRANSPORT_HEADER_LEN + len

fits_esb_payload(esb, len) ==
  /\ len <= MAX_TRANSPORT_PAYLOAD_LEN
  /\ esb <= MAX_PAYLOAD
  /\ required_esb_payload_len(len) <= esb

\* TransportHeader::new and encode_frame: what they refuse
EncodeOk(flags, len, room) ==
  /\ len <= MAX_TRANSPORT_PAYLOAD_LEN
  /\ flags \subseteq FLAGS_V1_MASK
  /\ room >= TRANSPORT_HEADER_LEN + len

encode_frame(device, sequence, flags, payload) ==
  [size |-> TRANSPORT_HEADER_LEN + payload.len, version |-> TRANSPORT_VERSION,
   device |-> device, sequence |-> sequence, flags |-> flags,
   payload_len |-> payload.len, payload |-> payload]

\* decode_frame: bytes after the declared payload are ignored.
DecodeOk(f) ==
  /\ f.size >= TRANSPORT_HEADER_LEN
  /\ f.version = TRANSPORT_VERSION
  /\ f.flags \subseteq FLAGS_V1_MASK
  /\ f.size >= TRANSPORT_HEADER_LEN + f.payload_len

-----------------------------------------------------------------------------
(* The transport ACK, carried in the extension of an ESB ACK payload.      *)

NoAck == [size |-> 0, magic |-> FALSE, device |-> 0, sequence |-> 0]

encode_transport_ack(device, sequence) ==
  [size |-> TRANSPORT_ACK_LEN, magic |-> TRUE, device |-> device,
   sequence |-> sequence]

AckDecodes(e) == e.size >= TRANSPORT_ACK_LEN /\ e.magic

AckMatches(e, device, sequence) ==
  AckDecodes(e) /\ e.device = device /\ e.sequence = sequence

-----------------------------------------------------------------------------
(* SequenceTracker: the last sequence accepted per device, or none         *)

NoSeq == SeqCount

EmptyTracker == [d \in Devices |-> NoSeq]

\* Mutant: the sequence is not compared, only the valid flag.
SeenBefore(tracker, device, sequence) == tracker[device] # NoSeq

IsDuplicate(tracker, device, sequence) == tracker[device] = sequence

Track(tracker, device, sequence) == [tracker EXCEPT ![device] = sequence]

reset_device(tracker, device) == [tracker EXCEPT ![device] = NoSeq]

(* StaticBindingTable: a function from pipes to a device or NoDevice       *)

EmptyBindings == [p \in BoundPipes |-> NoDevice]

bind(bindings, pipe, device) == [bindings EXCEPT ![pipe] = device]

unbind(bindings, pipe) == [bindings EXCEPT ![pipe] = NoDevice]

\* accepts, with its error for a pipe outside the table
BindingAccepts(bindings, pipe, device) ==
  pipe \in BoundPipes /\ bindings[pipe] = device

-----------------------------------------------------------------------------
(* accept_bound_frame: "new", "duplicate", or "invalid" for a frame that   *)
(* is malformed, is not bound to its pipe, or has no place in the tracker. *)

\* Mutant: a duplicate is accepted again.
AcceptRepeats(bindings, tracker, pipe, f) ==
  IF ~(DecodeOk(f) /\ BindingAccepts(bindings, pipe, f.device)
       /\ f.device \in Devices)
  THEN "invalid" ELSE "new"

accept_bound_frame(bindings, tracker, pipe, f) ==
  IF ~(DecodeOk(f) /\ BindingAccepts(bindings, pipe, f.device)
       /\ f.device \in Devices)
  THEN "invalid"
  ELSE IF IsDuplicate(tracker, f.device, f.sequence) THEN "duplicate" ELSE "new"
=============================================================================
