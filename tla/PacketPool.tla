----------------------------- MODULE PacketPool -----------------------------
(***************************************************************************)
(* The packet pool of src/src/payload.rs: N buffers, each with an atomic   *)
(* ownership state, and one queue of received buffers for the application. *)
(*                                                                         *)
(* One run of a handler makes several pool calls, so the operations are    *)
(* operators from a pool value to a pool value: a component composes them  *)
(* and assigns the result to the variable pool once.  A pool value p is a  *)
(* function from buffers to ownership states.  The payload bytes are left  *)
(* out: the properties only ask who owns a buffer.                         *)
(***************************************************************************)
EXTENDS Integers, Sequences, FiniteSets

CONSTANT N                 \* number of packet buffers (const generic N)

ASSUME NAssumption == N \in Nat \ {0}

VARIABLES
  pool,                    \* ownership state of each buffer
  rx_queue                 \* completed receptions, oldest first

poolVars == <<pool, rx_queue>>

Buf == 0 .. N - 1

\* usize::MAX in the state machines: no buffer
NoIdx == N

BufState == {"free", "tx_allocated", "tx_queued", "in_dma", "rx_queued"}

PoolInit ==
  /\ pool = [i \in Buf |-> "free"]
  /\ rx_queue = <<>>

-----------------------------------------------------------------------------
InState(p, s) == {i \in Buf : p[i] = s}

FreeBufs(p) == InState(p, "free")

\* The compare-exchange loops run from index 0 up and stop at the first hit.
Lowest(S) == {i \in S : \A j \in S : i <= j}

\* A store to the state of buffer i; with i = NoIdx nothing is stored
\* (release_tx and release_ack_rx of the state machines test for NO_IDX).
Store(p, i, s) == IF i \in Buf THEN [p EXCEPT ![i] = s] ELSE p

Release(p, i) == Store(p, i, "free")

\* alloc_tx: the buffers it may return (a singleton, or none when full)
AllocTxChoice(p) == Lowest(FreeBufs(p))

AllocTx(p, i) == Store(p, i, "tx_allocated")

EnqueueTx(p, i) == IF p[i] = "tx_allocated" THEN Store(p, i, "tx_queued") ELSE p

\* try_dequeue_tx scans by index: the order of enqueue_tx calls is not kept.
DequeueTxChoice(p) == Lowest(InState(p, "tx_queued"))

\* alloc_dma_buffer: the first buffer for which rx_to_dma succeeds
RxToDmaChoice(p) == Lowest(FreeBufs(p))

ToDma(p, i) == Store(p, i, "in_dma")

\* rx_complete: the state is stored whatever it was; try_send drops the index
\* when the channel (capacity N) is full.
RxComplete(p, i) == Store(p, i, "rx_queued")

\* Mutant: a channel of one slot.
RxSendOneSlot(q, i) == IF q = <<>> THEN <<i>> ELSE q

RxSend(q, i) == IF Len(q) < N THEN Append(q, i) ELSE q
=============================================================================
