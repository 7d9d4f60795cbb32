-------------------------- MODULE PacketPoolProofs --------------------------
(***************************************************************************)
(* Lemmas about the operators of PacketPool, for every number of buffers.  *)
(***************************************************************************)
EXTENDS PacketPool, FiniteSetTheorems, WellFoundedInduction, TLAPS

\* A store by the state machine keeps the pool a function into BufState.
LEMMA StoreType ==
  ASSUME NEW p \in [Buf -> BufState], NEW i, NEW s \in BufState
  PROVE  Store(p, i, s) \in [Buf -> BufState]
BY DEF Store

\* What each pool operation returns is a pool again (payload.rs:156-307).
LEMMA PoolOpsType ==
  ASSUME NEW p \in [Buf -> BufState], NEW i
  PROVE  /\ Release(p, i) \in [Buf -> BufState]
         /\ AllocTx(p, i) \in [Buf -> BufState]
         /\ EnqueueTx(p, i) \in [Buf -> BufState]
         /\ ToDma(p, i) \in [Buf -> BufState]
         /\ RxComplete(p, i) \in [Buf -> BufState]
<1>1. {"free", "tx_allocated", "tx_queued", "in_dma", "rx_queued"} = BufState
  BY DEF BufState
<1>2. QED
  BY <1>1, StoreType DEF Release, AllocTx, EnqueueTx, ToDma, RxComplete

\* The scans of the pool return buffers in the state they look for.
LEMMA ChoiceType ==
  ASSUME NEW p, NEW i
  PROVE  /\ i \in AllocTxChoice(p) => i \in Buf /\ p[i] = "free"
         /\ i \in RxToDmaChoice(p) => i \in Buf /\ p[i] = "free"
         /\ i \in DequeueTxChoice(p) => i \in Buf /\ p[i] = "tx_queued"
BY DEF AllocTxChoice, RxToDmaChoice, DequeueTxChoice, Lowest, FreeBufs, InState

\* A pool with a free buffer has a lowest one: the search finds it.
LEMMA LowestExists ==
  ASSUME NEW S \in SUBSET Buf, S # {}
  PROVE  Lowest(S) # {}
<1>1. S \in SUBSET Nat
  BY NAssumption DEF Buf
<1>2. PICK x \in S : \A y \in S : ~(<<y, x>> \in OpToRel(<, Nat))
  BY <1>1, NatLessThanWellFounded, WFMin
<1>3. ASSUME NEW y \in S
      PROVE  x <= y
  <2>1. x \in Nat /\ y \in Nat
    BY <1>1
  <2>2. ~(y < x)
    BY <1>2, <2>1 DEF OpToRel
  <2> QED
    BY <2>1, <2>2
<1> QED
  BY <1>3 DEF Lowest

\* A received buffer appended to the channel (payload.rs:282-287)
LEMMA RxSendType ==
  ASSUME NEW q \in Seq(Buf), NEW i \in Buf
  PROVE  RxSend(q, i) \in Seq(Buf)
BY DEF RxSend

\* The channel has one slot for each buffer of the pool: while it holds each
\* buffer at most once, it is never full for a buffer it does not hold, so
\* rx_complete's try_send, whose result is ignored, cannot fail.
LEMMA QueueNotFull ==
  ASSUME NEW q \in Seq(Buf), NEW i \in Buf,
         \A k, l \in 1 .. Len(q) : q[k] = q[l] => k = l,
         \A k \in 1 .. Len(q) : q[k] # i
  PROVE  Len(q) < N
<1>1. N \in Nat \ {0} /\ Len(q) \in Nat
  BY NAssumption
<1>2. IsFiniteSet(Buf) /\ Cardinality(Buf) = N
  BY <1>1, FS_Interval DEF Buf
<1>3. IsFiniteSet(Buf \ {i}) /\ Cardinality(Buf \ {i}) = N - 1
  BY <1>2, FS_RemoveElement
<1>4. IsFiniteSet(1 .. Len(q)) /\ Cardinality(1 .. Len(q)) = Len(q)
  <2>1. \A n \in Nat : IsFiniteSet(1 .. n) /\ Cardinality(1 .. n) = n
    BY FS_Interval
  <2>2. QED
    BY <1>1, <2>1
<1>5. SUFFICES ASSUME ~(Len(q) < N) PROVE FALSE
  OBVIOUS
<1> DEFINE f == [k \in 1 .. Len(q) |-> q[k]]
<1>6. f \in [1 .. Len(q) -> Buf \ {i}]
  OBVIOUS
<1>7. Cardinality(Buf \ {i}) < Cardinality(1 .. Len(q))
  BY <1>1, <1>3, <1>4, <1>5
<1>8. \E k, l \in 1 .. Len(q) : k # l /\ f[k] = f[l]
  <2> HIDE DEF f
  <2>1. QED
    BY <1>3, <1>4, <1>6, <1>7, FS_PigeonHole
<1>9. QED
  BY <1>8
=============================================================================
