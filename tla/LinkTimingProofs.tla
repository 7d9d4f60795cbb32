-------------------------- MODULE LinkTimingProofs --------------------------
(***************************************************************************)
(* Proofs about LinkTiming, for all hints and configurations.  The         *)
(* inductive invariant says what next_window_at is between two calls: a    *)
(* window of the last hint, all windows before which are over.             *)
(***************************************************************************)
EXTENDS LinkTiming, TLAPS

\* next_window_at is the k-th window of the hint and no later than the next.
IsWindow(k) ==
  /\ next_window_at = Window(k)
  /\ k > 0 => Window(k - 1) + last_hint.window <= now

\* The inductive invariant
IInv ==
  /\ TypeOK
  /\ last_hint \in Hints =>
       /\ last_hint_at <= now /\ mode # "Unsynced"
       /\ \E k \in Nat : IsWindow(k)
  /\ mode = "Synced" => miss_streak < MissLimit /\ last_hint \in Hints

\* A product of naturals is a natural.
LEMMA ProductInNat ==
  ASSUME NEW a \in Nat, NEW p \in Nat
  PROVE  a * p \in Nat
  OBVIOUS

\* A product grows with its first factor.
LEMMA ProductGrows ==
  ASSUME NEW a \in Nat, NEW p \in Nat, p > 0
  PROVE  a * p >= a
  OBVIOUS

\* A product distributes over a sum.
LEMMA ProductAdds ==
  ASSUME NEW a \in Int, NEW b \in Int, NEW p \in Nat
  PROVE  (a + b) * p = a * p + b * p
  OBVIOUS

-----------------------------------------------------------------------------
\* The windows of a hint are natural numbers, period apart.
LEMMA WindowType ==
  ASSUME TypeOK, last_hint \in Hints, NEW k \in Nat
  PROVE  Window(k) \in Nat
<1>1. last_hint.delay \in Nat /\ last_hint.period \in Nat
  BY LinkTimingAssumption DEF ValidHint
<1>2. k * last_hint.period \in Nat
  BY <1>1, ProductInNat
<1> QED
  BY <1>1, <1>2 DEF Window, TypeOK

\* j windows on is j periods later.
LEMMA WindowAdds ==
  ASSUME TypeOK, last_hint \in Hints, NEW k \in Int, NEW j \in Int
  PROVE  Window(k) + j * last_hint.period = Window(k + j)
<1>1. last_hint.delay \in Nat /\ last_hint.period \in Nat
  BY LinkTimingAssumption DEF ValidHint
<1>2. (k + j) * last_hint.period = k * last_hint.period + j * last_hint.period
  BY <1>1, ProductAdds
<1>3. k * last_hint.period \in Int /\ j * last_hint.period \in Int
  BY <1>1
<1> QED
  BY <1>1, <1>2, <1>3 DEF Window, TypeOK

\* As many windows can be over as there have been microseconds.
LEMMA FewAreOver ==
  ASSUME TypeOK, last_hint \in Hints, NEW k \in Nat, k > 0,
         Window(k - 1) + last_hint.window <= now
  PROVE  k <= now
<1>1. /\ last_hint.delay \in Nat /\ last_hint.period \in Nat /\ last_hint.window \in Nat
      /\ last_hint.period > 0 /\ last_hint.window > 0
  BY LinkTimingAssumption DEF ValidHint
<1>2. (k - 1) * last_hint.period >= k - 1
  BY <1>1, ProductGrows
<1>3. (k - 1) * last_hint.period \in Nat
  BY <1>1, ProductInNat
<1> QED
  BY <1>1, <1>2, <1>3 DEF Window, TypeOK

-----------------------------------------------------------------------------
\* A link without a hint satisfies the invariant.
LEMMA InitIInv == Init => IInv
<1> SUFFICES ASSUME Init PROVE IInv
  OBVIOUS
<1>1. TypeOK
  BY LinkTimingAssumption DEF Init, TypeOK, NoAnswer, ValidConfig
<1>2. last_hint \notin Hints
  BY LinkTimingAssumption DEF Init
<1> QED
  BY <1>1, <1>2 DEF IInv, Init

\* What WaitForWindow finds, from wherever earlier calls have left next_window_at
LEMMA WindowFound ==
  ASSUME IInv, last_hint \in Hints, NEW k \in Skips
  PROVE  \E m \in 0 .. now :
           /\ next_window_at + k * last_hint.period = Window(m)
           /\ IsNextWindow(m)
<1> USE DEF IInv
<1>1. PICK j \in Nat : IsWindow(j)
  OBVIOUS
<1>0. TypeOK
  OBVIOUS
<1>2. k \in Nat /\ now \in Nat
  BY DEF Skips, TypeOK
<1>9. j \in Int /\ k \in Int /\ k - 1 \in Int
  BY <1>2
<1> DEFINE m == j + k
<1>3. m \in Nat
  BY <1>1, <1>2
<1>4. next_window_at + k * last_hint.period = Window(m)
  <2>1. Window(j) + k * last_hint.period = Window(j + k)
    BY <1>0, <1>9, WindowAdds
  <2> QED
    BY <1>1, <2>1 DEF IsWindow
<1>5. last_hint.window \in Nat /\ Window(m) \in Nat
  BY <1>3, WindowType, LinkTimingAssumption DEF ValidHint
<1>6. Window(m) + last_hint.window > now
  BY <1>2, <1>4, <1>5 DEF Skips, WindowOver
<1>7. ASSUME m > 0 PROVE Window(m - 1) + last_hint.window <= now
  <2>1. CASE k > 0
    <3>1. next_window_at + (k - 1) * last_hint.period = Window(m - 1)
      <4>1. Window(j) + (k - 1) * last_hint.period = Window(j + (k - 1))
        BY <1>0, <1>9, WindowAdds
      <4>2. j + (k - 1) = m - 1
        BY <1>1, <1>2
      <4> QED
        BY <1>1, <4>1, <4>2 DEF IsWindow
    <3> QED
      BY <2>1, <3>1 DEF Skips, WindowOver
  <2>2. CASE k = 0
    BY <1>1, <1>7, <2>2 DEF IsWindow
  <2> QED
    BY <1>2, <2>1, <2>2
<1>8. m \in 0 .. now
  BY <1>2, <1>3, <1>7, FewAreOver
<1> QED
  BY <1>4, <1>6, <1>7, <1>8 DEF IsNextWindow

\* Every call keeps the types.
LEMMA TypeStep == IInv /\ [Next]_vars => TypeOK'
<1> SUFFICES ASSUME IInv, [Next]_vars PROVE TypeOK'
  OBVIOUS
<1> USE LinkTimingAssumption DEF TypeOK, ValidConfig, NoAnswer, Fallback, Wait, Minus
<1>0. TypeOK
  BY DEF IInv
<1>1. CASE Tick
  BY <1>0, <1>1 DEF Tick, timing
<1>2. ASSUME NEW h \in Hints, observe_hint(h) PROVE TypeOK'
  BY <1>0, <1>2 DEF observe_hint, ValidHint
<1>3. CASE observe_miss
  BY <1>0, <1>3 DEF observe_miss, TooManyMisses
<1>4. CASE reset_to_scan
  BY <1>0, <1>4 DEF reset_to_scan
<1>5. CASE bounded_wait
  <2>1. CASE NoWait
    BY <1>0, <2>1 DEF NoWait, timing
  <2>2. CASE Expire
    BY <1>0, <2>2 DEF Expire
  <2>3. CASE WaitForWindow
    <3>1. PICK k \in Skips :
            LET w == next_window_at + k * last_hint.period
                us == Minus(Minus(w, Guard), now) IN
              /\ next_window_at' = w
              /\ answer' = IF us > MaxWait THEN Fallback("WaitTooLong") ELSE Wait(us)
      BY <2>3 DEF WaitForWindow
    <3>2. last_hint \in Hints
      BY <1>0, <2>3 DEF WaitForWindow
    <3>3. PICK m \in 0 .. now : next_window_at + k * last_hint.period = Window(m)
      BY <3>1, <3>2, WindowFound
    <3>4. Window(m) \in Nat
      BY <1>0, <3>2, <3>3, WindowType
    <3> QED
      BY <1>0, <2>3, <3>1, <3>3, <3>4 DEF WaitForWindow
  <2> QED
    BY <1>5, <2>1, <2>2, <2>3 DEF bounded_wait
<1>6. CASE UNCHANGED vars
  BY <1>0, <1>6 DEF vars, timing
<1> QED
  BY <1>1, <1>2, <1>3, <1>4, <1>5, <1>6 DEF Next

\* Every call keeps the invariant.
LEMMA NextIInv == IInv /\ [Next]_vars => IInv'
<1> SUFFICES ASSUME IInv, [Next]_vars PROVE IInv'
  OBVIOUS
<1>0. TypeOK /\ TypeOK'
  BY TypeStep DEF IInv
<1>a. \A k \in Nat : Window(k)' = Window(k) \/ last_hint' # last_hint
                     \/ last_hint_at' # last_hint_at
  BY DEF Window
<1>1. CASE Tick
  <2>1. ASSUME last_hint \in Hints PROVE \E k \in Nat : IsWindow(k)'
    <3>1. PICK k \in Nat : IsWindow(k)
      BY <2>1 DEF IInv
    <3>2. k > 0 => Window(k - 1) \in Nat
      BY <1>0, <2>1, WindowType
    <3>3. last_hint.window \in Nat
      BY <2>1, LinkTimingAssumption DEF ValidHint
    <3> QED
      BY <1>0, <1>1, <3>1, <3>2, <3>3 DEF Tick, timing, IsWindow, Window, TypeOK
  <2> QED
    BY <1>0, <1>1, <2>1 DEF IInv, Tick, timing, TypeOK
<1>2. ASSUME NEW h \in Hints, observe_hint(h) PROVE IInv'
  <2>1. h.delay \in Nat /\ h.period \in Nat
    BY LinkTimingAssumption DEF ValidHint
  <2>2. 0 * h.period = 0
    BY <2>1
  <2>3. IsWindow(0)'
    BY <1>0, <1>2, <2>1, <2>2 DEF observe_hint, IsWindow, Window, TypeOK
  <2> QED
    BY <1>0, <1>2, <2>3, LinkTimingAssumption DEF IInv, observe_hint, TypeOK, ValidConfig
<1>3. CASE observe_miss
  <2>1. ASSUME last_hint \in Hints PROVE \E k \in Nat : IsWindow(k)'
    <3>1. PICK k \in Nat : IsWindow(k)
      BY <2>1 DEF IInv
    <3> QED
      BY <1>3, <3>1 DEF observe_miss, IsWindow, Window
  <2> QED
    BY <1>0, <1>3, <2>1, LinkTimingAssumption
    DEF IInv, observe_miss, TooManyMisses, TypeOK, ValidConfig
<1>4. CASE reset_to_scan
  BY <1>0, <1>4, LinkTimingAssumption DEF IInv, reset_to_scan
<1>5. CASE bounded_wait
  <2>1. CASE NoWait
    <3>1. \A k : IsWindow(k)' <=> IsWindow(k)
      BY <2>1 DEF NoWait, timing, IsWindow, Window
    <3> QED
      BY <1>0, <2>1, <3>1 DEF IInv, NoWait, timing
  <2>2. CASE Expire
    BY <1>0, <2>2, LinkTimingAssumption DEF IInv, Expire
  <2>3. CASE WaitForWindow
    <3>1. PICK k \in Skips : next_window_at' = next_window_at + k * last_hint.period
      BY <2>3 DEF WaitForWindow
    <3>2. last_hint \in Hints
      BY <1>0, <2>3 DEF WaitForWindow, TypeOK
    <3>3. PICK m \in 0 .. now : /\ next_window_at' = Window(m)
                                /\ IsNextWindow(m)
      BY <3>1, <3>2, WindowFound
    <3>4. IsWindow(m)'
      BY <2>3, <3>3 DEF WaitForWindow, IsWindow, IsNextWindow, Window
    <3>5. m \in Nat
      BY <1>0, <3>3 DEF TypeOK
    <3> QED
      BY <1>0, <2>3, <3>2, <3>4, <3>5 DEF IInv, WaitForWindow
  <2> QED
    BY <1>5, <2>1, <2>2, <2>3 DEF bounded_wait
<1>6. CASE UNCHANGED vars
  <2>1. \A k : IsWindow(k)' <=> IsWindow(k)
    BY <1>6 DEF vars, timing, IsWindow, Window
  <2> QED
    BY <1>0, <1>6, <2>1 DEF IInv, vars, timing
<1> QED
  BY <1>1, <1>2, <1>3, <1>4, <1>5, <1>6 DEF Next

\* The inductive invariant holds in every reachable state.
THEOREM TimingInvariant == Spec => []IInv
  BY InitIInv, NextIInv, PTL DEF Spec

\* For all hints and configurations the fields of LinkTiming keep their types.
THEOREM TimingTypeOK == Spec => []TypeOK
<1>1. IInv => TypeOK
  BY DEF IInv
<1> QED
  BY <1>1, TimingInvariant, PTL


-----------------------------------------------------------------------------
\* No call has been answered at first.
LEMMA InitAnswers == Init => AimsAtNextWindow /\ WaitIsBounded
  BY DEF Init, NoAnswer, AimsAtNextWindow, WaitIsBounded

\* Only WaitForWindow answers without a fallback.
LEMMA OnlyWaitForWindow ==
  ASSUME IInv, Next, answer'.fallback = "none"
  PROVE  WaitForWindow
<1>1. CASE Tick
  BY <1>1 DEF Tick, NoAnswer
<1>2. ASSUME NEW h \in Hints, observe_hint(h) PROVE FALSE
  BY <1>2 DEF observe_hint, NoAnswer
<1>3. CASE observe_miss
  BY <1>3 DEF observe_miss, NoAnswer
<1>4. CASE reset_to_scan
  BY <1>4 DEF reset_to_scan, NoAnswer
<1>5. CASE bounded_wait
  BY <1>5 DEF bounded_wait, NoWait, Expire, Fallback
<1> QED
  BY <1>1, <1>2, <1>3, <1>4, <1>5 DEF Next

\* What a call answers satisfies both properties, by the invariant.
LEMMA StepAnswers ==
  IInv /\ AimsAtNextWindow /\ WaitIsBounded /\ [Next]_vars
    => AimsAtNextWindow' /\ WaitIsBounded'
<1> SUFFICES ASSUME IInv, AimsAtNextWindow, WaitIsBounded, [Next]_vars
             PROVE  AimsAtNextWindow' /\ WaitIsBounded'
  OBVIOUS
<1>0. TypeOK
  BY DEF IInv
<1>1. CASE UNCHANGED vars
  BY <1>1 DEF vars, timing, AimsAtNextWindow, WaitIsBounded, IsNextWindow, Window
<1>2. CASE Next
  <2> SUFFICES ASSUME answer'.fallback = "none"
               PROVE  AimsAtNextWindow' /\ WaitIsBounded'
    BY DEF AimsAtNextWindow, WaitIsBounded
  <2>1. WaitForWindow
    BY <1>2, OnlyWaitForWindow
  <2>2. last_hint \in Hints
    BY <1>0, <2>1 DEF WaitForWindow, TypeOK
  <2>3. PICK k \in Skips :
          LET w == next_window_at + k * last_hint.period
              us == Minus(Minus(w, Guard), now) IN
            answer' = IF us > MaxWait THEN Fallback("WaitTooLong") ELSE Wait(us)
    BY <2>1 DEF WaitForWindow
  <2>4. PICK m \in 0 .. now :
          /\ next_window_at + k * last_hint.period = Window(m)
          /\ IsNextWindow(m)
    BY <2>2, <2>3, WindowFound
  <2> DEFINE us == Minus(Minus(Window(m), Guard), now)
  <2>5. us \in Nat
    <3>1. Window(m) \in Nat
      BY <1>0, <2>2, <2>4, WindowType DEF TypeOK
    <3> QED
      BY <1>0, <3>1, LinkTimingAssumption DEF Minus, ValidConfig, TypeOK
  <2>6. ~(us > MaxWait) /\ answer' = Wait(us)
    BY <2>3, <2>4 DEF Fallback
  <2>7. answer'.wait = us
    BY <2>6 DEF Wait
  <2>8. UNCHANGED <<now, mode, last_hint, last_hint_at, miss_streak>>
    BY <2>1 DEF WaitForWindow
  <2>9. AimsAtNextWindow'
    BY <2>2, <2>4, <2>7, <2>8 DEF AimsAtNextWindow, IsNextWindow, Window
  <2>10. now - last_hint_at <= HintValid
    BY <1>0, <2>1, LinkTimingAssumption DEF WaitForWindow, Minus, TypeOK, ValidConfig
  <2>11. mode = "Synced" /\ miss_streak < MissLimit
    BY <1>0, <2>1, <2>2 DEF IInv, WaitForWindow, TypeOK
  <2>12. us <= MaxWait
    BY <2>5, <2>6, LinkTimingAssumption DEF ValidConfig
  <2>13. WaitIsBounded'
    BY <2>7, <2>8, <2>10, <2>11, <2>12 DEF WaitIsBounded
  <2> QED
    BY <2>9, <2>13
<1> QED
  BY <1>1, <1>2

\* For all hints and configurations, and however the calls and the passing of
\* time interleave, a wait of bounded_wait ends a guard time before the next
\* window of the last hint.
THEOREM TimingAims == Spec => []AimsAtNextWindow
  BY InitIInv, NextIInv, InitAnswers, StepAnswers, PTL DEF Spec

\* For all hints and configurations a wait is no longer than max_wait, and made
\* on a fresh hint that fewer than miss_limit misses have followed.
THEOREM TimingIsBounded == Spec => []WaitIsBounded
  BY InitIInv, NextIInv, InitAnswers, StepAnswers, PTL DEF Spec

=============================================================================
