----------------------------- MODULE LinkTiming -----------------------------
(***************************************************************************)
(* LinkTiming of src/src/mpsl_schedule.rs: from the schedule hints in the  *)
(* ACKs of the left half, how long the right half waits before it sends    *)
(* (src/boards/elytra/src/main.rs), so that a slot meets a receive window. *)
(*                                                                         *)
(* The owner of the value may call its methods in any order; time passes   *)
(* in between.  Times are natural numbers of microseconds, of which u64    *)
(* has enough.  The counters of locks and fallbacks, which nothing reads   *)
(* but the log, are left out.                                              *)
(***************************************************************************)
EXTENDS Integers

CONSTANTS
  Hints,                    \* the hints the left half may send
  HintValid, MaxWait, Guard, MissLimit,   \* LinkTimingConfig
  MaxNow,                   \* bound: the time at which the model stops
  NoHint                    \* last_hint: None

\* ScheduleHint::validate, which decode_schedule_hint applies
ValidHint(h) ==
  /\ h.delay \in Nat /\ h.period \in Nat /\ h.window \in Nat
  /\ h.period > 0 /\ h.window > 0 /\ h.window <= h.period

\* LinkTimingConfig::validate; the firmware's configuration is a constant.
ValidConfig ==
  /\ HintValid \in Nat \ {0} /\ MaxWait \in Nat \ {0} /\ MissLimit \in Nat \ {0}
  /\ Guard \in Nat

ASSUME LinkTimingAssumption ==
  /\ \A h \in Hints : ValidHint(h)
  /\ ValidConfig
  /\ MaxNow \in Nat
  /\ NoHint \notin Hints

VARIABLES
  now,
  mode, last_hint, last_hint_at, next_window_at, miss_streak,   \* LinkTiming
  answer                    \* what bounded_wait has just returned

timing == <<mode, last_hint, last_hint_at, next_window_at, miss_streak>>
vars == <<now, timing, answer>>

NoAnswer == [wait |-> 0, fallback |-> "unasked"]

Wait(us) == [wait |-> us, fallback |-> "none"]

Fallback(why) == [wait |-> 0, fallback |-> why]

\* saturating_sub
Minus(a, b) == IF a > b THEN a - b ELSE 0

Init ==
  /\ now = 0 /\ mode = "Unsynced" /\ last_hint = NoHint
  /\ last_hint_at = 0 /\ next_window_at = 0 /\ miss_streak = 0
  /\ answer = NoAnswer

-----------------------------------------------------------------------------
Tick ==
  /\ now < MaxNow
  /\ now' = now + 1 /\ answer' = NoAnswer
  /\ UNCHANGED timing

observe_hint(h) ==
  /\ mode' = "Synced" /\ last_hint' = h /\ last_hint_at' = now
  /\ next_window_at' = now + h.delay /\ miss_streak' = 0
  /\ answer' = NoAnswer /\ UNCHANGED now

\* Mutant: one miss more than the limit.
TooManyMissesLate(misses) == misses > MissLimit

TooManyMisses(misses) == misses >= MissLimit

\* The streak saturates at 255; it is kept up to the limit here.
observe_miss ==
  /\ miss_streak' = IF miss_streak > MissLimit THEN miss_streak ELSE miss_streak + 1
  /\ mode' = IF TooManyMisses(miss_streak') THEN "Degraded" ELSE mode
  /\ answer' = NoAnswer
  /\ UNCHANGED <<now, last_hint, last_hint_at, next_window_at>>

reset_to_scan ==
  /\ mode' = "Unsynced" /\ last_hint' = NoHint
  /\ next_window_at' = 0 /\ miss_streak' = 0
  /\ answer' = NoAnswer /\ UNCHANGED <<now, last_hint_at>>

\* Mutant: a window that ends just now is still waited for.
WindowOverLate(w) == w + last_hint.window < now

WindowOver(w) == w + last_hint.window <= now

\* Periods the loop adds to next_window_at, until a window that is not over
Skips ==
  {k \in 0 .. now :
     /\ ~WindowOver(next_window_at + k * last_hint.period)
     /\ k > 0 => WindowOver(next_window_at + (k - 1) * last_hint.period)}

\* A hint, but an old one: it is dropped.
Expire ==
  /\ mode # "Degraded" /\ last_hint # NoHint
  /\ Minus(now, last_hint_at) > HintValid
  /\ mode' = "Unsynced" /\ last_hint' = NoHint
  /\ answer' = Fallback("HintExpired")
  /\ UNCHANGED <<now, last_hint_at, next_window_at, miss_streak>>

WaitForWindow ==
  /\ mode # "Degraded" /\ last_hint # NoHint
  /\ Minus(now, last_hint_at) <= HintValid
  /\ \E k \in Skips :
       LET w == next_window_at + k * last_hint.period
           us == Minus(Minus(w, Guard), now) IN
         /\ next_window_at' = w
         /\ answer' = IF us > MaxWait THEN Fallback("WaitTooLong") ELSE Wait(us)
  /\ UNCHANGED <<now, mode, last_hint, last_hint_at, miss_streak>>

NoWait ==
  /\ \/ mode = "Degraded" /\ answer' = Fallback("Degraded")
     \/ mode # "Degraded" /\ last_hint = NoHint /\ answer' = Fallback("NoHint")
  /\ UNCHANGED <<now, timing>>

bounded_wait == NoWait \/ Expire \/ WaitForWindow

Next ==
  \/ Tick \/ observe_miss \/ reset_to_scan \/ bounded_wait
  \/ \E h \in Hints : observe_hint(h)

Spec == Init /\ [][Next]_vars

-----------------------------------------------------------------------------
(* Properties                                                              *)

\* Every variable holds a value of the kind its field holds.
TypeOK ==
  /\ now \in Nat /\ mode \in {"Unsynced", "Synced", "Degraded"}
  /\ last_hint \in Hints \cup {NoHint}
  /\ last_hint_at \in Nat /\ next_window_at \in Nat /\ miss_streak \in 0 .. MissLimit + 1
  /\ answer \in [wait : Nat, fallback : {"none", "unasked", "NoHint", "Degraded",
                                         "HintExpired", "WaitTooLong"}]

\* The k-th window the hint announces
Window(k) == last_hint_at + last_hint.delay + k * last_hint.period

\* The first window of the hint that ends later than now
IsNextWindow(k) ==
  /\ Window(k) + last_hint.window > now
  /\ k > 0 => Window(k - 1) + last_hint.window <= now

\* Without a fallback the sender wakes a guard time before the next window the
\* last hint announces, or at once when that time is past: whatever the calls
\* before have made of next_window_at, no window is waited for twice, skipped or
\* taken from an older hint (LinkTiming::bounded_wait).
AimsAtNextWindow ==
  answer.fallback = "none" =>
    /\ last_hint \in Hints
    /\ \E k \in 0 .. now : /\ IsNextWindow(k)
                           /\ answer.wait = Minus(Minus(Window(k), Guard), now)

\* A wait delays a key by at most max_wait, and is only ever made on a hint that
\* is not older than hint_valid, with fewer than miss_limit misses since.
WaitIsBounded ==
  answer.fallback = "none" =>
    /\ answer.wait <= MaxWait
    /\ now - last_hint_at <= HintValid
    /\ mode = "Synced" /\ miss_streak < MissLimit
=============================================================================
