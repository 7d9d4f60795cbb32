-------------------------- MODULE SnapshotDelivery --------------------------
(***************************************************************************)
(* What the split link of the Elytra keyboard promises.  The right half    *)
(* takes snapshots of its matrix, numbered in order.  Some of them enter   *)
(* the left half's queue, none before it was taken and none after a later  *)
(* one; what was queued is applied, in order; the right half is told that  *)
(* a snapshot has arrived only if it was queued.  A crash of the left half *)
(* may lose what was queued until then, and nothing else.                  *)
(***************************************************************************)
EXTENDS Integers

VARIABLES
  written,         \* snapshots taken
  queued,          \* the last snapshot queued
  applied,         \* the last snapshot applied
  confirmed,       \* the last snapshot confirmed to the right half
  lost             \* the last snapshot queued when the left half crashed

vars == <<written, queued, applied, confirmed, lost>>

Init == written = 0 /\ queued = 0 /\ applied = 0 /\ confirmed = 0 /\ lost = 0

Take ==
  /\ written' = written + 1
  /\ UNCHANGED <<queued, applied, confirmed, lost>>

Queue ==
  /\ queued' \in queued + 1 .. written
  /\ UNCHANGED <<written, applied, confirmed, lost>>

\* A snapshot may be passed over for a later one.
Apply ==
  /\ applied' \in applied + 1 .. queued
  /\ UNCHANGED <<written, queued, confirmed, lost>>

Confirm ==
  /\ confirmed' \in confirmed + 1 .. queued
  /\ UNCHANGED <<written, queued, applied, lost>>

Crash ==
  /\ lost' = queued
  /\ UNCHANGED <<written, queued, applied, confirmed>>

Next == Take \/ Queue \/ Apply \/ Confirm \/ Crash

\* The left half gets on with what it has queued since its last crash.
Spec == Init /\ [][Next]_vars /\ WF_vars(Apply /\ applied' = queued /\ lost < queued)
=============================================================================
