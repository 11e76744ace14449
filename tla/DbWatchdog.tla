----------------------------- MODULE DbWatchdog ------------------------------
(***************************************************************************)
(* The database watchdog of the server                                     *)
(* (packages/server/src/server/dbWatchdog.ts): a ping on a cadence, a      *)
(* streak of failures that ends the process, and the excuse of a starved   *)
(* event loop, which counts no failure, clears no streak and has a ceiling *)
(* of its own.                                                             *)
(***************************************************************************)
EXTENDS Naturals, Sequences

CONSTANTS
  FailureThreshold,   \* consecutive failures that end the process
  StarvedCeiling      \* consecutive inconclusive pings that end it too

ASSUME WatchdogBounds ==
  FailureThreshold \in Nat \ {0} /\ StarvedCeiling \in Nat \ {0}

VARIABLES
  consecutive,   \* failures in a row
  starvedTicks,  \* inconclusive pings in a row
  running,       \* a ping is out: further ticks are dropped
  done,          \* the process is told to exit
  silence        \* history: how each ping since the last answer went

watchdogVars == <<consecutive, starvedTicks, running, done, silence>>

WatchdogTypeOK ==
  /\ consecutive \in 0..FailureThreshold
  /\ starvedTicks \in 0..StarvedCeiling
  /\ running \in BOOLEAN
  /\ done \in BOOLEAN
  /\ silence \in Seq({"failed", "starved"})

WatchdogInit ==
  /\ consecutive = 0 /\ starvedTicks = 0
  /\ running = FALSE /\ done = FALSE
  /\ silence = <<>>

Tick ==
  /\ ~running /\ ~done
  /\ running' = TRUE
  /\ UNCHANGED <<consecutive, starvedTicks, done, silence>>

Answered ==
  /\ running
  /\ running' = FALSE
  /\ consecutive' = 0 /\ starvedTicks' = 0 /\ silence' = <<>>
  /\ UNCHANGED done

(* The ping failed or missed its deadline while the loop was not starved, or   *)
(* while its lag could not be read.                                            *)
Failed ==
  /\ running
  /\ running' = FALSE
  /\ consecutive' = consecutive + 1 /\ starvedTicks' = 0
  /\ done' = (consecutive + 1 >= FailureThreshold)
  /\ silence' = Append(silence, "failed")

(* An excuse without a ceiling. *)
StarvedForever ==
  /\ running
  /\ Len(silence) < 3 * FailureThreshold * StarvedCeiling
  /\ running' = FALSE
  /\ silence' = Append(silence, "starved")
  /\ UNCHANGED <<consecutive, starvedTicks, done>>

(* It failed while the event loop lagged beyond the ceiling: inconclusive. *)
Starved ==
  /\ running
  /\ running' = FALSE
  /\ starvedTicks' = starvedTicks + 1
  /\ done' = (starvedTicks + 1 >= StarvedCeiling)
  /\ silence' = Append(silence, "starved")
  /\ UNCHANGED consecutive

WatchdogNext == Tick \/ Answered \/ Failed \/ Starved

WatchdogSpec == WatchdogInit /\ [][WatchdogNext]_watchdogVars

(***************************************************************************)
(* The process never outlives FailureThreshold * StarvedCeiling pings      *)
(* without an answer, however failures and starvation alternate: a starved *)
(* ping clears no streak of failures, and a failure that resets the        *)
(* starved count brings the end nearer itself.                             *)
(***************************************************************************)
OutageIsBounded ==
  /\ Len(silence) <= FailureThreshold * StarvedCeiling
  /\ Len(silence) = FailureThreshold * StarvedCeiling => done

=============================================================================
