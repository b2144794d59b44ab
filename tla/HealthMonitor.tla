---------------------------- MODULE HealthMonitor ----------------------------
(***************************************************************************)
(* The health monitor of the network client (health_monitor.go): a         *)
(* goroutine that checks the connection every ten seconds and derives a    *)
(* status from the number of consecutive errors, which the senders and the *)
(* reconnection change too.  The count is read under the lock, the status  *)
(* written after it is released.                                           *)
(***************************************************************************)
EXTENDS Integers

CONSTANTS
  DegradedAt,   \* degradedThreshold
  UnhealthyAt   \* unhealthyThreshold

ASSUME MonitorAssumption ==
  DegradedAt \in Nat \ {0} /\ UnhealthyAt \in Nat /\ DegradedAt <= UnhealthyAt

VARIABLES
  errors,     \* metrics.ConsecutiveErrors, counted up to UnhealthyAt
  status,     \* the atomic
  newStatus,  \* what the goroutine is about to write, or "none"
  monitor     \* "off"; "on": the goroutine runs; "over": the context is cancelled

healthVars == <<errors, status, newStatus, monitor>>
Statuses == {"healthy", "degraded", "unhealthy"}

HealthTypeOK ==
  /\ errors \in 0..UnhealthyAt
  /\ status \in Statuses \cup {"unknown"}
  /\ newStatus \in Statuses \cup {"none"}
  /\ monitor \in {"off", "on", "over"}

\* NewHealthMonitor.
HealthInit == errors = 0 /\ status = "unknown" /\ newStatus = "none" /\ monitor = "off"

OneMore == IF errors < UnhealthyAt THEN errors + 1 ELSE errors

\* Few errors still count as healthy.
StatusFor(count) ==
  CASE count >= UnhealthyAt -> "unhealthy"
    [] count >= DegradedAt /\ count < UnhealthyAt -> "degraded"
    [] count < DegradedAt -> "healthy"

\* Start, and the first statement of a goroutine whose context is cancelled.
StartMonitor == monitor' = IF monitor = "off" THEN "on" ELSE monitor

\* Stop waits for the goroutine: what it was about to write is written.
StopMonitor ==
  /\ monitor' = "over" /\ newStatus' = "none"
  /\ status' = IF newStatus = "none" THEN status ELSE newStatus

\* Mutant: a failed check is not counted.
PerformHealthCheckUncounted(failed) ==
  /\ monitor = "on" /\ newStatus = "none"
  /\ errors' = IF failed THEN errors ELSE 0
  /\ newStatus' = StatusFor(errors')
  /\ UNCHANGED <<status, monitor>>

\* performHealthCheck, up to updateStatus.
PerformHealthCheck(failed) ==
  /\ monitor = "on" /\ newStatus = "none"
  /\ errors' = IF failed THEN OneMore ELSE 0
  /\ newStatus' = StatusFor(errors')
  /\ UNCHANGED <<status, monitor>>

UpdateStatus ==
  /\ newStatus # "none"
  /\ status' = newStatus /\ newStatus' = "none"
  /\ UNCHANGED <<errors, monitor>>

\* RecordMessageFailed; RecordReconnectAttempt(TRUE), RecordConnectionEstablished.
RecordMessageFailed == errors' = OneMore
RecordConnectionEstablished == errors' = 0
=============================================================================
