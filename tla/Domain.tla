------------------------------- MODULE Domain -------------------------------
(***************************************************************************)
(* The pure rules of internal/domain that the transactions of the store    *)
(* apply: the order on severities and the state machine of an incident.    *)
(***************************************************************************)
EXTENDS Integers

Severities == {"info", "warning", "critical"}

\* (Severity).Rank; the default branch of the switch is rank 0.
Rank(severity) ==
    CASE severity = "critical" -> 3
      [] severity = "warning"  -> 2
      [] severity = "info"     -> 1
      [] OTHER                 -> 0

MaxSeverity(left, right) == IF Rank(right) > Rank(left) THEN right ELSE left

IncidentStatuses == {"open", "acknowledged", "resolved"}

\* (Incident).CanTransition.
CanTransition(from, to) ==
    \/ from = "open" /\ to \in {"acknowledged", "resolved"}
    \/ from = "acknowledged" /\ to = "resolved"
=============================================================================
