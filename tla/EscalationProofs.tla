-------------------------- MODULE EscalationProofs --------------------------
(***************************************************************************)
(* Proofs about Escalation, for any number of incidents, steps, workers    *)
(* and attempts.  The inductive invariant IInv strengthens the checked     *)
(* invariants with what links them: a fencing token counts the claims of   *)
(* its row, and every job and every request stems from such a claim.       *)
(***************************************************************************)
EXTENDS Escalation, TLAPS

\* The rows: the fencing token counts attempts, a row exists with its incident
\* and is live only while that is open, and a live row can be claimed again.
RowInv ==
    \A e \in Escalations :
        /\ row[e].token = row[e].attempts
        /\ row[e].status = "absent" => row[e] = AbsentRow
        /\ row[e].status # "absent" => row[e].severity \in Severities
        /\ row[e].status = "absent" <=> incident[e[1]].status = "absent"
        /\ row[e].status \in LiveStatuses => incident[e[1]].status = "open"
        /\ row[e].status = "pending" => row[e].attempts < Budget(e)
        /\ row[e].status = "running" => row[e].lease # "none"

\* The jobs: each stems from a claim of its row.
JobInv ==
    \A w \in Workers, e \in Escalations :
        /\ job[w][e].phase # "idle" =>
              /\ job[w][e].token \in 1 .. row[e].token
              /\ job[w][e].incidentStatus = "open"
              /\ job[w][e].severity = row[e].severity
        /\ job[w][e].phase \in {"sending", "ok", "err"} => Notification(w, e) \in requests
        /\ job[w][e].phase = "ok" => Notification(w, e) \in received

\* The requests: each carries the snapshot of its row.
RequestInv ==
    /\ \A r \in requests : row[r.key].token > 0 /\ r.severity = row[r.key].severity
    /\ \A e \in Escalations : deliveries[e] \in {"none", row[e].severity}
    /\ \A r \in received : deliveries[r.key] # "none"

IInv ==
    /\ TypeOK
    /\ RowInv
    /\ JobInv
    /\ RequestInv
    /\ TokenIsExclusive
    /\ PendingRowHasNoHolder
    /\ SentByItsHolder
    /\ OutcomeRecordedOnce

\* Every escalation is an incident and a step, and its budget is positive.
LEMMA EscalationParts ==
    ASSUME NEW e \in Escalations
    PROVE  /\ e[1] \in Incidents /\ e[2] \in Steps
           /\ Budget(e) \in Nat \ {0}
BY EscalationConstants DEF Escalations, Budget

\* MaxSeverity yields one of its arguments.
LEMMA MaxSeverityType ==
    ASSUME NEW S, NEW a \in S, NEW b \in S
    PROVE  MaxSeverity(a, b) \in S
BY DEF MaxSeverity

\* What the SET clauses do to a row.
LEMMA CancelRowFields ==
    ASSUME NEW r \in Rows
    PROVE  /\ CancelRow(r) \in Rows
           /\ CancelRow(r).status = "cancelled"
           /\ CancelRow(r).token = r.token
           /\ CancelRow(r).attempts = r.attempts
           /\ CancelRow(r).severity = r.severity
BY DEF CancelRow, Rows, RowStatuses

\* The row that a claim gives up keeps its counters.
LEMMA BuryRowFields ==
    ASSUME NEW r \in Rows
    PROVE  /\ BuryRow(r) \in Rows
           /\ BuryRow(r).status = "dead"
           /\ BuryRow(r).token = r.token
           /\ BuryRow(r).attempts = r.attempts
           /\ BuryRow(r).severity = r.severity
BY DEF BuryRow, Rows, RowStatuses

\* The row that a claim leases advances its token and its attempts together.
LEMMA LeaseRowFields ==
    ASSUME NEW r \in Rows
    PROVE  /\ LeaseRow(r) \in Rows
           /\ LeaseRow(r).status = "running"
           /\ LeaseRow(r).token = r.token + 1
           /\ LeaseRow(r).attempts = r.attempts + 1
           /\ LeaseRow(r).severity = r.severity
           /\ LeaseRow(r).lease = "live"
<1>1. ASSUME NEW t \in Nat, NEW a \in Nat
      PROVE  [r EXCEPT !.status = "running", !.lease = "live", !.token = t, !.attempts = a] \in Rows
  BY DEF Rows, RowStatuses
<1>2. LeaseRow(r) \in Rows
  <2>1. r.token \in Nat /\ r.attempts \in Nat
    BY DEF Rows
  <2>2. r.token + 1 \in Nat /\ r.attempts + 1 \in Nat
    BY <2>1
  <2> QED
    BY <1>1, <2>2 DEF LeaseRow
<1>3. /\ LeaseRow(r).status = "running"
      /\ LeaseRow(r).token = r.token + 1
      /\ LeaseRow(r).attempts = r.attempts + 1
      /\ LeaseRow(r).severity = r.severity
      /\ LeaseRow(r).lease = "live"
  BY DEF LeaseRow, Rows
<1> QED
  BY <1>2, <1>3

\* What the bookkeeping of one goroutine does to the jobs.
LEMMA JobUpdate ==
    ASSUME job \in [Workers -> [Escalations -> Jobs]],
           NEW w \in Workers, NEW e \in Escalations, NEW j \in Jobs,
           job' = [job EXCEPT ![w][e] = j]
    PROVE  /\ job' \in [Workers -> [Escalations -> Jobs]]
           /\ \A v \in Workers, f \in Escalations :
                 job'[v][f] = IF v = w /\ f = e THEN j ELSE job[v][f]
OBVIOUS

\* Notify moves one job to its next phase and nothing else.
LEMMA PhaseUpdate ==
    ASSUME job \in [Workers -> [Escalations -> Jobs]],
           NEW w \in Workers, NEW e \in Escalations, NEW phase \in Phases,
           job' = [job EXCEPT ![w][e].phase = phase]
    PROVE  /\ job' \in [Workers -> [Escalations -> Jobs]]
           /\ \A v \in Workers, f \in Escalations :
                 IF v = w /\ f = e
                 THEN /\ job'[v][f].phase = phase
                      /\ job'[v][f].token = job[v][f].token
                      /\ job'[v][f].incidentStatus = job[v][f].incidentStatus
                      /\ job'[v][f].severity = job[v][f].severity
                 ELSE job'[v][f] = job[v][f]
<1>1. job' \in [Workers -> [Escalations -> Jobs]]
  <2>1. ASSUME NEW j \in Jobs PROVE [j EXCEPT !.phase = phase] \in Jobs
    BY DEF Jobs
  <2> QED
    BY <2>1
<1>2. ASSUME NEW v \in Workers, NEW f \in Escalations
      PROVE  IF v = w /\ f = e
             THEN /\ job'[v][f].phase = phase
                  /\ job'[v][f].token = job[v][f].token
                  /\ job'[v][f].incidentStatus = job[v][f].incidentStatus
                  /\ job'[v][f].severity = job[v][f].severity
             ELSE job'[v][f] = job[v][f]
  BY DEF Jobs
<1> QED
  BY <1>1, <1>2

\* A goroutine that has returned leaves no job.
LEMMA NoJobFields == NoJob \in Jobs /\ NoJob.phase = "idle"
BY DEF NoJob, Jobs, Phases

\* An empty store satisfies the inductive invariant.
LEMMA InitIInv == Init => IInv
<1> SUFFICES ASSUME Init PROVE IInv
  OBVIOUS
<1>1. TypeOK
  BY EscalationParts DEF Init, TypeOK, Rows, Jobs, RowStatuses, Phases, AbsentRow, NoJob, NoEntries
<1>2. RowInv
  BY EscalationParts DEF Init, RowInv, AbsentRow, LiveStatuses
<1>3. JobInv /\ RequestInv
  BY DEF Init, JobInv, RequestInv, NoJob
<1>4. TokenIsExclusive /\ PendingRowHasNoHolder /\ SentByItsHolder /\ OutcomeRecordedOnce
  BY DEF Init, TokenIsExclusive, PendingRowHasNoHolder, SentByItsHolder,
         OutcomeRecordedOnce, NoJob, AbsentRow, NoEntries
<1> QED
  BY <1>1, <1>2, <1>3, <1>4 DEF IInv

\* Acknowledging or resolving cancels exactly the live rows of the incident.
LEMMA TransitionStep ==
    ASSUME IInv, NEW i \in Incidents, NEW to \in IncidentStatuses, TransitionIncident(i, to)
    PROVE  IInv'
<1> USE DEF IInv
<1>1. \A f \in Escalations :
         /\ row'[f] \in Rows
         /\ row'[f].token = row[f].token
         /\ row'[f].attempts = row[f].attempts
         /\ row'[f].severity = row[f].severity
         /\ \/ row'[f] = row[f] /\ ~(f[1] = i /\ row[f].status \in LiveStatuses)
            \/ row'[f].status = "cancelled" /\ f[1] = i /\ row[f].status \in LiveStatuses
  BY CancelRowFields DEF TransitionIncident, CancelledStatuses, LiveStatuses, TypeOK
<1>2. \A j \in Incidents :
         /\ incident'[j].status = IF j = i THEN to ELSE incident[j].status
         /\ incident'[j].severity = incident[j].severity
         /\ incident'[j] \in [status : IncidentStatuses \cup {"absent"}, severity : Severities \cup {"none"}]
  BY DEF TransitionIncident, TypeOK
<1>3. UNCHANGED <<job, requests, received, deliveries, audit>>
  BY DEF TransitionIncident
<1>4. TypeOK'
  <2>1. row' \in [Escalations -> Rows]
    BY <1>1 DEF TransitionIncident
  <2>2. incident' \in [Incidents -> [status : IncidentStatuses \cup {"absent"}, severity : Severities \cup {"none"}]]
    BY <1>2 DEF TransitionIncident, TypeOK
  <2>3. \A e \in Escalations : row'[e].attempts <= Budget(e)
    BY <1>1 DEF TypeOK
  <2> QED
  BY <2>1, <2>2, <2>3, <1>3 DEF TypeOK
<1>5. RowInv'
  BY <1>1, <1>2, EscalationParts DEF RowInv, LiveStatuses, TransitionIncident, CanTransition
<1>6. JobInv'
  BY <1>1, <1>3 DEF JobInv, Notification
<1>7. RequestInv'
  BY <1>1, <1>3 DEF RequestInv, TypeOK, Requests
<1>8. TokenIsExclusive'
  BY <1>3 DEF TokenIsExclusive
<1>9. PendingRowHasNoHolder'
  BY <1>1, <1>3 DEF PendingRowHasNoHolder
<1>10. SentByItsHolder'
  BY <1>1, <1>3 DEF SentByItsHolder
<1>11. OutcomeRecordedOnce'
  BY <1>1, <1>3 DEF OutcomeRecordedOnce, LiveStatuses
<1> QED
  BY <1>4, <1>5, <1>6, <1>7, <1>8, <1>9, <1>10, <1>11

\* Opening an incident touches absent rows only, which nobody holds.
LEMMA OpenIncidentStep ==
    ASSUME IInv, NEW i \in Incidents, NEW severity \in AlertSeverities, OpenIncident(i, severity)
    PROVE  IInv'
<1> USE DEF IInv
<1>1. severity \in Severities
  BY EscalationConstants
<1>2. \A f \in Escalations :
         /\ row'[f] \in Rows
         /\ row'[f].token = row[f].token
         /\ row'[f].attempts = row[f].attempts
         /\ \/ row'[f] = row[f] /\ f[1] # i
            \/ /\ f[1] = i /\ row[f] = AbsentRow
               /\ row'[f].status = "pending" /\ row'[f].severity = severity
  <2>1. PICK due \in [Steps -> BOOLEAN] :
           row' = [f \in Escalations |->
                     IF f[1] = i
                     THEN [AbsentRow EXCEPT !.status = "pending",
                                            !.due = due[f[2]],
                                            !.severity = severity]
                     ELSE row[f]]
    BY DEF OpenIncident
  <2>2. SUFFICES ASSUME NEW f \in Escalations
                 PROVE  /\ row'[f] \in Rows
                        /\ row'[f].token = row[f].token
                        /\ row'[f].attempts = row[f].attempts
                        /\ \/ row'[f] = row[f] /\ f[1] # i
                           \/ /\ f[1] = i /\ row[f] = AbsentRow
                              /\ row'[f].status = "pending" /\ row'[f].severity = severity
    OBVIOUS
  <2>3. CASE f[1] = i
    <3>1. row[f] = AbsentRow
      BY <2>3 DEF OpenIncident, RowInv
    <3>2. due[f[2]] \in BOOLEAN
      BY EscalationParts
    <3> QED
      BY <1>1, <2>1, <2>3, <3>1, <3>2 DEF AbsentRow, Rows, RowStatuses
  <2>4. CASE f[1] # i
    BY <2>1, <2>4 DEF TypeOK
  <2> QED
    BY <2>3, <2>4
<1>3. \A j \in Incidents :
         /\ incident'[j].status = IF j = i THEN "open" ELSE incident[j].status
         /\ incident'[j] \in [status : IncidentStatuses \cup {"absent"}, severity : Severities \cup {"none"}]
  BY <1>1 DEF OpenIncident, TypeOK, IncidentStatuses
<1>4. UNCHANGED <<job, requests, received, deliveries, audit>>
  BY DEF OpenIncident
<1>5. TypeOK'
  <2>1. row' \in [Escalations -> Rows]
    BY <1>2 DEF OpenIncident
  <2>2. incident' \in [Incidents -> [status : IncidentStatuses \cup {"absent"}, severity : Severities \cup {"none"}]]
    BY <1>3 DEF OpenIncident, TypeOK
  <2> QED
    BY <1>2, <1>4, <2>1, <2>2 DEF TypeOK
<1>6. RowInv'
  BY <1>1, <1>2, <1>3, <1>4, EscalationParts DEF RowInv, LiveStatuses, AbsentRow
<1>7. JobInv'
  BY <1>1, <1>2, <1>3, <1>4 DEF JobInv, Notification, AbsentRow, TypeOK
<1>8. RequestInv'
  <2>1. \A r \in requests : r.key \in Escalations /\ row'[r.key] = row[r.key]
    BY <1>2 DEF RequestInv, TypeOK, Requests, AbsentRow
  <2>2. \A f \in Escalations : deliveries[f] \in {"none", row'[f].severity}
    BY <1>2 DEF RequestInv, AbsentRow
  <2> QED
    BY <1>4, <2>1, <2>2 DEF RequestInv
<1>9. TokenIsExclusive'
  BY <1>1, <1>2, <1>3, <1>4, NoJobFields DEF TokenIsExclusive
<1>10. PendingRowHasNoHolder'
  BY <1>1, <1>2, <1>3, <1>4 DEF PendingRowHasNoHolder, JobInv, AbsentRow
<1>11. SentByItsHolder'
  BY <1>1, <1>2, <1>3, <1>4 DEF SentByItsHolder
<1>12. OutcomeRecordedOnce'
  BY <1>1, <1>2, <1>3, <1>4 DEF OutcomeRecordedOnce, AbsentRow
<1> QED
  BY <1>5, <1>6, <1>7, <1>8, <1>9, <1>10, <1>11, <1>12

\* A later alert changes only the incident's severity.
LEMMA RaiseSeverityStep ==
    ASSUME IInv, NEW i \in Incidents, NEW severity \in AlertSeverities, RaiseSeverity(i, severity)
    PROVE  IInv'
<1> USE DEF IInv
<1>1. UNCHANGED <<row, job, requests, received, deliveries, audit>>
  BY DEF RaiseSeverity
<1>2. /\ incident' \in [Incidents -> [status : IncidentStatuses \cup {"absent"}, severity : Severities \cup {"none"}]]
      /\ \A j \in Incidents : incident'[j].status = incident[j].status
  <2>1. incident[i].severity \in Severities \cup {"none"} /\ severity \in Severities \cup {"none"}
    BY EscalationConstants DEF TypeOK
  <2>2. PICK sev \in Severities \cup {"none"} : incident' = [incident EXCEPT ![i].severity = sev]
    BY <2>1, MaxSeverityType DEF RaiseSeverity
  <2> QED
    BY <2>2 DEF TypeOK
<1>3. TypeOK'
  BY <1>1, <1>2 DEF TypeOK
<1>4. RowInv'
  BY <1>1, <1>2, EscalationParts DEF RowInv, LiveStatuses
<1>5. JobInv'
  BY <1>1, <1>2, NoJobFields DEF JobInv, Notification
<1>6. RequestInv'
  BY <1>1, <1>2 DEF RequestInv, TypeOK, Requests
<1>7. TokenIsExclusive'
  BY <1>1, <1>2, NoJobFields DEF TokenIsExclusive
<1>8. PendingRowHasNoHolder'
  BY <1>1, <1>2, NoJobFields DEF PendingRowHasNoHolder
<1>9. SentByItsHolder'
  BY <1>1, <1>2 DEF SentByItsHolder
<1>10. OutcomeRecordedOnce'
  BY <1>1, <1>2 DEF OutcomeRecordedOnce, LiveStatuses
<1> QED
  BY <1>3, <1>4, <1>5, <1>6, <1>7, <1>8, <1>9, <1>10

\* A due row is still a pending row.
LEMMA DueArrivesStep ==
    ASSUME IInv, NEW e \in Escalations, DueArrives(e)
    PROVE  IInv'
<1> USE DEF IInv
<1>1. UNCHANGED <<incident, job, requests, received, deliveries, audit>>
  BY DEF DueArrives
<1>2. /\ row' \in [Escalations -> Rows]
      /\ \A f \in Escalations :
            /\ row'[f].status = row[f].status
            /\ row'[f].token = row[f].token
            /\ row'[f].attempts = row[f].attempts
            /\ row'[f].severity = row[f].severity
            /\ row'[f].lease = "none" => row[f].lease = "none"
            /\ row[f].status = "absent" => row'[f] = row[f]
  <2>1. ASSUME NEW r \in Rows
        PROVE  /\ [r EXCEPT !.due = TRUE] \in Rows
               /\ \A c \in {"status", "token", "attempts", "severity", "lease"} :
                     [r EXCEPT !.due = TRUE][c] = r[c]
    BY DEF Rows
  <2>2. row' = [row EXCEPT ![e] = [row[e] EXCEPT !.due = TRUE]]
    BY DEF DueArrives
  <2>3. row[e].status # "absent"
    BY DEF DueArrives
  <2> QED
    BY <2>1, <2>2, <2>3 DEF TypeOK
<1>3. TypeOK'
  BY <1>1, <1>2 DEF TypeOK
<1>4. RowInv'
  BY <1>1, <1>2, EscalationParts DEF RowInv, LiveStatuses
<1>5. JobInv'
  BY <1>1, <1>2, NoJobFields DEF JobInv, Notification
<1>6. RequestInv'
  BY <1>1, <1>2 DEF RequestInv, TypeOK, Requests
<1>7. TokenIsExclusive'
  BY <1>1, <1>2, NoJobFields DEF TokenIsExclusive
<1>8. PendingRowHasNoHolder'
  BY <1>1, <1>2, NoJobFields DEF PendingRowHasNoHolder
<1>9. SentByItsHolder'
  BY <1>1, <1>2 DEF SentByItsHolder
<1>10. OutcomeRecordedOnce'
  BY <1>1, <1>2 DEF OutcomeRecordedOnce, LiveStatuses
<1> QED
  BY <1>3, <1>4, <1>5, <1>6, <1>7, <1>8, <1>9, <1>10

\* An expired lease is still a lease.
LEMMA LeaseExpiresStep ==
    ASSUME IInv, NEW e \in Escalations, LeaseExpires(e)
    PROVE  IInv'
<1> USE DEF IInv
<1>1. UNCHANGED <<incident, job, requests, received, deliveries, audit>>
  BY DEF LeaseExpires
<1>2. /\ row' \in [Escalations -> Rows]
      /\ \A f \in Escalations :
            /\ row'[f].status = row[f].status
            /\ row'[f].token = row[f].token
            /\ row'[f].attempts = row[f].attempts
            /\ row'[f].severity = row[f].severity
            /\ row'[f].lease = "none" => row[f].lease = "none"
            /\ row[f].status = "absent" => row'[f] = row[f]
  BY DEF LeaseExpires, TypeOK, Rows
<1>3. TypeOK'
  BY <1>1, <1>2 DEF TypeOK
<1>4. RowInv'
  BY <1>1, <1>2, EscalationParts DEF RowInv, LiveStatuses
<1>5. JobInv'
  BY <1>1, <1>2, NoJobFields DEF JobInv, Notification
<1>6. RequestInv'
  BY <1>1, <1>2 DEF RequestInv, TypeOK, Requests
<1>7. TokenIsExclusive'
  BY <1>1, <1>2, NoJobFields DEF TokenIsExclusive
<1>8. PendingRowHasNoHolder'
  BY <1>1, <1>2, NoJobFields DEF PendingRowHasNoHolder
<1>9. SentByItsHolder'
  BY <1>1, <1>2 DEF SentByItsHolder
<1>10. OutcomeRecordedOnce'
  BY <1>1, <1>2 DEF OutcomeRecordedOnce, LiveStatuses
<1> QED
  BY <1>3, <1>4, <1>5, <1>6, <1>7, <1>8, <1>9, <1>10

\* A claim hands out tokens nobody has had.
LEMMA ClaimStep ==
    ASSUME IInv, NEW w \in Workers, NEW buried \in SUBSET Escalations, NEW claimed \in SUBSET Escalations, ClaimRows(w, buried, claimed)
    PROVE  IInv'
<1> USE DEF IInv
<1>1. UNCHANGED <<incident, requests, received, deliveries>>
  BY DEF ClaimRows
<1>2. \A f \in Escalations :
         /\ row'[f] \in Rows
         /\ row'[f].severity = row[f].severity
         /\ row'[f].attempts <= Budget(f)
         /\ \/ f \notin claimed \cup buried /\ row'[f] = row[f]
            \/ /\ f \in claimed \ buried /\ row[f].status \in LiveStatuses
               /\ row'[f].status = "running" /\ row'[f].lease = "live"
               /\ row'[f].token = row[f].token + 1
               /\ row'[f].attempts = row[f].attempts + 1
            \/ /\ f \in buried \ claimed /\ row[f].status = "running"
               /\ row'[f].status = "dead"
               /\ row'[f].token = row[f].token
               /\ row'[f].attempts = row[f].attempts
  <2> SUFFICES ASSUME NEW f \in Escalations
               PROVE  /\ row'[f] \in Rows
                      /\ row'[f].severity = row[f].severity
                      /\ row'[f].attempts <= Budget(f)
                      /\ \/ f \notin claimed \cup buried /\ row'[f] = row[f]
                         \/ /\ f \in claimed \ buried /\ row[f].status \in LiveStatuses
                            /\ row'[f].status = "running" /\ row'[f].lease = "live"
                            /\ row'[f].token = row[f].token + 1
                            /\ row'[f].attempts = row[f].attempts + 1
                         \/ /\ f \in buried \ claimed /\ row[f].status = "running"
                            /\ row'[f].status = "dead"
                            /\ row'[f].token = row[f].token
                            /\ row'[f].attempts = row[f].attempts
    OBVIOUS
  <2>1. row[f] \in Rows /\ row[f].attempts \in Nat /\ row[f].attempts <= Budget(f) /\ Budget(f) \in Nat
    BY EscalationParts DEF TypeOK, Rows
  <2>2. CASE f \in buried
    <3>1. Exhausted(f) /\ f \notin claimed
      BY <2>1, <2>2 DEF ClaimRows, Exhausted, Claimable
    <3>2. row'[f] = BuryRow(row[f])
      BY <2>2 DEF ClaimRows
    <3> QED
      BY <2>1, <2>2, <3>1, <3>2, BuryRowFields DEF Exhausted
  <2>3. CASE f \in claimed \ buried
    <3>1. Claimable(f)
      BY <2>3 DEF ClaimRows
    <3>2. row'[f] = LeaseRow(row[f])
      BY <2>3 DEF ClaimRows
    <3>3. row[f].attempts + 1 <= Budget(f) /\ row[f].status \in LiveStatuses
      BY <2>1, <3>1 DEF Claimable, LiveStatuses
    <3> QED
      BY <2>1, <2>3, <3>2, <3>3, LeaseRowFields
  <2>4. CASE f \notin claimed \cup buried
    BY <2>1, <2>4 DEF ClaimRows
  <2> QED
    BY <2>2, <2>3, <2>4
<1>3. \A v \in Workers, f \in Escalations :
         job'[v][f] = IF v = w THEN IF f \in claimed THEN ClaimedJob(f) ELSE NoJob
                               ELSE job[v][f]
  BY DEF ClaimRows, TypeOK
<1>4. \A f \in claimed :
         /\ ClaimedJob(f) \in Jobs
         /\ ClaimedJob(f).phase = "claimed"
         /\ ClaimedJob(f).token = row[f].token + 1
         /\ ClaimedJob(f).incidentStatus = "open"
         /\ ClaimedJob(f).severity = row[f].severity
  <2> SUFFICES ASSUME NEW f \in claimed
               PROVE  /\ ClaimedJob(f) \in Jobs
                      /\ ClaimedJob(f).phase = "claimed"
                      /\ ClaimedJob(f).token = row[f].token + 1
                      /\ ClaimedJob(f).incidentStatus = "open"
                      /\ ClaimedJob(f).severity = row[f].severity
    OBVIOUS
  <2>1. /\ row[f].token \in Nat
        /\ row[f].severity \in Severities \cup {"none"}
        /\ incident[f[1]].status = "open"
    BY DEF ClaimRows, Claimable, TypeOK, Rows
  <2>2. row[f].token + 1 \in Nat
    BY <2>1
  <2>3. LeaseRow(row[f]).token = row[f].token + 1
    BY LeaseRowFields DEF ClaimRows, TypeOK
  <2> QED
    BY <2>1, <2>2, <2>3 DEF ClaimedJob, Jobs, Phases, IncidentStatuses
<1>5. \A f \in Escalations :
         /\ audit'[f] \in [sent : Nat, dead : Nat, retry : Nat]
         /\ f \notin buried => audit'[f] = audit[f]
         /\ f \in buried => audit'[f].dead = audit[f].dead + 1 /\ audit'[f].sent = audit[f].sent
  BY SMTT(30) DEF ClaimRows, BuriedEntry, TypeOK
<1>6. TypeOK'
  <2>1. row' \in [Escalations -> Rows]
    BY <1>2 DEF ClaimRows
  <2>2. job' \in [Workers -> [Escalations -> Jobs]]
    <3>1. [f \in Escalations |-> IF f \in claimed THEN ClaimedJob(f) ELSE NoJob] \in [Escalations -> Jobs]
      BY <1>4, NoJobFields
    <3> QED
      BY <3>1 DEF ClaimRows, TypeOK
  <2>3. audit' \in [Escalations -> [sent : Nat, dead : Nat, retry : Nat]]
    BY <1>5 DEF ClaimRows
  <2> QED
    BY <1>1, <1>2, <2>1, <2>2, <2>3 DEF TypeOK
<1>7. RowInv'
  BY <1>1, <1>2, EscalationParts DEF RowInv, LiveStatuses, ClaimRows, Claimable, Exhausted, TypeOK, Rows
<1>8. JobInv'
  BY <1>1, <1>2, <1>3, <1>4, <1>5, NoJobFields DEF JobInv, Notification, ClaimRows, Idle, TypeOK, Rows, Jobs
<1>9. RequestInv'
  BY <1>1, <1>2 DEF RequestInv, TypeOK, Requests, Rows
<1>10. TokenIsExclusive'
  BY <1>1, <1>2, <1>3, <1>4, <1>5, NoJobFields, SMTT(30) DEF TokenIsExclusive, JobInv, TypeOK, Rows, Jobs
<1>11. PendingRowHasNoHolder'
  BY <1>1, <1>2, <1>3, <1>4, <1>5, NoJobFields DEF PendingRowHasNoHolder
<1>12. SentByItsHolder'
  BY <1>1, <1>2 DEF SentByItsHolder
<1>13. OutcomeRecordedOnce'
  BY <1>2, <1>5 DEF OutcomeRecordedOnce, LiveStatuses
<1> QED
  BY <1>6, <1>7, <1>8, <1>9, <1>10, <1>11, <1>12, <1>13

\* The goroutine's first step puts the claim's snapshot on the wire.
LEMMA ProcessStep ==
    ASSUME IInv, NEW w \in Workers, NEW e \in Escalations, Process(w, e)
    PROVE  IInv'
<1> USE DEF IInv
<1>1. UNCHANGED <<incident, row, received, deliveries, audit>>
  BY DEF Process
<1>2. /\ job[w][e].token \in 1 .. row[e].token
      /\ job[w][e].severity = row[e].severity
      /\ job[w][e].incidentStatus = "open"
      /\ row[e].token \in Nat /\ row[e].severity \in Severities
  <2>1. /\ job[w][e].token \in 1 .. row[e].token
        /\ job[w][e].severity = row[e].severity
        /\ job[w][e].incidentStatus = "open"
        /\ row[e].token \in Nat
    BY DEF Process, JobInv, TypeOK, Rows
  <2>2. row[e].status # "absent"
    BY <2>1 DEF RowInv, AbsentRow
  <2> QED
    BY <2>1, <2>2 DEF RowInv
<1>3. /\ job' \in [Workers -> [Escalations -> Jobs]]
      /\ \A v \in Workers, f \in Escalations :
            IF v = w /\ f = e
            THEN /\ job'[v][f].phase = "sending"
                 /\ job'[v][f].token = job[v][f].token
                 /\ job'[v][f].incidentStatus = job[v][f].incidentStatus
                 /\ job'[v][f].severity = job[v][f].severity
            ELSE job'[v][f] = job[v][f]
  BY <1>2, PhaseUpdate DEF Process, TypeOK, Phases
<1>4. requests' = requests \cup {Notification(w, e)}
  BY <1>2 DEF Process
<1>5. /\ Notification(w, e) \in Requests
      /\ Notification(w, e).key = e /\ Notification(w, e).severity = row[e].severity
  BY <1>2 DEF Notification, Requests
<1>6. TypeOK'
  BY <1>1, <1>3, <1>4, <1>5 DEF TypeOK
<1>7. RowInv'
  BY <1>1 DEF RowInv
<1>8. JobInv'
  <2> SUFFICES ASSUME NEW v \in Workers, NEW f \in Escalations
               PROVE  /\ job'[v][f].phase # "idle" =>
                            /\ job'[v][f].token \in 1 .. row[f].token
                            /\ job'[v][f].incidentStatus = "open"
                            /\ job'[v][f].severity = row[f].severity
                      /\ job'[v][f].phase \in {"sending", "ok", "err"} =>
                            Notification(v, f)' \in requests'
                      /\ job'[v][f].phase = "ok" => Notification(v, f)' \in received
    BY <1>1 DEF JobInv
  <2>1. Notification(v, f)' = Notification(v, f)
    BY <1>3 DEF Notification
  <2>2. CASE v = w /\ f = e
    BY <1>2, <1>3, <1>4, <2>1, <2>2
  <2>3. CASE ~(v = w /\ f = e)
    BY <1>3, <1>4, <2>1, <2>3 DEF JobInv
  <2> QED
    BY <2>2, <2>3
<1>9. RequestInv'
  BY <1>1, <1>2, <1>4, <1>5 DEF RequestInv
<1>10. TokenIsExclusive'
  BY <1>3 DEF TokenIsExclusive, Process, Phases
<1>11. PendingRowHasNoHolder'
  BY <1>1, <1>3 DEF PendingRowHasNoHolder, Process
<1>12. SentByItsHolder'
  BY <1>1 DEF SentByItsHolder
<1>13. OutcomeRecordedOnce'
  BY <1>1 DEF OutcomeRecordedOnce
<1> QED
  BY <1>6, <1>7, <1>8, <1>9, <1>10, <1>11, <1>12, <1>13

\* The target keeps the first payload of a key.
LEMMA TargetReceivesStep ==
    ASSUME IInv, NEW r \in requests, TargetReceives(r)
    PROVE  IInv'
<1> USE DEF IInv
<1>1. UNCHANGED <<incident, row, job, requests, audit>> /\ received' = received \cup {r}
  BY DEF TargetReceives
<1>2. r \in Requests /\ r.key \in Escalations /\ r.severity \in Severities /\ r.severity # "none" 
  BY DEF TypeOK, Requests, Severities
<1>3. /\ deliveries' \in [Escalations -> Severities \cup {"none"}]
      /\ \A f \in Escalations :
            deliveries'[f] = IF f = r.key THEN Recorded(deliveries[f], r.severity) ELSE deliveries[f]
  BY <1>2 DEF TargetReceives, TypeOK, Recorded
<1>4. TypeOK'
  BY <1>1, <1>2, <1>3 DEF TypeOK
<1>5. RowInv'
  BY <1>1 DEF RowInv
<1>6. JobInv'
  BY <1>1 DEF JobInv, Notification
<1>7. RequestInv'
  <2>1. row[r.key].severity = r.severity
    BY DEF RequestInv
  <2>2. \A f \in Escalations : deliveries'[f] \in {"none", row[f].severity}
    BY <1>2, <1>3, <2>1 DEF RequestInv, Recorded
  <2>3. \A q \in received \cup {r} : deliveries'[q.key] # "none"
    BY <1>2, <1>3 DEF RequestInv, Recorded, TypeOK, Requests
  <2> QED
    BY <1>1, <2>2, <2>3 DEF RequestInv
<1>8. TokenIsExclusive'
  BY <1>1 DEF TokenIsExclusive
<1>9. PendingRowHasNoHolder'
  BY <1>1 DEF PendingRowHasNoHolder
<1>10. SentByItsHolder'
  BY <1>1 DEF SentByItsHolder
<1>11. OutcomeRecordedOnce'
  BY <1>1 DEF OutcomeRecordedOnce
<1> QED
  BY <1>4, <1>5, <1>6, <1>7, <1>8, <1>9, <1>10, <1>11

\* An answer proves that the target got the request.
LEMMA NotifyOkStep ==
    ASSUME IInv, NEW w \in Workers, NEW e \in Escalations, NotifyOk(w, e)
    PROVE  IInv'
<1> USE DEF IInv
<1>1. UNCHANGED <<incident, row, requests, received, deliveries, audit>>
  BY DEF NotifyOk
<1>2. /\ job' \in [Workers -> [Escalations -> Jobs]]
      /\ \A v \in Workers, f \in Escalations :
            IF v = w /\ f = e
            THEN /\ job'[v][f].phase = "ok"
                 /\ job'[v][f].token = job[v][f].token
                 /\ job'[v][f].incidentStatus = job[v][f].incidentStatus
                 /\ job'[v][f].severity = job[v][f].severity
            ELSE job'[v][f] = job[v][f]
  BY PhaseUpdate DEF NotifyOk, TypeOK, Phases
<1>3. TypeOK'
  BY <1>1, <1>2 DEF TypeOK
<1>4. RowInv'
  BY <1>1 DEF RowInv
<1>5. JobInv'
  BY <1>1, <1>2 DEF JobInv, Notification, NotifyOk
<1>6. RequestInv'
  BY <1>1 DEF RequestInv
<1>7. TokenIsExclusive'
  BY <1>1, <1>2 DEF TokenIsExclusive, NotifyOk
<1>8. PendingRowHasNoHolder'
  BY <1>1, <1>2 DEF PendingRowHasNoHolder, NotifyOk
<1>9. SentByItsHolder'
  BY <1>1 DEF SentByItsHolder
<1>10. OutcomeRecordedOnce'
  BY <1>1 DEF OutcomeRecordedOnce
<1> QED
  BY <1>3, <1>4, <1>5, <1>6, <1>7, <1>8, <1>9, <1>10

\* An error says nothing about the target.
LEMMA NotifyErrStep ==
    ASSUME IInv, NEW w \in Workers, NEW e \in Escalations, NotifyErr(w, e)
    PROVE  IInv'
<1> USE DEF IInv
<1>1. UNCHANGED <<incident, row, requests, received, deliveries, audit>>
  BY DEF NotifyErr
<1>2. /\ job' \in [Workers -> [Escalations -> Jobs]]
      /\ \A v \in Workers, f \in Escalations :
            IF v = w /\ f = e
            THEN /\ job'[v][f].phase = "err"
                 /\ job'[v][f].token = job[v][f].token
                 /\ job'[v][f].incidentStatus = job[v][f].incidentStatus
                 /\ job'[v][f].severity = job[v][f].severity
            ELSE job'[v][f] = job[v][f]
  BY PhaseUpdate DEF NotifyErr, TypeOK, Phases
<1>3. TypeOK'
  BY <1>1, <1>2 DEF TypeOK
<1>4. RowInv'
  BY <1>1 DEF RowInv
<1>5. JobInv'
  BY <1>1, <1>2 DEF JobInv, Notification, NotifyErr
<1>6. RequestInv'
  BY <1>1 DEF RequestInv
<1>7. TokenIsExclusive'
  BY <1>1, <1>2 DEF TokenIsExclusive, NotifyErr
<1>8. PendingRowHasNoHolder'
  BY <1>1, <1>2 DEF PendingRowHasNoHolder, NotifyErr
<1>9. SentByItsHolder'
  BY <1>1 DEF SentByItsHolder
<1>10. OutcomeRecordedOnce'
  BY <1>1 DEF OutcomeRecordedOnce
<1> QED
  BY <1>3, <1>4, <1>5, <1>6, <1>7, <1>8, <1>9, <1>10

\* A result that is turned away or lost leaves the row as it is.
LEMMA DroppedJob ==
    ASSUME IInv, NEW w \in Workers, NEW e \in Escalations, job' = [job EXCEPT ![w][e] = NoJob],
           UNCHANGED <<incident, row, requests, received, deliveries, audit>>
    PROVE  IInv'
<1> USE DEF IInv
<1>1. /\ job' \in [Workers -> [Escalations -> Jobs]]
      /\ \A v \in Workers, f \in Escalations :
            job'[v][f] = IF v = w /\ f = e THEN NoJob ELSE job[v][f]
  BY JobUpdate, NoJobFields DEF TypeOK
<1>2. TypeOK'
  BY <1>1 DEF TypeOK
<1>3. RowInv'
  BY DEF RowInv
<1>4. JobInv'
  BY <1>1, NoJobFields DEF JobInv, Notification
<1>5. RequestInv'
  BY DEF RequestInv
<1>6. TokenIsExclusive'
  BY <1>1, NoJobFields DEF TokenIsExclusive
<1>7. PendingRowHasNoHolder'
  BY <1>1, NoJobFields DEF PendingRowHasNoHolder
<1>8. SentByItsHolder'
  BY DEF SentByItsHolder
<1>9. OutcomeRecordedOnce'
  BY DEF OutcomeRecordedOnce
<1> QED
  BY <1>2, <1>3, <1>4, <1>5, <1>6, <1>7, <1>8, <1>9

\* So does a crash.
LEMMA CrashStep ==
    ASSUME IInv, NEW w \in Workers, Crash(w)
    PROVE  IInv'
<1> USE DEF IInv
<1>1. UNCHANGED <<incident, row, requests, received, deliveries, audit>>
  BY DEF Crash
<1>2. /\ job' \in [Workers -> [Escalations -> Jobs]]
      /\ \A v \in Workers, f \in Escalations :
            job'[v][f] = IF v = w THEN NoJob ELSE job[v][f]
  BY NoJobFields DEF Crash, TypeOK
<1>3. TypeOK'
  BY <1>1, <1>2 DEF TypeOK
<1>4. RowInv'
  BY <1>1 DEF RowInv
<1>5. JobInv'
  BY <1>1, <1>2, NoJobFields DEF JobInv, Notification
<1>6. RequestInv'
  BY <1>1 DEF RequestInv
<1>7. TokenIsExclusive'
  BY <1>1, <1>2, NoJobFields DEF TokenIsExclusive
<1>8. PendingRowHasNoHolder'
  BY <1>1, <1>2, NoJobFields DEF PendingRowHasNoHolder
<1>9. SentByItsHolder'
  BY <1>1 DEF SentByItsHolder
<1>10. OutcomeRecordedOnce'
  BY <1>1 DEF OutcomeRecordedOnce
<1> QED
  BY <1>3, <1>4, <1>5, <1>6, <1>7, <1>8, <1>9, <1>10

\* The fence lets only the row's present holder through.
LEMMA FencedFacts ==
    ASSUME IInv, NEW w \in Workers, NEW e \in Escalations,
           job[w][e].phase # "idle", Fenced(e, job[w][e].token)
    PROVE  /\ row[e].status = "running" /\ row[e].token = job[w][e].token
           /\ row[e] \in Rows /\ row[e].attempts \in Nat
           /\ audit[e].sent = 0 /\ audit[e].dead = 0
           /\ \A v \in Workers : v # w /\ job[v][e].phase # "idle" => job[v][e].token # row[e].token
BY DEF IInv, TypeOK, Rows, Fenced, TokenIsExclusive, OutcomeRecordedOnce

\* Completion by the present holder, whose request the target answered.
LEMMA CompleteStep ==
    ASSUME IInv, NEW w \in Workers, NEW e \in Escalations, Fenced(e, job[w][e].token),
           CompleteEscalation(w, e)
    PROVE  IInv'
<1> USE DEF IInv
<1>1. UNCHANGED <<incident, requests, received, deliveries>> /\ job[w][e].phase = "ok"
  BY DEF CompleteEscalation
<1>2. row[e].status = "running" /\ row[e].token = job[w][e].token /\ row[e] \in Rows
      /\ audit[e].sent = 0 /\ audit[e].dead = 0
  BY <1>1, FencedFacts
<1>3. /\ job' \in [Workers -> [Escalations -> Jobs]]
      /\ \A v \in Workers, f \in Escalations :
            job'[v][f] = IF v = w /\ f = e THEN NoJob ELSE job[v][f]
  BY JobUpdate, NoJobFields DEF CompleteEscalation, TypeOK
<1>4. /\ row' \in [Escalations -> Rows]
      /\ \A f \in Escalations :
            /\ row'[f].token = row[f].token
            /\ row'[f].attempts = row[f].attempts
            /\ row'[f].severity = row[f].severity
            /\ row'[f].status = IF f = e THEN "sent" ELSE row[f].status
            /\ f # e => row'[f] = row[f]
  <2>1. ASSUME NEW r \in Rows
        PROVE  /\ [r EXCEPT !.status = "sent", !.lease = "none"] \in Rows
               /\ [r EXCEPT !.status = "sent", !.lease = "none"].status = "sent"
               /\ \A c \in {"token", "attempts", "severity"} :
                     [r EXCEPT !.status = "sent", !.lease = "none"][c] = r[c]
    BY DEF Rows, RowStatuses
  <2>2. row' = [row EXCEPT ![e] = [row[e] EXCEPT !.status = "sent", !.lease = "none"]]
    BY DEF CompleteEscalation
  <2> QED
    BY <1>2, <2>1, <2>2 DEF TypeOK
<1>5. /\ audit' \in [Escalations -> [sent : Nat, dead : Nat, retry : Nat]]
      /\ \A f \in Escalations :
            IF f = e THEN audit'[f].sent = 1 /\ audit'[f].dead = 0
                     ELSE audit'[f] = audit[f]
  BY <1>2, SMTT(30) DEF CompleteEscalation, TypeOK
<1>6. TypeOK'
  BY <1>1, <1>2, <1>3, <1>4, <1>5 DEF TypeOK
<1>7. RowInv'
  BY <1>1, <1>2, <1>4, EscalationParts DEF RowInv, LiveStatuses
<1>8. JobInv'
  BY <1>1, <1>3, <1>4, NoJobFields DEF JobInv, Notification
<1>9. RequestInv'
  BY <1>1, <1>4 DEF RequestInv, TypeOK, Requests
<1>10. TokenIsExclusive'
  BY <1>3, NoJobFields DEF TokenIsExclusive
<1>11. PendingRowHasNoHolder'
  BY <1>3, <1>4, NoJobFields DEF PendingRowHasNoHolder
<1>12. SentByItsHolder'
  <2>1. Notification(w, e) \in received /\ Notification(w, e).key = e
        /\ Notification(w, e).token = row[e].token
    BY <1>1, <1>2 DEF JobInv, Notification
  <2> QED
    BY <1>1, <1>4, <2>1 DEF SentByItsHolder
<1>13. OutcomeRecordedOnce'
  BY <1>4, <1>5 DEF OutcomeRecordedOnce
<1> QED
  BY <1>6, <1>7, <1>8, <1>9, <1>10, <1>11, <1>12, <1>13

\* Failure by the present holder: the row is left with no holder.
LEMMA FailStep ==
    ASSUME IInv, NEW w \in Workers, NEW e \in Escalations, Fenced(e, job[w][e].token),
           FailEscalation(w, e)
    PROVE  IInv'
<1> USE DEF IInv
<1>1. UNCHANGED <<incident, requests, received, deliveries>> /\ job[w][e].phase = "err"
  BY DEF FailEscalation
<1>2. row[e].status = "running" /\ row[e].token = job[w][e].token /\ row[e] \in Rows
      /\ row[e].attempts \in Nat /\ audit[e].sent = 0 /\ audit[e].dead = 0
  BY <1>1, FencedFacts
<1>3. /\ job' \in [Workers -> [Escalations -> Jobs]]
      /\ \A v \in Workers, f \in Escalations :
            job'[v][f] = IF v = w /\ f = e THEN NoJob ELSE job[v][f]
  BY JobUpdate, NoJobFields DEF FailEscalation, TypeOK
<1>4. /\ row' \in [Escalations -> Rows]
      /\ \A f \in Escalations :
            /\ row'[f].token = row[f].token
            /\ row'[f].attempts = row[f].attempts
            /\ row'[f].severity = row[f].severity
            /\ row'[f].status = IF f = e THEN IF IsDead(row[e].attempts, Budget(e)) THEN "dead" ELSE "pending" ELSE row[f].status
            /\ f # e => row'[f] = row[f]
  <2>1. ASSUME NEW r \in Rows, NEW s \in {"dead", "pending"}
        PROVE  \E q \in Rows :
                  /\ q = [r EXCEPT !.status = s, !.due = FALSE, !.lease = "none"]
                  /\ q.status = s
                  /\ q.token = r.token /\ q.attempts = r.attempts /\ q.severity = r.severity
    <3> DEFINE q == [r EXCEPT !.status = s, !.due = FALSE, !.lease = "none"]
    <3>1. q \in Rows
      BY DEF Rows, RowStatuses
    <3>2. /\ q.status = s
          /\ q.token = r.token /\ q.attempts = r.attempts /\ q.severity = r.severity
      BY DEF Rows
    <3> QED
      BY <3>1, <3>2
  <2>2. PICK s \in {"dead", "pending"} :
           /\ s = IF IsDead(row[e].attempts, Budget(e)) THEN "dead" ELSE "pending"
           /\ row' = [row EXCEPT ![e] = [row[e] EXCEPT !.status = s, !.due = FALSE, !.lease = "none"]]
    BY DEF FailEscalation
  <2>3. PICK r \in Rows :
           /\ row' = [row EXCEPT ![e] = r]
           /\ r.status = s
           /\ r.token = row[e].token /\ r.attempts = row[e].attempts /\ r.severity = row[e].severity
    BY <1>2, <2>1, <2>2
  <2> QED
    BY <2>2, <2>3 DEF TypeOK
<1>5. /\ audit' \in [Escalations -> [sent : Nat, dead : Nat, retry : Nat]]
      /\ \A f \in Escalations :
            IF f = e THEN audit'[f].sent = 0 /\ audit'[f].dead = IF IsDead(row[e].attempts, Budget(e)) THEN 1 ELSE 0
                     ELSE audit'[f] = audit[f]
  <2>1. CASE IsDead(row[e].attempts, Budget(e))
    <3>1. audit' = [audit EXCEPT ![e].dead = @ + 1]
      BY <2>1 DEF FailEscalation
    <3> QED
      BY <1>2, <2>1, <3>1 DEF TypeOK
  <2>2. CASE ~IsDead(row[e].attempts, Budget(e))
    <3>1. audit' = [audit EXCEPT ![e].retry = @ + 1]
      BY <2>2 DEF FailEscalation
    <3> QED
      BY <1>2, <2>2, <3>1 DEF TypeOK
  <2> QED
    BY <2>1, <2>2
<1>6. TypeOK'
  BY <1>1, <1>3, <1>4, <1>5 DEF TypeOK
<1>7. RowInv'
  BY <1>1, <1>2, <1>4, EscalationParts DEF RowInv, LiveStatuses, IsDead
<1>8. JobInv'
  BY <1>1, <1>3, <1>4, NoJobFields DEF JobInv, Notification
<1>9. RequestInv'
  BY <1>1, <1>4 DEF RequestInv, TypeOK, Requests
<1>10. TokenIsExclusive'
  BY <1>3, NoJobFields DEF TokenIsExclusive
<1>11. PendingRowHasNoHolder'
  BY <1>1, <1>3, <1>4, NoJobFields, FencedFacts DEF PendingRowHasNoHolder
<1>12. SentByItsHolder'
  BY <1>1, <1>4 DEF SentByItsHolder
<1>13. OutcomeRecordedOnce'
  BY <1>4, <1>5 DEF OutcomeRecordedOnce
<1> QED
  BY <1>6, <1>7, <1>8, <1>9, <1>10, <1>11, <1>12, <1>13

\* Every step preserves the inductive invariant.
LEMMA NextIInv == IInv /\ [Next]_vars => IInv'
<1> SUFFICES ASSUME IInv, [Next]_vars PROVE IInv'
  OBVIOUS
<1>1. CASE \E i \in Incidents, severity \in AlertSeverities : OpenIncident(i, severity)
  BY <1>1, OpenIncidentStep
<1>2. CASE \E i \in Incidents, severity \in AlertSeverities : RaiseSeverity(i, severity)
  BY <1>2, RaiseSeverityStep
<1>3. CASE \E i \in Incidents, to \in IncidentStatuses : TransitionIncident(i, to)
  BY <1>3, TransitionStep
<1>4. CASE \E e \in Escalations : DueArrives(e)
  BY <1>4, DueArrivesStep
<1>5. CASE \E e \in Escalations : LeaseExpires(e)
  BY <1>5, LeaseExpiresStep
<1>6. CASE \E w \in Workers : ClaimEscalations(w)
  BY <1>6, ClaimStep DEF ClaimEscalations
<1>7. CASE \E w \in Workers, e \in Escalations : WorkerStep(w, e)
  <2> SUFFICES ASSUME NEW w \in Workers, NEW e \in Escalations, WorkerStep(w, e) PROVE IInv'
    BY <1>7
  <2>1. CASE Process(w, e)
    BY <2>1, ProcessStep
  <2>2. CASE NotifyOk(w, e)
    BY <2>2, NotifyOkStep
  <2>3. CASE NotifyErr(w, e)
    BY <2>3, NotifyErrStep
  <2>4. CASE CompleteEscalation(w, e)
    <3>1. CASE Fenced(e, job[w][e].token)
      BY <2>4, <3>1, CompleteStep
    <3>2. CASE ~Fenced(e, job[w][e].token)
      BY <2>4, <3>2, DroppedJob DEF CompleteEscalation
    <3> QED
      BY <3>1, <3>2
  <2>5. CASE FailEscalation(w, e)
    <3>1. CASE Fenced(e, job[w][e].token)
      BY <2>5, <3>1, FailStep
    <3>2. CASE ~Fenced(e, job[w][e].token)
      BY <2>5, <3>2, DroppedJob DEF FailEscalation
    <3> QED
      BY <3>1, <3>2
  <2>6. CASE StoreError(w, e)
    BY <2>6, DroppedJob DEF StoreError
  <2> QED
    BY <2>1, <2>2, <2>3, <2>4, <2>5, <2>6 DEF WorkerStep
<1>8. CASE \E r \in requests : TargetReceives(r)
  BY <1>8, TargetReceivesStep
<1>9. CASE \E w \in Workers : Crash(w)
  BY <1>9, CrashStep
<1>10. CASE UNCHANGED vars
  BY <1>10 DEF vars, IInv, TypeOK, RowInv, JobInv, RequestInv, Notification, TokenIsExclusive,
               PendingRowHasNoHolder, SentByItsHolder, OutcomeRecordedOnce
<1> QED
  BY <1>1, <1>2, <1>3, <1>4, <1>5, <1>6, <1>7, <1>8, <1>9, <1>10 DEF Next

\* The inductive invariant holds in every reachable state.
THEOREM Invariance == Spec => []IInv
BY InitIInv, NextIInv, PTL DEF Spec

\* The types, and the bound on attempts, hold for every number of workers,
\* incidents and attempts.
THEOREM TypeCorrect == Spec => []TypeOK
<1>1. IInv => TypeOK
  BY DEF IInv
<1> QED
  BY <1>1, Invariance, PTL

\* An acknowledged or resolved incident has no escalation that a worker could claim
\* or complete.
THEOREM AcknowledgedIsQuiet == Spec => []ClosedIncidentIsQuiet
<1>1. IInv => ClosedIncidentIsQuiet
  BY EscalationParts DEF IInv, RowInv, ClosedIncidentIsQuiet
<1> QED
  BY <1>1, Invariance, PTL

\* The fencing tokens of concurrent holders of a row differ.
THEOREM Fencing == Spec => []TokenIsExclusive
<1>1. IInv => TokenIsExclusive
  BY DEF IInv
<1> QED
  BY <1>1, Invariance, PTL

\* A row that waits for its next attempt is in nobody's hands.
THEOREM PendingIsFree == Spec => []PendingRowHasNoHolder
<1>1. IInv => PendingRowHasNoHolder
  BY DEF IInv
<1> QED
  BY <1>1, Invariance, PTL

\* A row is marked sent only by its holder, after its target got the request.
THEOREM SentIsDelivered == Spec => []SentByItsHolder
<1>1. IInv => SentByItsHolder
  BY DEF IInv
<1> QED
  BY <1>1, Invariance, PTL

\* All requests of an escalation carry the payload the target recorded.
THEOREM StablePayload == Spec => []OnePayloadPerKey
<1>1. IInv => OnePayloadPerKey
  BY DEF IInv, TypeOK, Requests, RequestInv, OnePayloadPerKey
<1> QED
  BY <1>1, Invariance, PTL

\* Every live row can still be claimed or given up.
THEOREM Claimability == Spec => []NoRowStranded
<1>1. IInv => NoRowStranded
  BY DEF IInv, RowInv, NoRowStranded
<1> QED
  BY <1>1, Invariance, PTL

\* Leases and tokens are sound: holders are told apart, released rows are free and
\* live rows can be claimed.
THEOREM SoundLeases == Spec => []LeasesAreSound
<1>1. TokenIsExclusive /\ PendingRowHasNoHolder /\ NoRowStranded => LeasesAreSound
  BY DEF LeasesAreSound
<1> QED
  BY <1>1, Fencing, PendingIsFree, Claimability, PTL

\* The timeline tells each outcome exactly once.
THEOREM Audited == Spec => []OutcomeRecordedOnce
<1>1. IInv => OutcomeRecordedOnce
  BY DEF IInv
<1> QED
  BY <1>1, Invariance, PTL

\* No step changes a finished row or adds to what the timeline says of it.
LEMMA FinishedStep ==
    ASSUME IInv, [Next]_vars, NEW e \in Escalations,
           row[e].status \in {"sent", "cancelled", "dead"}
    PROVE  row'[e] = row[e] /\ audit'[e] = audit[e]
<1> USE DEF IInv
<1>1. CASE \E i \in Incidents, severity \in AlertSeverities : OpenIncident(i, severity)
  BY <1>1 DEF OpenIncident, RowInv
<1>2. CASE \E i \in Incidents, severity \in AlertSeverities : RaiseSeverity(i, severity)
  BY <1>2 DEF RaiseSeverity
<1>3. CASE \E i \in Incidents, to \in IncidentStatuses : TransitionIncident(i, to)
  BY <1>3 DEF TransitionIncident, CancelledStatuses
<1>4. CASE \E f \in Escalations : DueArrives(f) \/ LeaseExpires(f)
  BY <1>4 DEF DueArrives, LeaseExpires, TypeOK
<1>5. CASE \E w \in Workers : ClaimEscalations(w)
  BY <1>5 DEF ClaimEscalations, ClaimRows, Claimable, Exhausted
<1>6. CASE \E w \in Workers, f \in Escalations : WorkerStep(w, f)
  <2> SUFFICES ASSUME NEW w \in Workers, NEW f \in Escalations, WorkerStep(w, f)
               PROVE  row'[e] = row[e] /\ audit'[e] = audit[e]
    BY <1>6
  <2>1. CASE Process(w, f) \/ NotifyOk(w, f) \/ NotifyErr(w, f) \/ StoreError(w, f)
    BY <2>1 DEF Process, NotifyOk, NotifyErr, StoreError
  <2>2. CASE CompleteEscalation(w, f)
    BY <2>2 DEF CompleteEscalation, Fenced, TypeOK
  <2>3. CASE FailEscalation(w, f)
    BY <2>3 DEF FailEscalation, Fenced, TypeOK
  <2> QED
    BY <2>1, <2>2, <2>3 DEF WorkerStep
<1>7. CASE \E r \in requests : TargetReceives(r)
  BY <1>7 DEF TargetReceives
<1>8. CASE \E w \in Workers : Crash(w)
  BY <1>8 DEF Crash
<1>9. CASE UNCHANGED vars
  BY <1>9 DEF vars
<1> QED
  BY <1>1, <1>2, <1>3, <1>4, <1>5, <1>6, <1>7, <1>8, <1>9 DEF Next

\* What a late worker reports never reopens a finished row.
THEOREM Finality == Spec => FinishedIsFinal
<1>1. IInv /\ [Next]_vars =>
         [\A e \in Escalations :
             row[e].status \in {"sent", "cancelled", "dead"} =>
                 row'[e] = row[e] /\ audit'[e] = audit[e]]_vars
  BY FinishedStep
<1> QED
  BY <1>1, Invariance, PTL DEF Spec, FinishedIsFinal

-----------------------------------------------------------------------------
(***************************************************************************)
(* The scheduler implements EscalationContract.                            *)
(***************************************************************************)
\* A step that keeps statuses up to liveness, attempts and deliveries is a
\* stuttering step of the contract.
LEMMA ContractStutter ==
    ASSUME UNCHANGED deliveries,
           \A f \in Escalations :
              /\ OutcomeOf(row'[f].status) = OutcomeOf(row[f].status)
              /\ row'[f].attempts = row[f].attempts
    PROVE  UNCHANGED Contract!contractVars
BY DEF Contract!contractVars

\* An empty store is an initial state of the contract.
LEMMA ContractInit == Init => Contract!Init
<1> SUFFICES ASSUME Init PROVE Contract!Init
  OBVIOUS
<1>1. \A e \in Escalations :
         OutcomeOf(row[e].status) = "unscheduled" /\ row[e].attempts = 0 /\ deliveries[e] = "none"
  <2>1. \A e \in Escalations : row[e] = AbsentRow /\ deliveries[e] = "none"
    BY DEF Init
  <2>2. AbsentRow.status = "absent" /\ AbsentRow.attempts = 0
    BY DEF AbsentRow
  <2>3. OutcomeOf("absent") = "unscheduled"
    BY DEF OutcomeOf, LiveStatuses
  <2> QED
    BY <2>1, <2>2, <2>3
<1> QED
  BY <1>1 DEF Contract!Init, Contract!Targets, Escalations

\* The create branch of CorrelateAlert schedules the incident's steps.
LEMMA ContractOpen ==
    ASSUME IInv, NEW i \in Incidents, NEW severity \in AlertSeverities, OpenIncident(i, severity)
    PROVE  Contract!Schedule(i)
<1> USE DEF IInv
<1>1. \A f \in Escalations :
         /\ row'[f].status = IF f[1] = i THEN "pending" ELSE row[f].status
         /\ row'[f].attempts = row[f].attempts
         /\ f[1] = i => row[f].status = "absent"
  <2>1. PICK due \in [Steps -> BOOLEAN] :
           row' = [f \in Escalations |->
                     IF f[1] = i
                     THEN [AbsentRow EXCEPT !.status = "pending",
                                            !.due = due[f[2]],
                                            !.severity = severity]
                     ELSE row[f]]
    BY DEF OpenIncident
  <2>2. \A f \in Escalations : f[1] = i => row[f] = AbsentRow
    BY DEF OpenIncident, RowInv
  <2>3. ASSUME NEW f \in Escalations, f[1] = i
        PROVE  row'[f].status = "pending" /\ row'[f].attempts = 0
    BY <2>1, <2>3 DEF AbsentRow
  <2>4. AbsentRow.status = "absent" /\ AbsentRow.attempts = 0
    BY DEF AbsentRow
  <2>5. \A f \in Escalations : f[1] # i => row'[f] = row[f]
    BY <2>1
  <2> QED
    BY <2>2, <2>3, <2>4, <2>5
<1>2. \A s \in Steps : <<i, s>> \in Escalations /\ <<i, s>>[1] = i
  BY DEF Escalations
<1>3. UNCHANGED deliveries
  BY DEF OpenIncident
<1> QED
  BY <1>1, <1>2, <1>3 DEF Contract!Schedule, Contract!Targets, Escalations, OutcomeOf, LiveStatuses

\* TransitionIncident cancels what is unsettled of the incident.
LEMMA ContractTransition ==
    ASSUME IInv, NEW i \in Incidents, NEW to \in IncidentStatuses, TransitionIncident(i, to)
    PROVE  Contract!Cancel(i)
<1> USE DEF IInv
<1>1. \A f \in Escalations :
         /\ OutcomeOf(row'[f].status) = IF f[1] = i /\ OutcomeOf(row[f].status) = "open"
                                        THEN "cancelled" ELSE OutcomeOf(row[f].status)
         /\ row'[f].attempts = row[f].attempts
  <2> SUFFICES ASSUME NEW f \in Escalations
               PROVE  /\ OutcomeOf(row'[f].status) =
                            IF f[1] = i /\ OutcomeOf(row[f].status) = "open"
                            THEN "cancelled" ELSE OutcomeOf(row[f].status)
                      /\ row'[f].attempts = row[f].attempts
    OBVIOUS
  <2>1. row[f] \in Rows /\ row[f].status \in RowStatuses
    BY DEF TypeOK, Rows
  <2>2. OutcomeOf(row[f].status) = "open" <=> row[f].status \in CancelledStatuses
    BY <2>1 DEF OutcomeOf, LiveStatuses, CancelledStatuses, RowStatuses
  <2>3. row'[f] = IF f[1] = i /\ row[f].status \in CancelledStatuses
                  THEN CancelRow(row[f]) ELSE row[f]
    BY DEF TransitionIncident
  <2> QED
    BY <2>1, <2>2, <2>3, CancelRowFields DEF OutcomeOf, LiveStatuses
<1>2. UNCHANGED deliveries
  BY DEF TransitionIncident
<1> QED
  BY <1>1, <1>2 DEF Contract!Cancel, Contract!Targets, Escalations

\* ClaimEscalations is one sweep: rows given up and rows tried.
LEMMA ContractClaim ==
    ASSUME IInv, NEW w \in Workers, NEW buried \in SUBSET Escalations,
           NEW claimed \in SUBSET Escalations, ClaimRows(w, buried, claimed)
    PROVE  Contract!Sweep(buried, claimed)
<1> USE DEF IInv
<1>1. \A f \in Escalations : row[f] \in Rows /\ row[f].attempts \in Nat /\ row[f].attempts <= Budget(f)
                             /\ Budget(f) \in Nat
  BY EscalationParts DEF TypeOK, Rows
<1>2. \A f \in buried : row[f].status = "running" /\ row[f].attempts = Budget(f) /\ f \notin claimed
  <2> SUFFICES ASSUME NEW f \in buried
               PROVE  row[f].status = "running" /\ row[f].attempts = Budget(f) /\ f \notin claimed
    OBVIOUS
  <2>1. row[f].status = "running" /\ row[f].attempts >= Budget(f)
    BY DEF ClaimRows, Exhausted
  <2>2. f \in claimed => row[f].attempts < Budget(f)
    BY DEF ClaimRows, Claimable
  <2> QED
    BY <1>1, <2>1, <2>2
<1>3. \A f \in claimed : row[f].status \in LiveStatuses /\ row[f].attempts < Budget(f)
  BY DEF ClaimRows, Claimable, LiveStatuses
<1>4. \A f \in Escalations : row'[f] = IF f \in buried THEN BuryRow(row[f])
                                       ELSE IF f \in claimed THEN LeaseRow(row[f]) ELSE row[f]
  BY DEF ClaimRows
<1>5. \A f \in Escalations :
         /\ OutcomeOf(row'[f].status) = IF f \in buried THEN "dead" ELSE OutcomeOf(row[f].status)
         /\ row'[f].attempts = IF f \in claimed THEN row[f].attempts + 1 ELSE row[f].attempts
  BY <1>1, <1>2, <1>3, <1>4, BuryRowFields, LeaseRowFields DEF OutcomeOf, LiveStatuses
<1>6. UNCHANGED deliveries
  BY DEF ClaimRows
<1>7. \A f \in buried \cup claimed : OutcomeOf(row[f].status) = "open"
  BY <1>2, <1>3 DEF OutcomeOf, LiveStatuses
<1> QED
  BY <1>2, <1>3, <1>5, <1>6, <1>7 DEF Contract!Sweep, Contract!Targets, Escalations, Budget

\* A request that arrives reaches an escalation that was tried.
LEMMA ContractReach ==
    ASSUME IInv, NEW r \in requests, TargetReceives(r)
    PROVE  Contract!Reach(r.key)
<1> USE DEF IInv
<1>1. r.key \in Escalations /\ r.severity \in Severities /\ r.severity # "none"
  BY DEF TypeOK, Requests, Severities
<1>2. row[r.key].attempts > 0
  BY <1>1 DEF RequestInv, RowInv
<1>3. \A f \in Escalations :
         deliveries'[f] = IF f = r.key THEN Recorded(deliveries[f], r.severity) ELSE deliveries[f]
  BY <1>1 DEF TargetReceives, TypeOK
<1>4. {f \in Escalations : deliveries'[f] # "none"} =
         {f \in Escalations : deliveries[f] # "none"} \cup {r.key}
  BY <1>1, <1>3 DEF Recorded
<1>5. UNCHANGED row
  BY DEF TargetReceives
<1> QED
  BY <1>1, <1>2, <1>4, <1>5 DEF Contract!Reach

\* CompleteEscalation settles an escalation whose target was reached.
LEMMA ContractComplete ==
    ASSUME IInv, NEW w \in Workers, NEW e \in Escalations,
           Fenced(e, job[w][e].token), CompleteEscalation(w, e)
    PROVE  Contract!Send(e)
<1> USE DEF IInv
<1>1. row[e].status = "running" /\ deliveries[e] # "none"
  BY DEF CompleteEscalation, Fenced, JobInv, RequestInv, Notification
<1>2. \A f \in Escalations :
         /\ row'[f].status = IF f = e THEN "sent" ELSE row[f].status
         /\ row'[f].attempts = row[f].attempts
  BY DEF CompleteEscalation, TypeOK, Rows
<1>3. UNCHANGED deliveries
  BY DEF CompleteEscalation
<1> QED
  BY <1>1, <1>2, <1>3 DEF Contract!Send, OutcomeOf, LiveStatuses

\* The scheduler with its leases, tokens, crashes and late requests implements
\* the contract, for every number of workers, incidents, steps and attempts.
THEOREM Refinement == Spec => KeepsContract
<1>1. Init => Contract!Init
  BY ContractInit
<1>2. IInv /\ [Next]_vars => [Contract!Next]_Contract!contractVars
  <2> SUFFICES ASSUME IInv, [Next]_vars
               PROVE  Contract!Next \/ UNCHANGED Contract!contractVars
    OBVIOUS
  <2> USE DEF IInv
  <2>1. CASE \E i \in Incidents, severity \in AlertSeverities : OpenIncident(i, severity)
    BY <2>1, ContractOpen DEF Contract!Next
  <2>2. CASE \E i \in Incidents, to \in IncidentStatuses : TransitionIncident(i, to)
    BY <2>2, ContractTransition DEF Contract!Next
  <2>3. CASE \E w \in Workers : ClaimEscalations(w)
    <3>1. PICK buried \in SUBSET Escalations, claimed \in SUBSET Escalations : Contract!Sweep(buried, claimed)
      BY <2>3, ContractClaim DEF ClaimEscalations
    <3> QED
      BY <3>1 DEF Contract!Next, Contract!Targets, Escalations
  <2>4. CASE \E r \in requests : TargetReceives(r)
    <3>1. PICK r \in requests : Contract!Reach(r.key)
      BY <2>4, ContractReach
    <3>2. r.key \in Incidents \X Steps
      BY DEF TypeOK, Requests, Escalations
    <3> QED
      BY <3>1, <3>2 DEF Contract!Next, Contract!Targets
  <2>5. CASE \E e \in Escalations : DueArrives(e) \/ LeaseExpires(e)
    <3>1. UNCHANGED deliveries /\ \A f \in Escalations : row'[f].status = row[f].status
                                                       /\ row'[f].attempts = row[f].attempts
      <4>1. PICK e \in Escalations : DueArrives(e) \/ LeaseExpires(e)
        BY <2>5
      <4>2. CASE DueArrives(e)
        BY <4>2 DEF DueArrives, TypeOK, Rows
      <4>3. CASE LeaseExpires(e)
        BY <4>3 DEF LeaseExpires, TypeOK, Rows
      <4> QED
        BY <4>1, <4>2, <4>3
    <3> QED
      BY <3>1, ContractStutter
  <2>6. CASE UNCHANGED <<row, deliveries>>
    BY <2>6, ContractStutter
  <2>7. CASE \E w \in Workers, e \in Escalations : CompleteEscalation(w, e)
    <3> SUFFICES ASSUME NEW w \in Workers, NEW e \in Escalations, CompleteEscalation(w, e)
                 PROVE  Contract!Next \/ UNCHANGED Contract!contractVars
      BY <2>7
    <3>1. CASE Fenced(e, job[w][e].token)
      BY <3>1, ContractComplete DEF Contract!Next, Contract!Targets, Escalations
    <3>2. CASE ~Fenced(e, job[w][e].token)
      BY <2>6, <3>2 DEF CompleteEscalation
    <3> QED
      BY <3>1, <3>2
  <2>8. CASE \E w \in Workers, e \in Escalations : FailEscalation(w, e)
    <3> SUFFICES ASSUME NEW w \in Workers, NEW e \in Escalations, FailEscalation(w, e)
                 PROVE  Contract!Next \/ UNCHANGED Contract!contractVars
      BY <2>8
    <3>1. CASE ~Fenced(e, job[w][e].token)
      BY <2>6, <3>1 DEF FailEscalation
    <3>2. CASE Fenced(e, job[w][e].token)
      <4>1. /\ row[e].status = "running"
            /\ row[e].attempts \in Nat /\ row[e].attempts <= Budget(e) /\ Budget(e) \in Nat
        BY <3>2, EscalationParts DEF Fenced, TypeOK, Rows
      <4>2. \A f \in Escalations :
               /\ row'[f].attempts = row[f].attempts
               /\ row'[f].status = IF f = e
                                   THEN IF IsDead(row[e].attempts, Budget(e)) THEN "dead" ELSE "pending"
                                   ELSE row[f].status
        BY <3>2 DEF FailEscalation, TypeOK, Rows
      <4>3. UNCHANGED deliveries
        BY DEF FailEscalation
      <4>4. CASE IsDead(row[e].attempts, Budget(e))
        <5>1. row[e].attempts = Budget(e)
          BY <4>1, <4>4 DEF IsDead
        <5>2. Contract!Sweep({e}, {})
          BY <4>1, <4>2, <4>3, <4>4, <5>1 DEF Contract!Sweep, Contract!Targets, Escalations, Budget, OutcomeOf, LiveStatuses
        <5> QED
          BY <5>2 DEF Contract!Next, Contract!Targets, Escalations
      <4>5. CASE ~IsDead(row[e].attempts, Budget(e))
        BY <4>1, <4>2, <4>3, <4>5, ContractStutter DEF OutcomeOf, LiveStatuses
      <4> QED
        BY <4>4, <4>5
    <3> QED
      BY <3>1, <3>2
  <2> QED
    BY <2>1, <2>2, <2>3, <2>4, <2>5, <2>6, <2>7, <2>8
       DEF Next, vars, WorkerStep, RaiseSeverity, Process, NotifyOk, NotifyErr, StoreError, Crash
<1> QED
  BY <1>1, <1>2, Invariance, PTL DEF Spec, KeepsContract, Contract!Spec
=============================================================================
