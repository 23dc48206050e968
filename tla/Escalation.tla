----------------------------- MODULE Escalation -----------------------------
(***************************************************************************)
(* The escalation scheduler: the rows of incident_escalations, the worker  *)
(* replicas that claim them under a lease and a fencing token, the         *)
(* notification target, and the operators who acknowledge or resolve the   *)
(* incident meanwhile.                                                     *)
(*                                                                         *)
(* Every SQL transaction of the store is one action: ClaimEscalations      *)
(* takes its row locks with SKIP LOCKED and the other transactions         *)
(* re-evaluate their WHERE clause after waiting for a row lock, so the     *)
(* outcomes are those of some serial order.  What is NOT atomic is a       *)
(* worker's work on a claimed row: claim, send, wait for the answer and    *)
(* record the result are separate steps, and the worker may stop between   *)
(* any two.                                                                *)
(*                                                                         *)
(* Time is abstracted to two facts per row: whether due_at has passed and  *)
(* whether lease_until has passed.  A lease may expire while its holder is *)
(* still at work, and a request may reach the target long after the worker *)
(* that sent it stopped waiting.                                           *)
(***************************************************************************)
EXTENDS Domain, FiniteSets

CONSTANTS
    Incidents,        \* incidents that may be opened
    Steps,            \* step numbers of the tenant's default policy
    Workers,          \* worker replicas running a Scheduler
    MaxAttempts,      \* max_attempts of each policy step
    BatchSize,        \* Scheduler.batchSize, the LIMIT of a claim
    AlertSeverities   \* severities that alerts carry

ASSUME EscalationConstants ==
    /\ MaxAttempts \in [Steps -> Nat \ {0}]
    /\ BatchSize \in Nat \ {0}
    /\ AlertSeverities \subseteq Severities

VARIABLES
    incident,    \* the columns status and severity of incidents
    row,         \* the table incident_escalations
    job,         \* per worker, the batch runBatch is working on
    requests,    \* notifications put on the wire so far
    received,    \* those of them the target has got
    deliveries,  \* the target's notification_deliveries, one per idempotency key
    audit        \* number of scheduler entries of each kind in incident_timeline

vars == <<incident, row, job, requests, received, deliveries, audit>>

\* An escalation, and also its idempotency key "<incident>:<step>".
Escalations == Incidents \X Steps

Budget(e) == MaxAttempts[e[2]]

RowStatuses == {"absent", "pending", "running", "sent", "cancelled", "dead"}
LiveStatuses == {"pending", "running"}
Phases == {"idle", "claimed", "sending", "ok", "err"}

Rows == [status   : RowStatuses,
         attempts : Nat,
         token    : Nat,
         due      : BOOLEAN,
         lease    : {"none", "live", "expired"},
         severity : Severities \cup {"none"}]

Jobs == [phase          : Phases,
         token          : Nat,
         incidentStatus : IncidentStatuses \cup {"none"},
         severity       : Severities \cup {"none"}]

Requests == [key : Escalations, token : Nat, severity : Severities]

AbsentRow == [status |-> "absent", attempts |-> 0, token |-> 0,
              due |-> FALSE, lease |-> "none", severity |-> "none"]

NoJob == [phase |-> "idle", token |-> 0,
          incidentStatus |-> "none", severity |-> "none"]

NoEntries == [sent |-> 0, dead |-> 0, retry |-> 0]

Init ==
    /\ incident = [i \in Incidents |-> [status |-> "absent", severity |-> "none"]]
    /\ row = [e \in Escalations |-> AbsentRow]
    /\ job = [w \in Workers |-> [e \in Escalations |-> NoJob]]
    /\ requests = {}
    /\ received = {}
    /\ deliveries = [e \in Escalations |-> "none"]
    /\ audit = [e \in Escalations |-> NoEntries]

-----------------------------------------------------------------------------
(***************************************************************************)
(* The incident's side: CorrelateAlert and TransitionIncident.             *)
(***************************************************************************)

\* The create branch of CorrelateAlert: the incident and one pending row for
\* each step of the default policy, with the alert's severity, in one
\* transaction.  A step with delay_seconds = 0 is due at once.
OpenIncident(i, severity) ==
    /\ incident[i].status = "absent"
    /\ incident' = [incident EXCEPT ![i] = [status |-> "open", severity |-> severity]]
    /\ \E due \in [Steps -> BOOLEAN] :
          row' = [e \in Escalations |->
                    IF e[1] = i
                    THEN [AbsentRow EXCEPT !.status = "pending",
                                           !.due = due[e[2]],
                                           !.severity = severity]
                    ELSE row[e]]
    /\ UNCHANGED <<job, requests, received, deliveries, audit>>

\* The update branch of CorrelateAlert, as far as escalations could notice.
RaiseSeverity(i, severity) ==
    /\ incident[i].status \in {"open", "acknowledged"}
    /\ incident' = [incident EXCEPT ![i].severity = MaxSeverity(@, severity)]
    /\ UNCHANGED <<row, job, requests, received, deliveries, audit>>

\* Faulty variant of CancelledStatuses: a running row survives the transition.
PendingOnly == {"pending"}

\* The statuses the transition's UPDATE of incident_escalations cancels.
CancelledStatuses == {"pending", "running"}

CancelRow(r) == [r EXCEPT !.status = "cancelled", !.lease = "none"]

\* TransitionIncident, the commits that change state.
TransitionIncident(i, to) ==
    /\ incident[i].status # "absent"
    /\ CanTransition(incident[i].status, to)
    /\ incident' = [incident EXCEPT ![i].status = to]
    /\ row' = [e \in Escalations |->
                 IF e[1] = i /\ row[e].status \in CancelledStatuses
                 THEN CancelRow(row[e])
                 ELSE row[e]]
    /\ UNCHANGED <<job, requests, received, deliveries, audit>>

-----------------------------------------------------------------------------
(***************************************************************************)
(* The passage of time, as the claim's WHERE clauses see it.               *)
(***************************************************************************)

\* due_at <= now() becomes true.
DueArrives(e) ==
    /\ row[e].status = "pending" /\ ~row[e].due
    /\ row' = [row EXCEPT ![e].due = TRUE]
    /\ UNCHANGED <<incident, job, requests, received, deliveries, audit>>

\* lease_until < now() becomes true.
LeaseExpires(e) ==
    /\ row[e].status = "running" /\ row[e].lease = "live"
    /\ row' = [row EXCEPT ![e].lease = "expired"]
    /\ UNCHANGED <<incident, job, requests, received, deliveries, audit>>

-----------------------------------------------------------------------------
(***************************************************************************)
(* ClaimEscalations: one statement gives up on rows whose lease ran out    *)
(* during their last attempt and leases those that are due.                *)
(***************************************************************************)

Idle(w) == \A e \in Escalations : job[w][e].phase = "idle"

\* Faulty variant of Exhausted: the claim has no branch for expired leases of
\* a last attempt.
NeverExhausted(e) == FALSE

\* expired_candidates.
Exhausted(e) ==
    /\ incident[e[1]].status = "open"
    /\ row[e].status = "running"
    /\ row[e].lease = "expired"
    /\ row[e].attempts >= Budget(e)

\* candidates.
Claimable(e) ==
    /\ incident[e[1]].status = "open"
    /\ row[e].attempts < Budget(e)
    /\ \/ row[e].status = "pending" /\ row[e].due
       \/ row[e].status = "running" /\ row[e].lease = "expired"

\* Faulty variant of LeaseRow: the next holder of a row whose lease ran out
\* carries on with its predecessor's attempt and token.
LeaseRowCarriedOn(r) ==
    IF r.status = "running"
    THEN [r EXCEPT !.lease = "live"]
    ELSE [r EXCEPT !.status = "running", !.lease = "live",
                   !.token = @ + 1, !.attempts = @ + 1]

\* The SET clause of "claimed".
LeaseRow(r) ==
    [r EXCEPT !.status = "running", !.lease = "live",
              !.token = @ + 1, !.attempts = @ + 1]

BuryRow(r) == [r EXCEPT !.status = "dead", !.lease = "none"]

\* Faulty variant of ClaimedJob: the payload is read from the incident, which
\* later alerts change, and not from the row's snapshot.
ClaimedJobFromIncident(e) ==
    [phase          |-> "claimed",
     token          |-> LeaseRow(row[e]).token,
     incidentStatus |-> incident[e[1]].status,
     severity       |-> incident[e[1]].severity]

\* The columns the statement returns to the worker.
ClaimedJob(e) ==
    [phase          |-> "claimed",
     token          |-> LeaseRow(row[e]).token,
     incidentStatus |-> incident[e[1]].status,
     severity       |-> row[e].severity]

\* Faulty variant of BuriedEntry: exhausted_timeline is left out.
NoBuriedEntry(n) == n

\* exhausted_timeline.
BuriedEntry(n) == [n EXCEPT !.dead = @ + 1]

\* Which rows are taken depends on the row locks other transactions hold
\* (SKIP LOCKED), so any selection within the LIMITs is possible.  Nothing
\* claimed is a stuttering step.
ClaimRows(w, buried, claimed) ==
    /\ Idle(w)
    /\ Cardinality(buried) <= BatchSize
    /\ Cardinality(claimed) <= BatchSize
    /\ \A e \in buried : Exhausted(e)
    /\ \A e \in claimed : Claimable(e)
    /\ row' = [e \in Escalations |->
                 IF e \in buried THEN BuryRow(row[e])
                 ELSE IF e \in claimed THEN LeaseRow(row[e])
                 ELSE row[e]]
    /\ job' = [job EXCEPT ![w] = [e \in Escalations |->
                 IF e \in claimed THEN ClaimedJob(e) ELSE NoJob]]
    /\ audit' = [e \in Escalations |->
                   IF e \in buried THEN BuriedEntry(audit[e]) ELSE audit[e]]
    /\ UNCHANGED <<incident, requests, received, deliveries>>

ClaimEscalations(w) ==
    \E buried, claimed \in SUBSET Escalations :
        /\ buried \cup claimed # {}
        /\ ClaimRows(w, buried, claimed)

-----------------------------------------------------------------------------
(***************************************************************************)
(* process: one goroutine per claimed row.                                 *)
(***************************************************************************)

\* The idempotency key is the escalation itself: every attempt has the same.
Notification(w, e) ==
    [key |-> e, token |-> job[w][e].token, severity |-> job[w][e].severity]

\* Up to the call of Notify.
Process(w, e) ==
    /\ job[w][e].phase = "claimed"
    /\ IF job[w][e].incidentStatus # "open"
       THEN /\ job' = [job EXCEPT ![w][e] = NoJob]
            /\ UNCHANGED requests
       ELSE /\ job' = [job EXCEPT ![w][e].phase = "sending"]
            /\ requests' = requests \cup {Notification(w, e)}
    /\ UNCHANGED <<incident, row, received, deliveries, audit>>

\* RecordNotification keeps the first request with a key.
Recorded(old, severity) == IF old = "none" THEN severity ELSE old

\* A request reaches the target, at any time after it was sent, even when its
\* sender timed out or died.
TargetReceives(r) ==
    /\ r \in requests \ received
    /\ received' = received \cup {r}
    /\ deliveries' = [deliveries EXCEPT ![r.key] = Recorded(@, r.severity)]
    /\ UNCHANGED <<incident, row, job, requests, audit>>

\* Notify returns nil: the target answered with a 2xx status.
NotifyOk(w, e) ==
    /\ job[w][e].phase = "sending"
    /\ Notification(w, e) \in received
    /\ job' = [job EXCEPT ![w][e].phase = "ok"]
    /\ UNCHANGED <<incident, row, requests, received, deliveries, audit>>

\* Notify returns an error: refused, timed out, or another status.  Whether
\* the target got the request is not known.
NotifyErr(w, e) ==
    /\ job[w][e].phase = "sending"
    /\ job' = [job EXCEPT ![w][e].phase = "err"]
    /\ UNCHANGED <<incident, row, requests, received, deliveries, audit>>

\* Faulty variants of Fenced: each drops one of the two conditions.
FencedByStatusOnly(e, token) == row[e].status = "running"
FencedByTokenOnly(e, token) == row[e].token = token

\* WHERE status='running' AND fencing_token=$n.
Fenced(e, token) == row[e].status = "running" /\ row[e].token = token

\* A result the fence turns away is ErrConflict: it is logged and dropped.
CompleteEscalation(w, e) ==
    /\ job[w][e].phase = "ok"
    /\ job' = [job EXCEPT ![w][e] = NoJob]
    /\ IF Fenced(e, job[w][e].token)
       THEN /\ row' = [row EXCEPT ![e].status = "sent", ![e].lease = "none"]
            /\ audit' = [audit EXCEPT ![e].sent = @ + 1]
       ELSE UNCHANGED <<row, audit>>
    /\ UNCHANGED <<incident, requests, received, deliveries>>

\* dead := attempts >= maxAttempts.
IsDead(attempts, max) == attempts >= max

\* due_at moves to now + retryDelay, so the row is not due, dead or not.
FailEscalation(w, e) ==
    /\ job[w][e].phase = "err"
    /\ job' = [job EXCEPT ![w][e] = NoJob]
    /\ IF Fenced(e, job[w][e].token)
       THEN LET dead == IsDead(row[e].attempts, Budget(e))
            IN  /\ row' = [row EXCEPT ![e].status = IF dead THEN "dead" ELSE "pending",
                                      ![e].due = FALSE,
                                      ![e].lease = "none"]
                /\ audit' = IF dead THEN [audit EXCEPT ![e].dead = @ + 1]
                                    ELSE [audit EXCEPT ![e].retry = @ + 1]
       ELSE UNCHANGED <<row, audit>>
    /\ UNCHANGED <<incident, requests, received, deliveries>>

\* The transaction that should record the result is rolled back (the database
\* is unreachable, or picks it as the victim of a deadlock with
\* TransitionIncident): process logs the error and returns.
StoreError(w, e) ==
    /\ job[w][e].phase \in {"ok", "err"}
    /\ job' = [job EXCEPT ![w][e] = NoJob]
    /\ UNCHANGED <<incident, row, requests, received, deliveries, audit>>

\* The worker process stops and a new one takes its place.  Also a claim whose
\* answer is lost on the way to the worker.
Crash(w) ==
    /\ ~Idle(w)
    /\ job' = [job EXCEPT ![w] = [e \in Escalations |-> NoJob]]
    /\ UNCHANGED <<incident, row, requests, received, deliveries, audit>>

-----------------------------------------------------------------------------
WorkerStep(w, e) ==
    \/ Process(w, e)
    \/ NotifyOk(w, e)
    \/ NotifyErr(w, e)
    \/ CompleteEscalation(w, e)
    \/ FailEscalation(w, e)
    \/ StoreError(w, e)

Next ==
    \/ \E i \in Incidents, severity \in AlertSeverities : OpenIncident(i, severity)
    \/ \E i \in Incidents, severity \in AlertSeverities : RaiseSeverity(i, severity)
    \/ \E i \in Incidents, to \in IncidentStatuses : TransitionIncident(i, to)
    \/ \E e \in Escalations : DueArrives(e)
    \/ \E e \in Escalations : LeaseExpires(e)
    \/ \E w \in Workers : ClaimEscalations(w)
    \/ \E w \in Workers, e \in Escalations : WorkerStep(w, e)
    \/ \E r \in requests : TargetReceives(r)
    \/ \E w \in Workers : Crash(w)

Spec == Init /\ [][Next]_vars

(***************************************************************************)
(* What the code and its surroundings guarantee: clocks advance, every     *)
(* claimed row's goroutine runs to its end (Notify has a timeout), and     *)
(* Scheduler.Run polls for ever; each claim orders the rows by due time,   *)
(* so a row that stays claimable is eventually within the LIMIT of a claim *)
(* of some idle worker.  Nothing is assumed about the target: no request   *)
(* need ever arrive, and workers may crash at any time.                    *)
(***************************************************************************)
ClaimTakes(w, e) ==
    \E buried, claimed \in SUBSET Escalations :
        /\ e \in buried \cup claimed
        /\ ClaimRows(w, buried, claimed)

Fairness ==
    /\ \A e \in Escalations :
          /\ WF_vars(DueArrives(e))
          /\ WF_vars(LeaseExpires(e))
          /\ WF_vars(\E w \in Workers : ClaimTakes(w, e))
          /\ \A w \in Workers : WF_vars(WorkerStep(w, e))

FairSpec == Spec /\ Fairness

-----------------------------------------------------------------------------
(***************************************************************************)
(* Properties.                                                             *)
(***************************************************************************)

\* Every variable has its type, and no row uses more attempts than its policy
\* step allows (attempts < max_attempts in ClaimEscalations), however many
\* leases expire and however many workers compete.
TypeOK ==
    /\ incident \in [Incidents -> [status   : IncidentStatuses \cup {"absent"},
                                   severity : Severities \cup {"none"}]]
    /\ row \in [Escalations -> Rows]
    /\ job \in [Workers -> [Escalations -> Jobs]]
    /\ requests \subseteq Requests
    /\ received \subseteq requests
    /\ deliveries \in [Escalations -> Severities \cup {"none"}]
    /\ audit \in [Escalations -> [sent : Nat, dead : Nat, retry : Nat]]
    /\ \A e \in Escalations : row[e].attempts <= Budget(e)

\* Once TransitionIncident has committed, no row of the incident's escalations is
\* pending or running, not even one that a worker is in the middle of: a request
\* that is on its way may still arrive, but nothing claims the row again.
ClosedIncidentIsQuiet ==
    \A e \in Escalations :
        incident[e[1]].status # "open" => row[e].status \notin LiveStatuses

\* The fencing token tells the holders of a row apart: two workers that both
\* still believe they hold a row, after a lease expired under the first, never
\* have the same token.
TokenIsExclusive ==
    \A v, w \in Workers, e \in Escalations :
        /\ v # w
        /\ job[v][e].phase # "idle"
        /\ job[w][e].phase # "idle"
        => job[v][e].token # job[w][e].token

\* A row waiting for its next attempt is in no worker's hands: the late result
\* of an earlier holder cannot put the row back while the current holder's
\* request is on the wire (the fence of FailEscalation).
PendingRowHasNoHolder ==
    \A e \in Escalations, w \in Workers :
        /\ row[e].status = "pending"
        /\ job[w][e].phase # "idle"
        => job[w][e].token # row[e].token

\* A row is marked sent only by the attempt that holds it, and only when the
\* target got the request of that very attempt (the fence of
\* CompleteEscalation).
SentByItsHolder ==
    \A e \in Escalations :
        row[e].status = "sent" =>
            \E r \in received : r.key = e /\ r.token = row[e].token

\* The target sees one notification per escalation, whatever is retried,
\* duplicated or late, and whatever alerts change the incident meanwhile: all
\* requests under an idempotency key agree, and agree with what was recorded.
OnePayloadPerKey ==
    \A r \in requests :
        /\ r.severity = row[r.key].severity
        /\ deliveries[r.key] \in {"none", r.severity}

\* No live row is out of reach of every future claim: a pending row has
\* attempts left, and a running row has a lease that can expire.
NoRowStranded ==
    \A e \in Escalations :
        /\ row[e].status = "pending" => row[e].attempts < Budget(e)
        /\ row[e].status = "running" => row[e].lease # "none"

\* Leases and tokens do what the claim's SQL relies on: holders are told apart,
\* a released row is free, and no row is out of reach.
LeasesAreSound == TokenIsExclusive /\ PendingRowHasNoHolder /\ NoRowStranded

\* The timeline tells the outcome of a row exactly once: "escalation_sent" and
\* "escalation_dead" are there if and only if the row ended that way, also when
\* the claim of another worker gave it up.
OutcomeRecordedOnce ==
    \A e \in Escalations :
        /\ audit[e].sent = IF row[e].status = "sent" THEN 1 ELSE 0
        /\ audit[e].dead = IF row[e].status = "dead" THEN 1 ELSE 0

\* A finished row never changes again, and the scheduler writes nothing more
\* about it: a worker that comes back from a slow request after the incident
\* was acknowledged neither revives the row nor adds to the timeline.
FinishedIsFinal ==
    [][\A e \in Escalations :
          row[e].status \in {"sent", "cancelled", "dead"} =>
              row'[e] = row[e] /\ audit'[e] = audit[e]]_vars

(***************************************************************************)
(* The refinement mapping to EscalationContract.                           *)
(***************************************************************************)
OutcomeOf(status) ==
    CASE status = "absent" -> "unscheduled"
      [] status \in LiveStatuses -> "open"
      [] OTHER -> status

Contract == INSTANCE EscalationContract WITH
    MaxTries <- MaxAttempts,
    outcome  <- [e \in Escalations |-> OutcomeOf(row[e].status)],
    tries    <- [e \in Escalations |-> row[e].attempts],
    reached  <- {e \in Escalations : deliveries[e] # "none"}

\* The scheduler with its leases, fencing tokens, crashes and late requests
\* keeps the contract: one outcome per escalation, sent only if the target got
\* the notification, dead only after max_attempts claims, cancelled only with
\* the rest of its incident.
KeepsContract == Contract!Spec

\* Every scheduled escalation is settled: sent, cancelled or dead, whatever
\* the target does and whenever workers crash.
EveryRowSettles ==
    \A e \in Escalations :
        row[e].status = "pending" ~> row[e].status \in {"sent", "cancelled", "dead"}
=============================================================================
