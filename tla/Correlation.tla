---------------------------- MODULE Correlation ----------------------------
(***************************************************************************)
(* CorrelateAlert and TransitionIncident: how alerts become incidents.     *)
(*                                                                         *)
(* The transaction of CorrelateAlert is split at the points where it can   *)
(* wait for another one: the insertion into inbox_messages (a unique key), *)
(* the advisory lock of its fingerprint, and the row lock of the incident  *)
(* it found.  It holds all three until it commits, and its changes are     *)
(* visible from then on.  Each statement reads what is committed when it   *)
(* starts (READ COMMITTED), and a row it had to wait for is read again     *)
(* after the wait, so the search sees the incidents as they are when it    *)
(* gets its row lock.  TransitionIncident holds one lock only, of the row  *)
(* it reads, changes and releases: it is one step, possible while no       *)
(* correlation holds that row.                                             *)
(*                                                                         *)
(* Received alerts are data of the model: any assignment of fingerprints,  *)
(* times and severities to the alerts is an initial state.  Alerts are     *)
(* correlated in any order, not only in that of their times, several at    *)
(* once, and again after a failure.  A fingerprint stands for the pair of  *)
(* a tenant and a fingerprint.                                             *)
(***************************************************************************)
EXTENDS Domain, Sequences, FiniteSets

CONSTANTS
    Alerts,           \* alerts with a published event; also their message ids
    Ids,              \* incident ids that uuid.New() may return
    Workers,          \* correlator replicas
    Operators,        \* users of the API
    Fingerprints,
    Times,            \* values of received_at
    AlertSeverities,  \* severities that alerts carry
    Window,           \* the correlation window
    None              \* NULL, or nothing

ASSUME CorrelationConstants ==
    /\ Times \subseteq Int
    /\ Window \in Nat
    /\ AlertSeverities \subseteq Severities
    /\ None \notin Alerts \cup Ids \cup Fingerprints

VARIABLES
    alert,       \* the table alerts
    inbox,       \* the table inbox_messages
    incident,    \* the table incidents
    timeline,    \* the entries of the correlator and the operators in incident_timeline
    escalation,  \* the rows of incident_escalations of each incident, as one
    tx,          \* per worker, its transaction of CorrelateAlert
    view         \* per operator, the incident as last read

vars == <<alert, inbox, incident, timeline, escalation, tx, view>>

AlertRows == [fingerprint : Fingerprints, receivedAt : Times, severity : AlertSeverities]

Incidents == [fingerprint : Fingerprints \cup {None},
              status      : IncidentStatuses \cup {"absent"},
              severity    : Severities \cup {"none"},
              count       : Nat,
              first       : Int,
              last        : Int,
              version     : Nat]

AlertKinds == {"incident_opened", "alert_correlated"}
StatusKinds == {"incident_acknowledged", "incident_resolved"}

\* number is the entry's occurrence_count or version.
Entries == [kind : AlertKinds \cup StatusKinds, alert : Alerts \cup {None}, number : Nat]

EscalationRows == [status   : {"absent", "pending", "cancelled"},
                   from     : Int,
                   severity : Severities \cup {"none"}]

Transactions == [phase : {"idle", "recorded", "locked", "found"},
                 alert : Alerts \cup {None},
                 id    : Ids \cup {None},
                 row   : Incidents]

Views == [id : Ids \cup {None}, row : Incidents]

AbsentIncident == [fingerprint |-> None, status |-> "absent", severity |-> "none",
                   count |-> 0, first |-> 0, last |-> 0, version |-> 0]

NoEscalation == [status |-> "absent", from |-> 0, severity |-> "none"]

NoTransaction == [phase |-> "idle", alert |-> None, id |-> None, row |-> AbsentIncident]

Init ==
    /\ alert \in [Alerts -> AlertRows]
    /\ inbox = {}
    /\ incident = [i \in Ids |-> AbsentIncident]
    /\ timeline = [i \in Ids |-> <<>>]
    /\ escalation = [i \in Ids |-> NoEscalation]
    /\ tx = [w \in Workers |-> NoTransaction]
    /\ view = [o \in Operators |-> [id |-> None, row |-> AbsentIncident]]

-----------------------------------------------------------------------------
(***************************************************************************)
(* CorrelateAlert.                                                         *)
(***************************************************************************)

\* Faulty variant of CanRecord: the committed rows are looked at, but no unique
\* key makes two insertions of a message wait for each other.
CanRecordUnseen(w, a) == a \notin inbox

\* ON CONFLICT DO NOTHING: an insertion waits for an uncommitted one of the same
\* key; after its commit it inserts nothing, and the transaction ends without
\* a change.
CanRecord(w, a) == a \notin inbox /\ \A v \in Workers : tx[v].alert # a

RecordInbox(w, a) ==
    /\ tx[w].phase = "idle"
    /\ CanRecord(w, a)
    /\ tx' = [tx EXCEPT ![w].phase = "recorded", ![w].alert = a]
    /\ UNCHANGED <<alert, inbox, incident, timeline, escalation, view>>

HoldsKey(v, f) ==
    tx[v].phase \in {"locked", "found"} /\ alert[tx[v].alert].fingerprint = f

\* Faulty variant of KeyFree: no advisory lock.
KeyIgnored(w) == TRUE

KeyFree(w) ==
    \A v \in Workers \ {w} : ~HoldsKey(v, alert[tx[w].alert].fingerprint)

\* pg_advisory_xact_lock.
LockFingerprint(w) ==
    /\ tx[w].phase = "recorded"
    /\ KeyFree(w)
    /\ tx' = [tx EXCEPT ![w].phase = "locked"]
    /\ UNCHANGED <<alert, inbox, incident, timeline, escalation, view>>

\* Faulty variant of Matches: no bound on first_seen_at.
MatchesLate(i, a) ==
    /\ incident[i].fingerprint = alert[a].fingerprint
    /\ incident[i].status \notin {"absent", "resolved"}
    /\ incident[i].last >= alert[a].receivedAt - Window

\* The WHERE clause of the search.
Matches(i, a) ==
    /\ incident[i].fingerprint = alert[a].fingerprint
    /\ incident[i].status \notin {"absent", "resolved"}
    /\ incident[i].last >= alert[a].receivedAt - Window
    /\ incident[i].first <= alert[a].receivedAt + Window

\* ORDER BY last_seen_at DESC LIMIT 1: any of the latest.
Latest(i, a) ==
    /\ Matches(i, a)
    /\ \A j \in Ids : Matches(j, a) => incident[j].last <= incident[i].last

\* Another correlation can hold the row only if it holds the same fingerprint.
FindIncident(w) ==
    /\ tx[w].phase = "locked"
    /\ \/ \E i \in Ids :
             /\ Latest(i, tx[w].alert)
             /\ tx' = [tx EXCEPT ![w].phase = "found", ![w].id = i, ![w].row = incident[i]]
       \/ /\ \A i \in Ids : ~Matches(i, tx[w].alert)
          /\ tx' = [tx EXCEPT ![w].phase = "found"]
    /\ UNCHANGED <<alert, inbox, incident, timeline, escalation, view>>

\* The row of a new incident.
Opened(r) ==
    [fingerprint |-> r.fingerprint, status |-> "open", severity |-> r.severity,
     count |-> 1, first |-> r.receivedAt, last |-> r.receivedAt, version |-> 1]

\* Faulty variant of Joined: the times of the latest alert overwrite last_seen_at.
JoinedOverwrites(current, read, r) ==
    [current EXCEPT !.severity = MaxSeverity(read.severity, r.severity),
                    !.count    = read.count + 1,
                    !.first    = IF r.receivedAt < read.first THEN r.receivedAt ELSE read.first,
                    !.last     = r.receivedAt,
                    !.version  = read.version + 1]

\* The UPDATE of an incident: computed from the row as the search read it, and
\* written to the columns it names.  The status is not one of them.
Joined(current, read, r) ==
    [current EXCEPT !.severity = MaxSeverity(read.severity, r.severity),
                    !.count    = read.count + 1,
                    !.first    = IF r.receivedAt < read.first THEN r.receivedAt ELSE read.first,
                    !.last     = IF r.receivedAt > read.last THEN r.receivedAt ELSE read.last,
                    !.version  = read.version + 1]

AppendEntry(i, kind, a, number) ==
    timeline' = [timeline EXCEPT ![i] =
                   Append(@, [kind |-> kind, alert |-> a, number |-> number])]

\* The transaction commits a new incident and its escalations ...
CommitOpened(w) ==
    /\ tx[w].phase = "found" /\ tx[w].id = None
    /\ \E i \in Ids :
          LET r == alert[tx[w].alert]
          IN  /\ incident[i].status = "absent"
              /\ incident' = [incident EXCEPT ![i] = Opened(r)]
              /\ escalation' = [escalation EXCEPT ![i] =
                    [status |-> "pending", from |-> r.receivedAt, severity |-> r.severity]]
              /\ AppendEntry(i, "incident_opened", tx[w].alert, 1)
    /\ inbox' = inbox \cup {tx[w].alert}
    /\ tx' = [tx EXCEPT ![w] = NoTransaction]
    /\ UNCHANGED <<alert, view>>

\* ... or one more occurrence of a known one.
CommitJoined(w) ==
    /\ tx[w].phase = "found" /\ tx[w].id # None
    /\ LET i == tx[w].id
           r == alert[tx[w].alert]
       IN  /\ incident' = [incident EXCEPT ![i] = Joined(@, tx[w].row, r)]
           /\ AppendEntry(i, "alert_correlated", tx[w].alert, tx[w].row.count + 1)
    /\ inbox' = inbox \cup {tx[w].alert}
    /\ tx' = [tx EXCEPT ![w] = NoTransaction]
    /\ UNCHANGED <<alert, escalation, view>>

\* An error at any point, or the end of the worker process: nothing remains of
\* the transaction, and the message will be delivered again.
Rollback(w) ==
    /\ tx[w].phase # "idle"
    /\ tx' = [tx EXCEPT ![w] = NoTransaction]
    /\ UNCHANGED <<alert, inbox, incident, timeline, escalation, view>>

-----------------------------------------------------------------------------
(***************************************************************************)
(* The operators.                                                          *)
(***************************************************************************)

GetIncident(o, i) ==
    /\ incident[i].status # "absent"
    /\ view' = [view EXCEPT ![o] = [id |-> i, row |-> incident[i]]]
    /\ UNCHANGED <<alert, inbox, incident, timeline, escalation, tx>>

\* Faulty variant of RowFree: the search does not say FOR UPDATE.
RowIgnored(i) == TRUE

\* No correlation holds the row lock of the incident.
RowFree(i) == \A w \in Workers : tx[w].id # i

\* The expected version of a request is absent, or the one the operator has seen.
Expects(o, i, checked) ==
    checked => view[o].id = i /\ view[o].row.version = incident[i].version

\* Faulty variant of MovedTo: the version is not counted up.
MovedUnnoticed(r, to) == [r EXCEPT !.status = to]

MovedTo(r, to) == [r EXCEPT !.status = to, !.version = @ + 1]

\* Only the commits that change state.
TransitionIncident(o, i, to, checked) ==
    /\ RowFree(i)
    /\ incident[i].status # "absent"
    /\ Expects(o, i, checked)
    /\ CanTransition(incident[i].status, to)
    /\ incident' = [incident EXCEPT ![i] = MovedTo(@, to)]
    /\ escalation' = [escalation EXCEPT ![i].status =
                        IF @ = "pending" THEN "cancelled" ELSE @]
    /\ AppendEntry(i, IF to = "acknowledged" THEN "incident_acknowledged"
                                             ELSE "incident_resolved",
                   None, incident'[i].version)
    /\ UNCHANGED <<alert, inbox, tx, view>>

-----------------------------------------------------------------------------
Next ==
    \/ \E w \in Workers, a \in Alerts : RecordInbox(w, a)
    \/ \E w \in Workers :
          \/ LockFingerprint(w)
          \/ FindIncident(w)
          \/ CommitOpened(w)
          \/ CommitJoined(w)
          \/ Rollback(w)
    \/ \E o \in Operators, i \in Ids :
          \/ GetIncident(o, i)
          \/ \E to \in IncidentStatuses, checked \in BOOLEAN :
                TransitionIncident(o, i, to, checked)

Spec == Init /\ [][Next]_vars

-----------------------------------------------------------------------------
(***************************************************************************)
(* Properties.                                                             *)
(***************************************************************************)

\* The alerts an incident's timeline names.
Members(i) == {timeline[i][k].alert : k \in 1 .. Len(timeline[i])} \ {None}

Distance(a, b) ==
    IF alert[a].receivedAt < alert[b].receivedAt
    THEN alert[b].receivedAt - alert[a].receivedAt
    ELSE alert[a].receivedAt - alert[b].receivedAt

\* Every variable has its type, and the rows of incidents satisfy the table's
\* CHECK (occurrence_count > 0).
TypeOK ==
    /\ alert \in [Alerts -> AlertRows]
    /\ inbox \subseteq Alerts
    /\ incident \in [Ids -> Incidents]
    /\ timeline \in [Ids -> Seq(Entries)]
    /\ escalation \in [Ids -> EscalationRows]
    /\ tx \in [Workers -> Transactions]
    /\ view \in [Operators -> Views]
    /\ \A i \in Ids : incident[i].status # "absent" => incident[i].count > 0

\* An alert whose message is in the inbox is in the timeline of one incident,
\* once; any other alert is in none.  A message handled by two workers at the
\* same time does not count twice (the unique key of inbox_messages).
AlertCountedOnce ==
    \A a \in Alerts :
        LET places == UNION {{i} \X {k \in 1 .. Len(timeline[i]) : timeline[i][k].alert = a} :
                             i \in Ids}
        IN  IF a \in inbox THEN Cardinality(places) = 1 ELSE places = {}

\* What an incident says of its alerts is true of them, whatever the order in
\* which they were correlated: how many they are, the first and the last time,
\* and the highest severity.
AggregatesAreExact ==
    \A i \in Ids : incident[i].status # "absent" =>
        /\ incident[i].count = Cardinality(Members(i))
        /\ \A a \in Members(i) :
              /\ alert[a].fingerprint = incident[i].fingerprint
              /\ alert[a].receivedAt \in incident[i].first .. incident[i].last
              /\ Rank(alert[a].severity) <= Rank(incident[i].severity)
        /\ \E a \in Members(i) : alert[a].receivedAt = incident[i].first
        /\ \E a \in Members(i) : alert[a].receivedAt = incident[i].last
        /\ \E a \in Members(i) : alert[a].severity = incident[i].severity

\* Every version of an incident has its timeline entry, in order, and every
\* entry the number it had then: no transition and no occurrence is overwritten
\* by a concurrent one (the row lock of both transactions).
HistoryIsComplete ==
    \A i \in Ids :
        /\ incident[i].version = Len(timeline[i])
        /\ \A k \in 1 .. Len(timeline[i]) :
              LET entry == timeline[i][k]
              IN  /\ entry.kind = "incident_opened" <=> k = 1
                  /\ entry.number =
                        IF entry.kind \in StatusKinds
                        THEN k
                        ELSE Cardinality({l \in 1 .. k : timeline[i][l].kind \in AlertKinds})

\* The alerts of an incident follow each other within the correlation window:
\* a late alert of an old time is not added to a much younger incident.
NoGapBeyondWindow ==
    \A i \in Ids : \A a \in Members(i) :
        alert[a].receivedAt = incident[i].first
        \/ \E b \in Members(i) :
              /\ alert[b].receivedAt < alert[a].receivedAt
              /\ Distance(a, b) <= Window

\* A storm makes one incident: two unresolved incidents of a fingerprint have
\* alerts that are further apart than the window.  Two workers that find no
\* incident at the same time do not both open one (the advisory lock).
NoNeedlessSplit ==
    \A i, j \in Ids :
        /\ i # j
        /\ incident[i].fingerprint = incident[j].fingerprint
        /\ incident[i].status \in {"open", "acknowledged"}
        /\ incident[j].status \in {"open", "acknowledged"}
        => \E a \in Members(i), b \in Members(j) : Distance(a, b) > Window

\* A resolved incident stays as it is: an alert that was being added while the
\* operator resolved it does not change it any more, and it is never reopened.
ResolvedIsFinal ==
    [][\A i \in Ids : incident[i].status = "resolved" =>
          /\ incident'[i] = incident[i]
          /\ timeline'[i] = timeline[i]
          /\ escalation'[i] = escalation[i]]_vars

\* The version an operator sends back as expected_version vouches for all that
\* the operator saw: an incident of the same version is the same incident.
VersionVouchesForState ==
    \A o \in Operators, i \in Ids :
        view[o].id = i /\ view[o].row.version = incident[i].version
        => view[o].row = incident[i]

Contract == INSTANCE CorrelationContract
    WITH status  <- [i \in Ids |-> incident[i].status],
         members <- [i \in Ids |-> Members(i)]

\* Correlators at work at the same time, transitions between their statements,
\* failures and redeliveries leave no trace: what they do to the incidents is what
\* placing one alert after the other, each in one step, would do, and the columns
\* first_seen_at and last_seen_at stand for the set of alerts when an alert is
\* placed.
CorrelationIsAtomic == Contract!Spec
=============================================================================
