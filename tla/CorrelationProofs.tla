-------------------------- MODULE CorrelationProofs --------------------------
(***************************************************************************)
(* Proofs about Correlation for any number of alerts, correlators,         *)
(* operators and incidents, any times and any window.                      *)
(***************************************************************************)
EXTENDS Correlation, FiniteSetTheorems, TLAPS

(***************************************************************************)
(* The inductive invariant.                                                *)
(***************************************************************************)

Holding == {"locked", "found"}

\* What a transaction knows by its phase; its message is not yet in the inbox.
TxInv ==
    \A w \in Workers :
        /\ tx[w].phase = "idle" => tx[w].alert = None
        /\ tx[w].phase # "idle" => tx[w].alert \in Alerts \ inbox
        /\ tx[w].phase # "found" => tx[w].id = None

\* The unique key of inbox_messages and the advisory lock keep transactions apart.
LockInv ==
    \A v, w \in Workers : v # w =>
        /\ tx[v].phase # "idle" => tx[v].alert # tx[w].alert
        /\ tx[v].phase \in Holding /\ tx[w].phase \in Holding =>
              alert[tx[v].alert].fingerprint # alert[tx[w].alert].fingerprint

\* What a search found is still true when the transaction commits.
SearchInv ==
    \A w \in Workers : tx[w].phase = "found" =>
        /\ tx[w].id # None =>
              tx[w].row = incident[tx[w].id] /\ Matches(tx[w].id, tx[w].alert)
        /\ tx[w].id = None => \A i \in Ids : ~Matches(i, tx[w].alert)

MemberInv ==
    \A i \in Ids :
        /\ incident[i].status = "absent" => Members(i) = {}
        /\ Members(i) \subseteq inbox
        /\ IsFiniteSet(Members(i))

\* Every time between the first and the last of an incident has one of its
\* alerts within the window before it.  NoGapBeyondWindow says so of the times
\* of alerts only, which does not tell where a later alert may fit in.
WindowInv ==
    \A i \in Ids : incident[i].status # "absent" =>
        \A t \in (incident[i].first + 1) .. incident[i].last :
            \E b \in Members(i) : alert[b].receivedAt < t /\ t <= alert[b].receivedAt + Window

\* An operator's view is never younger than the incident, and equal versions
\* mean equal rows.
ViewInv ==
    \A o \in Operators : view[o].id # None =>
        /\ incident[view[o].id].status # "absent"
        /\ view[o].row.version <= incident[view[o].id].version
        /\ view[o].row.version = incident[view[o].id].version =>
              view[o].row = incident[view[o].id]

IInv ==
    /\ TypeOK
    /\ TxInv
    /\ LockInv
    /\ SearchInv
    /\ MemberInv
    /\ AggregatesAreExact
    /\ WindowInv
    /\ NoNeedlessSplit
    /\ ViewInv

-----------------------------------------------------------------------------
(***************************************************************************)
(* Facts about the operators.                                              *)
(***************************************************************************)

\* MaxSeverity is one of its arguments and at least as severe as both.
LEMMA SeverityFacts ==
    ASSUME NEW s \in Severities, NEW t \in Severities
    PROVE  /\ MaxSeverity(s, t) \in {s, t}
           /\ Rank(s) <= Rank(MaxSeverity(s, t))
           /\ Rank(t) <= Rank(MaxSeverity(s, t))
           /\ Rank(s) \in Nat
BY DEF MaxSeverity, Rank, Severities

\* A new timeline entry adds its alert, if it names one, to the members of its
\* incident and changes no other incident's.
LEMMA AppendMembers ==
    ASSUME timeline \in [Ids -> Seq(Entries)],
           NEW i \in Ids, NEW kind \in AlertKinds \cup StatusKinds,
           NEW a \in Alerts \cup {None}, NEW number \in Nat,
           AppendEntry(i, kind, a, number)
    PROVE  /\ timeline' \in [Ids -> Seq(Entries)]
           /\ Members(i)' = Members(i) \cup ({a} \ {None})
           /\ \A j \in Ids : j # i => Members(j)' = Members(j)
<1> DEFINE e == [kind |-> kind, alert |-> a, number |-> number]
           s == timeline[i]
<1>1. e \in Entries /\ s \in Seq(Entries) /\ e.alert = a
  BY DEF Entries
<1>2. timeline' = [timeline EXCEPT ![i] = Append(s, e)]
  BY DEF AppendEntry
<1> HIDE DEF e, s
<1>3. /\ timeline'[i] = Append(s, e)
      /\ \A j \in Ids : j # i => timeline'[j] = timeline[j]
      /\ timeline' \in [Ids -> Seq(Entries)]
  BY <1>1, <1>2
<1>4. /\ Len(Append(s, e)) = Len(s) + 1
      /\ Append(s, e)[Len(s) + 1] = e
      /\ \A k \in 1 .. Len(s) : Append(s, e)[k] = s[k]
      /\ Len(s) \in Nat
  BY <1>1
<1>5. {Append(s, e)[k].alert : k \in 1 .. Len(s) + 1} = {s[k].alert : k \in 1 .. Len(s)} \cup {a}
  <2>1. 1 .. Len(s) + 1 = (1 .. Len(s)) \cup {Len(s) + 1}
    BY <1>4
  <2>2. {Append(s, e)[k].alert : k \in 1 .. Len(s)} = {s[k].alert : k \in 1 .. Len(s)}
    BY <1>4
  <2> QED  BY <1>1, <1>4, <2>1, <2>2
<1>6. Members(i)' = {Append(s, e)[k].alert : k \in 1 .. Len(s) + 1} \ {None}
  BY <1>3, <1>4 DEF Members
<1>7. Members(i) = {s[k].alert : k \in 1 .. Len(s)} \ {None}
  BY DEF Members, s
<1>8. \A j \in Ids : j # i => Members(j)' = Members(j)
  BY <1>3 DEF Members
<1> QED  BY <1>3, <1>5, <1>6, <1>7, <1>8

\* The alerts of an incident are alerts.
LEMMA MembersAreAlerts ==
    ASSUME TypeOK, NEW i \in Ids
    PROVE  Members(i) \subseteq Alerts
<1>1. timeline[i] \in Seq(Entries)
  BY DEF TypeOK
<1>2. ASSUME NEW k \in 1 .. Len(timeline[i])
      PROVE  timeline[i][k].alert \in Alerts \cup {None}
  <2>1. timeline[i][k] \in Entries
    BY <1>1
  <2> QED  BY <2>1 DEF Entries
<1> QED  BY <1>2 DEF Members

\* The parts of the invariants that are about one incident, or a pair of them.
Exact(i) ==
    incident[i].status # "absent" =>
        /\ incident[i].count = Cardinality(Members(i))
        /\ \A a \in Members(i) :
              /\ alert[a].fingerprint = incident[i].fingerprint
              /\ alert[a].receivedAt \in incident[i].first .. incident[i].last
              /\ Rank(alert[a].severity) <= Rank(incident[i].severity)
        /\ \E a \in Members(i) : alert[a].receivedAt = incident[i].first
        /\ \E a \in Members(i) : alert[a].receivedAt = incident[i].last
        /\ \E a \in Members(i) : alert[a].severity = incident[i].severity

Covered(i) ==
    incident[i].status # "absent" =>
        \A t \in (incident[i].first + 1) .. incident[i].last :
            \E b \in Members(i) : alert[b].receivedAt < t /\ t <= alert[b].receivedAt + Window

Apart(i, j) ==
    /\ i # j
    /\ incident[i].fingerprint = incident[j].fingerprint
    /\ incident[i].status \in {"open", "acknowledged"}
    /\ incident[j].status \in {"open", "acknowledged"}
    => \E a \in Members(i), b \in Members(j) : Distance(a, b) > Window

Accounted(i) ==
    /\ incident[i].status = "absent" => Members(i) = {}
    /\ Members(i) \subseteq inbox
    /\ IsFiniteSet(Members(i))

\* The invariants about incidents, in their parts.
LEMMA Parts ==
    /\ AggregatesAreExact <=> \A i \in Ids : Exact(i)
    /\ WindowInv <=> \A i \in Ids : Covered(i)
    /\ NoNeedlessSplit <=> \A i, j \in Ids : Apart(i, j)
    /\ MemberInv <=> \A i \in Ids : Accounted(i)
BY DEF AggregatesAreExact, WindowInv, NoNeedlessSplit, MemberInv,
       Exact, Covered, Apart, Accounted

\* The same in the next state.
LEMMA NextParts ==
    ASSUME \A i \in Ids : Exact(i)' /\ Covered(i)' /\ Accounted(i)',
           \A i, j \in Ids : Apart(i, j)'
    PROVE  MemberInv' /\ AggregatesAreExact' /\ WindowInv' /\ NoNeedlessSplit'
BY DEF AggregatesAreExact, WindowInv, NoNeedlessSplit, MemberInv,
       Exact, Covered, Apart, Accounted

\* An incident that a step does not touch keeps its parts.
LEMMA Untouched ==
    ASSUME NEW i \in Ids, alert' = alert, inbox \subseteq inbox',
           incident'[i] = incident[i], Members(i)' = Members(i)
    PROVE  /\ Exact(i) => Exact(i)'
           /\ Covered(i) => Covered(i)'
           /\ Accounted(i) => Accounted(i)'
<1>1. Exact(i) => Exact(i)'
  BY DEF Exact
<1>2. Covered(i) => Covered(i)'
  BY DEF Covered
<1>3. Accounted(i) => Accounted(i)'
  BY DEF Accounted
<1> QED  BY <1>1, <1>2, <1>3

\* Two incidents that are apart stay apart while they only gain members.
LEMMA StayApart ==
    ASSUME NEW i \in Ids, NEW j \in Ids, alert' = alert,
           Members(i) \subseteq Members(i)', Members(j) \subseteq Members(j)',
           incident'[i].fingerprint = incident[i].fingerprint,
           incident'[j].fingerprint = incident[j].fingerprint,
           incident'[i].status \in {"open", "acknowledged"} =>
               incident[i].status \in {"open", "acknowledged"},
           incident'[j].status \in {"open", "acknowledged"} =>
               incident[j].status \in {"open", "acknowledged"},
           Apart(i, j)
    PROVE  Apart(i, j)'
BY DEF Apart, Distance

\* Steps that change neither incidents nor their timelines.
LEMMA QuietStep ==
    ASSUME IInv, UNCHANGED <<alert, inbox, incident, timeline>>
    PROVE  /\ MemberInv'
           /\ AggregatesAreExact'
           /\ WindowInv'
           /\ NoNeedlessSplit'
<1>1. \A i \in Ids : Members(i)' = Members(i)
  BY DEF Members
<1>2. \A i \in Ids : Exact(i)' /\ Covered(i)' /\ Accounted(i)'
  BY <1>1, Parts, Untouched DEF IInv
<1>3. \A i, j \in Ids : Apart(i, j)'
  BY <1>1, Parts, StayApart DEF IInv
<1> QED  BY <1>2, <1>3, NextParts

-----------------------------------------------------------------------------
(***************************************************************************)
(* Types.                                                                  *)
(***************************************************************************)

\* Init establishes the types.
LEMMA InitTypes == Init => TypeOK
<1> SUFFICES ASSUME Init PROVE TypeOK
  OBVIOUS
<1>1. AbsentIncident \in Incidents
  BY DEF AbsentIncident, Incidents
<1>2. NoTransaction \in Transactions
  BY <1>1 DEF NoTransaction, Transactions
<1>3. NoEscalation \in EscalationRows
  BY DEF NoEscalation, EscalationRows
<1>4. \A i \in Ids : incident[i].status = "absent"
  BY DEF Init, AbsentIncident
<1> QED  BY <1>1, <1>2, <1>3, <1>4 DEF Init, TypeOK, Views

\* What is known of a transaction that found its incident, or found none.
LEMMA FoundTypes ==
    ASSUME IInv, NEW w \in Workers, tx[w].phase = "found"
    PROVE  /\ tx[w].alert \in Alerts
           /\ tx[w].alert \notin inbox
           /\ alert[tx[w].alert] \in AlertRows
           /\ alert[tx[w].alert].receivedAt \in Int
           /\ alert[tx[w].alert].severity \in Severities
           /\ alert[tx[w].alert].fingerprint \in Fingerprints
           /\ tx[w].id # None =>
                 /\ tx[w].id \in Ids
                 /\ tx[w].row = incident[tx[w].id]
                 /\ incident[tx[w].id] \in Incidents
                 /\ Matches(tx[w].id, tx[w].alert)
           /\ tx[w].id = None => \A i \in Ids : ~Matches(i, tx[w].alert)
<1>1. tx[w].alert \in Alerts /\ tx[w].alert \notin inbox
  BY DEF IInv, TxInv
<1>2. alert[tx[w].alert] \in AlertRows
  BY <1>1 DEF IInv, TypeOK
<1>3. tx[w] \in Transactions
  BY DEF IInv, TypeOK
<1>4. tx[w].id \in Ids \cup {None}
  BY <1>3 DEF Transactions
<1>5. \A i \in Ids : incident[i] \in Incidents
  BY DEF IInv, TypeOK
<1> QED  BY <1>1, <1>2, <1>4, <1>5, CorrelationConstants DEF AlertRows, IInv, SearchInv

\* A row as Opened makes it.
LEMMA OpenedType ==
    ASSUME NEW r \in AlertRows
    PROVE  Opened(r) \in Incidents /\ Opened(r).count = 1
BY CorrelationConstants DEF Opened, AlertRows, Incidents, IncidentStatuses

\* A row as Joined makes it.
LEMMA JoinedType ==
    ASSUME NEW c \in Incidents, c.status \in {"open", "acknowledged"},
           c.severity \in Severities, NEW r \in AlertRows
    PROVE  /\ Joined(c, c, r) \in Incidents
           /\ Joined(c, c, r).fingerprint = c.fingerprint
           /\ Joined(c, c, r).status = c.status
           /\ Joined(c, c, r).severity = MaxSeverity(c.severity, r.severity)
           /\ Joined(c, c, r).count = c.count + 1
           /\ Joined(c, c, r).first = IF r.receivedAt < c.first THEN r.receivedAt ELSE c.first
           /\ Joined(c, c, r).last = IF r.receivedAt > c.last THEN r.receivedAt ELSE c.last
           /\ Joined(c, c, r).version = c.version + 1
<1> DEFINE sv == MaxSeverity(c.severity, r.severity)
           f == IF r.receivedAt < c.first THEN r.receivedAt ELSE c.first
           l == IF r.receivedAt > c.last THEN r.receivedAt ELSE c.last
<1>1. r.receivedAt \in Int /\ r.severity \in Severities
  BY CorrelationConstants DEF AlertRows
<1>2. sv \in Severities /\ f \in Int /\ l \in Int /\ c.count + 1 \in Nat /\ c.version + 1 \in Nat
  BY <1>1 DEF MaxSeverity, Incidents
<1>3. Joined(c, c, r) = [c EXCEPT !.severity = sv, !.count = c.count + 1, !.first = f,
                                  !.last = l, !.version = c.version + 1]
  BY DEF Joined
<1> DEFINE d == Joined(c, c, r)
<1> HIDE DEF sv, f, l, d
<1>4. d \in Incidents
  BY <1>2, <1>3 DEF Incidents, d
<1>5. /\ d.severity = sv /\ d.count = c.count + 1 /\ d.first = f /\ d.last = l
      /\ d.version = c.version + 1 /\ d.status = c.status /\ d.fingerprint = c.fingerprint
  BY <1>2, <1>3 DEF Incidents, d
<1> QED  BY <1>4, <1>5 DEF sv, f, l, d

-----------------------------------------------------------------------------
(***************************************************************************)
(* Every step keeps the invariant.                                         *)
(***************************************************************************)

\* Steps that change transactions only: the rest of the invariant follows from
\* what it says of transactions.
LEMMA TransactionStep ==
    ASSUME IInv, UNCHANGED <<alert, inbox, incident, timeline, escalation, view>>,
           tx' \in [Workers -> Transactions], TxInv', LockInv', SearchInv'
    PROVE  IInv'
<1>1. TypeOK'
  BY DEF IInv, TypeOK
<1>2. ViewInv'
  BY DEF IInv, ViewInv
<1> QED  BY <1>1, <1>2, QuietStep DEF IInv

\* The insertion into inbox_messages.
LEMMA RecordInboxKeeps ==
    ASSUME IInv, NEW w \in Workers, NEW a \in Alerts, RecordInbox(w, a)
    PROVE  IInv'
<1>0. /\ tx' = [tx EXCEPT ![w].phase = "recorded", ![w].alert = a]
      /\ UNCHANGED <<alert, inbox, incident, timeline, escalation, view>>
      /\ a \notin inbox
      /\ \A v \in Workers : tx[v].alert # a
  BY DEF RecordInbox, CanRecord
<1>1. tx[w] \in Transactions /\ tx[w].id = None /\ tx[w].phase = "idle"
  BY DEF IInv, TypeOK, TxInv, RecordInbox
<1>2. /\ tx'[w].phase = "recorded" /\ tx'[w].alert = a /\ tx'[w].id = None
      /\ \A v \in Workers \ {w} : tx'[v] = tx[v]
  BY <1>0, <1>1 DEF IInv, TypeOK, Transactions
<1>3. tx' \in [Workers -> Transactions]
  BY <1>0, <1>1 DEF IInv, TypeOK, Transactions
<1>4. TxInv'
  <2> SUFFICES ASSUME NEW v \in Workers
               PROVE  /\ tx'[v].phase = "idle" => tx'[v].alert = None
                      /\ tx'[v].phase # "idle" => tx'[v].alert \in Alerts \ inbox
                      /\ tx'[v].phase # "found" => tx'[v].id = None
    BY <1>0 DEF TxInv
  <2>1. CASE v = w
    BY <1>0, <1>2, <2>1
  <2>2. CASE v # w
    BY <1>2, <2>2 DEF IInv, TxInv
  <2> QED  BY <2>1, <2>2
<1>5. LockInv'
  <2> SUFFICES ASSUME NEW u \in Workers, NEW v \in Workers, u # v
               PROVE  /\ tx'[u].phase # "idle" => tx'[u].alert # tx'[v].alert
                      /\ tx'[u].phase \in Holding /\ tx'[v].phase \in Holding =>
                            alert[tx'[u].alert].fingerprint # alert[tx'[v].alert].fingerprint
    BY <1>0 DEF LockInv
  <2>1. CASE u = w
    BY <1>0, <1>2, <2>1 DEF Holding
  <2>2. CASE v = w
    BY <1>0, <1>2, <2>2 DEF Holding
  <2>3. CASE u # w /\ v # w
    BY <1>2, <2>3 DEF IInv, LockInv
  <2> QED  BY <2>1, <2>2, <2>3
<1>6. SearchInv'
  <2> SUFFICES ASSUME NEW v \in Workers, tx'[v].phase = "found"
               PROVE  /\ tx'[v].id # None =>
                            tx'[v].row = incident[tx'[v].id] /\ Matches(tx'[v].id, tx'[v].alert)
                      /\ tx'[v].id = None => \A i \in Ids : ~Matches(i, tx'[v].alert)
    BY <1>0, ZenonT(30) DEF SearchInv, Matches
  <2> QED  BY <1>2 DEF IInv, SearchInv
<1> QED  BY <1>0, <1>3, <1>4, <1>5, <1>6, TransactionStep

\* The advisory lock.
LEMMA LockFingerprintKeeps ==
    ASSUME IInv, NEW w \in Workers, LockFingerprint(w)
    PROVE  IInv'
<1> USE DEF LockFingerprint
<1>1. tx[w] \in Transactions /\ tx[w].id = None /\ tx[w].phase = "recorded"
  BY DEF IInv, TypeOK, TxInv
<1>2. /\ tx'[w].phase = "locked" /\ tx'[w].alert = tx[w].alert /\ tx'[w].id = None
      /\ \A v \in Workers \ {w} : tx'[v] = tx[v]
  BY <1>1 DEF IInv, TypeOK, Transactions
<1>3. tx' \in [Workers -> Transactions]
  BY <1>1 DEF IInv, TypeOK, Transactions
<1>4. TxInv'
  BY <1>1, <1>2 DEF IInv, TxInv
<1>5. LockInv'
  <2> SUFFICES ASSUME NEW u \in Workers, NEW v \in Workers, u # v
               PROVE  /\ tx'[u].phase # "idle" => tx'[u].alert # tx'[v].alert
                      /\ tx'[u].phase \in Holding /\ tx'[v].phase \in Holding =>
                            alert[tx'[u].alert].fingerprint # alert[tx'[v].alert].fingerprint
    BY DEF LockInv
  <2>1. \A x \in Workers \ {w} : tx[x].phase \in Holding =>
            alert[tx[x].alert].fingerprint # alert[tx[w].alert].fingerprint
    BY DEF KeyFree, HoldsKey, Holding
  <2> QED  BY <1>1, <1>2, <2>1 DEF IInv, LockInv
<1>6. SearchInv'
  <2> SUFFICES ASSUME NEW v \in Workers, tx'[v].phase = "found"
               PROVE  /\ tx'[v].id # None =>
                            tx'[v].row = incident[tx'[v].id] /\ Matches(tx'[v].id, tx'[v].alert)
                      /\ tx'[v].id = None => \A i \in Ids : ~Matches(i, tx'[v].alert)
    BY DEF SearchInv, Matches
  <2> QED  BY <1>2 DEF IInv, SearchInv
<1> QED  BY <1>3, <1>4, <1>5, <1>6, TransactionStep

\* The search for an incident.
LEMMA FindIncidentKeeps ==
    ASSUME IInv, NEW w \in Workers, FindIncident(w)
    PROVE  IInv'
<1>1. tx[w] \in Transactions /\ tx[w].id = None /\ tx[w].phase = "locked"
  BY DEF IInv, TypeOK, TxInv, FindIncident
<1>2. /\ tx' \in [Workers -> Transactions]
      /\ tx'[w].phase = "found" /\ tx'[w].alert = tx[w].alert
      /\ \A v \in Workers \ {w} : tx'[v] = tx[v]
      /\ tx'[w].id # None =>
            tx'[w].row = incident[tx'[w].id] /\ Matches(tx'[w].id, tx[w].alert)
      /\ tx'[w].id = None => \A i \in Ids : ~Matches(i, tx[w].alert)
  <2>1. CASE \E i \in Ids :
                /\ Latest(i, tx[w].alert)
                /\ tx' = [tx EXCEPT ![w].phase = "found", ![w].id = i, ![w].row = incident[i]]
    <3>1. PICK i \in Ids :
                /\ Latest(i, tx[w].alert)
                /\ tx' = [tx EXCEPT ![w].phase = "found", ![w].id = i, ![w].row = incident[i]]
      BY <2>1
    <3>2. incident[i] \in Incidents /\ i # None
      BY CorrelationConstants DEF IInv, TypeOK
    <3>3. tx' \in [Workers -> Transactions]
      BY <1>1, <3>1, <3>2 DEF IInv, TypeOK, Transactions
    <3>4. /\ tx'[w].phase = "found" /\ tx'[w].alert = tx[w].alert
          /\ tx'[w].id = i /\ tx'[w].row = incident[i]
          /\ \A v \in Workers \ {w} : tx'[v] = tx[v]
      BY <1>1, <3>1 DEF IInv, TypeOK, Transactions
    <3> QED  BY <3>1, <3>2, <3>3, <3>4 DEF Latest
  <2>2. CASE /\ \A i \in Ids : ~Matches(i, tx[w].alert)
             /\ tx' = [tx EXCEPT ![w].phase = "found"]
    <3>1. tx' \in [Workers -> Transactions]
      BY <1>1, <2>2 DEF IInv, TypeOK, Transactions
    <3>2. /\ tx'[w].phase = "found" /\ tx'[w].alert = tx[w].alert /\ tx'[w].id = None
          /\ \A v \in Workers \ {w} : tx'[v] = tx[v]
      BY <1>1, <2>2 DEF IInv, TypeOK, Transactions
    <3> QED  BY <2>2, <3>1, <3>2
  <2> QED  BY <2>1, <2>2 DEF FindIncident
<1>3. UNCHANGED <<alert, inbox, incident, timeline, escalation, view>>
  BY DEF FindIncident
<1>4. TxInv'
  BY <1>1, <1>2, <1>3 DEF IInv, TxInv
<1>5. LockInv'
  <2> SUFFICES ASSUME NEW u \in Workers, NEW v \in Workers, u # v
               PROVE  /\ tx'[u].phase # "idle" => tx'[u].alert # tx'[v].alert
                      /\ tx'[u].phase \in Holding /\ tx'[v].phase \in Holding =>
                            alert[tx'[u].alert].fingerprint # alert[tx'[v].alert].fingerprint
    BY <1>3 DEF LockInv
  <2> QED  BY <1>1, <1>2 DEF IInv, LockInv, Holding
<1>6. SearchInv'
  <2> SUFFICES ASSUME NEW v \in Workers, tx'[v].phase = "found"
               PROVE  /\ tx'[v].id # None =>
                            tx'[v].row = incident[tx'[v].id] /\ Matches(tx'[v].id, tx'[v].alert)
                      /\ tx'[v].id = None => \A i \in Ids : ~Matches(i, tx'[v].alert)
    BY <1>3 DEF SearchInv, Matches
  <2> QED  BY <1>2 DEF IInv, SearchInv
<1> QED  BY <1>2, <1>3, <1>4, <1>5, <1>6, TransactionStep

\* A transaction ends without a trace.
LEMMA RollbackKeeps ==
    ASSUME IInv, NEW w \in Workers, Rollback(w)
    PROVE  IInv'
<1> USE DEF Rollback
<1>1. NoTransaction \in Transactions
  BY DEF NoTransaction, Transactions, AbsentIncident, Incidents
<1>2. /\ tx'[w].phase = "idle" /\ tx'[w].alert = None /\ tx'[w].id = None
      /\ \A v \in Workers \ {w} : tx'[v] = tx[v]
      /\ tx' \in [Workers -> Transactions]
  BY <1>1 DEF IInv, TypeOK, NoTransaction
<1>3. TxInv'
  BY <1>2 DEF IInv, TxInv
<1>4. LockInv'
  <2> SUFFICES ASSUME NEW u \in Workers, NEW v \in Workers, u # v
               PROVE  /\ tx'[u].phase # "idle" => tx'[u].alert # tx'[v].alert
                      /\ tx'[u].phase \in Holding /\ tx'[v].phase \in Holding =>
                            alert[tx'[u].alert].fingerprint # alert[tx'[v].alert].fingerprint
    BY DEF LockInv
  <2>1. tx'[u].phase # "idle" => u # w /\ tx[u].alert \in Alerts
    BY <1>2 DEF IInv, TxInv
  <2> QED  BY <1>2, <2>1, CorrelationConstants DEF IInv, LockInv, Holding
<1>5. SearchInv'
  <2> SUFFICES ASSUME NEW v \in Workers, tx'[v].phase = "found"
               PROVE  /\ tx'[v].id # None =>
                            tx'[v].row = incident[tx'[v].id] /\ Matches(tx'[v].id, tx'[v].alert)
                      /\ tx'[v].id = None => \A i \in Ids : ~Matches(i, tx'[v].alert)
    BY DEF SearchInv, Matches
  <2> QED  BY <1>2 DEF IInv, SearchInv
<1> QED  BY <1>2, <1>3, <1>4, <1>5, TransactionStep

\* An operator reads an incident.
LEMMA GetIncidentKeeps ==
    ASSUME IInv, NEW o \in Operators, NEW i \in Ids, GetIncident(o, i)
    PROVE  IInv'
<1> USE DEF GetIncident
<1>1. incident[i] \in Incidents /\ incident[i].version \in Nat /\ i # None
  BY CorrelationConstants DEF IInv, TypeOK, Incidents
<1>2. TypeOK'
  BY <1>1 DEF IInv, TypeOK, Views
<1>3. ViewInv'
  <2> SUFFICES ASSUME NEW p \in Operators, view'[p].id # None
               PROVE  /\ incident[view'[p].id].status # "absent"
                      /\ view'[p].row.version <= incident[view'[p].id].version
                      /\ view'[p].row.version = incident[view'[p].id].version =>
                            view'[p].row = incident[view'[p].id]
    BY DEF ViewInv
  <2>1. CASE p = o
    BY <1>1, <2>1 DEF IInv, TypeOK
  <2>2. CASE p # o
    BY <2>2 DEF IInv, ViewInv, TypeOK
  <2> QED  BY <2>1, <2>2
<1>4. TxInv' /\ LockInv'
  BY DEF IInv, TxInv, LockInv
<1>5. SearchInv'
  BY DEF IInv, SearchInv, Matches
<1> QED  BY <1>2, <1>3, <1>4, <1>5, QuietStep DEF IInv

\* The commit that opens an incident.
LEMMA CommitOpenedKeeps ==
    ASSUME IInv, NEW w \in Workers, CommitOpened(w)
    PROVE  IInv'
<1>a. PICK a : a = tx[w].alert
  OBVIOUS
<1>r. PICK r : r = alert[a]
  OBVIOUS
<1>1. PICK i \in Ids :
         /\ incident[i].status = "absent"
         /\ incident' = [incident EXCEPT ![i] = Opened(r)]
         /\ escalation' = [escalation EXCEPT ![i] =
               [status |-> "pending", from |-> r.receivedAt, severity |-> r.severity]]
         /\ AppendEntry(i, "incident_opened", a, 1)
  BY <1>a, <1>r DEF CommitOpened
<1>2. /\ tx[w].phase = "found" /\ tx[w].id = None
      /\ inbox' = inbox \cup {a}
      /\ tx' = [tx EXCEPT ![w] = NoTransaction]
      /\ alert' = alert /\ view' = view
  BY <1>a DEF CommitOpened
<1>3. /\ a \in Alerts /\ a \notin inbox
      /\ r \in AlertRows /\ r.receivedAt \in Int
      /\ r.severity \in Severities /\ r.fingerprint \in Fingerprints
      /\ \A j \in Ids : ~Matches(j, a)
  BY <1>a, <1>r, <1>2, FoundTypes
<1>4. a # None
  BY <1>3, CorrelationConstants
<1>5. /\ timeline' \in [Ids -> Seq(Entries)]
      /\ Members(i)' = Members(i) \cup ({a} \ {None})
      /\ \A j \in Ids : j # i => Members(j)' = Members(j)
  BY <1>1, <1>3, AppendMembers DEF IInv, TypeOK, AlertKinds
<1>6. Members(i) = {} /\ Members(i)' = {a}
  BY <1>1, <1>4, <1>5 DEF IInv, MemberInv
<1>7. /\ incident'[i] = Opened(r)
      /\ \A j \in Ids : j # i => incident'[j] = incident[j]
      /\ incident' \in [Ids -> Incidents]
      /\ Opened(r).count = 1
  BY <1>1, <1>3, OpenedType DEF IInv, TypeOK
<1>8. NoTransaction \in Transactions
  BY DEF NoTransaction, Transactions, AbsentIncident, Incidents
<1>9. /\ tx'[w].phase = "idle" /\ tx'[w].alert = None /\ tx'[w].id = None
      /\ \A v \in Workers \ {w} : tx'[v] = tx[v]
      /\ tx' \in [Workers -> Transactions]
  BY <1>2, <1>8 DEF IInv, TypeOK, NoTransaction
<1>10. TypeOK'
  <2>1. escalation' \in [Ids -> EscalationRows]
    BY <1>1, <1>3 DEF IInv, TypeOK, EscalationRows
  <2>2. inbox' \subseteq Alerts
    BY <1>2, <1>3 DEF IInv, TypeOK
  <2>3. \A j \in Ids : incident'[j].status # "absent" => incident'[j].count > 0
    <3>1. \A j \in Ids : incident[j].status # "absent" => incident[j].count > 0
      BY DEF IInv, TypeOK
    <3> QED  BY <1>7, <3>1
  <2> QED  BY <1>2, <1>5, <1>7, <1>9, <2>1, <2>2, <2>3 DEF IInv, TypeOK
<1>11. TxInv'
  <2> SUFFICES ASSUME NEW v \in Workers
               PROVE  /\ tx'[v].phase = "idle" => tx'[v].alert = None
                      /\ tx'[v].phase # "idle" => tx'[v].alert \in Alerts \ inbox'
                      /\ tx'[v].phase # "found" => tx'[v].id = None
    BY DEF TxInv
  <2>1. v # w /\ tx[v].phase # "idle" => tx[v].alert # a
    BY <1>a DEF IInv, LockInv
  <2> QED  BY <1>2, <1>9, <2>1 DEF IInv, TxInv
<1>12. LockInv'
  <2> SUFFICES ASSUME NEW u \in Workers, NEW v \in Workers, u # v
               PROVE  /\ tx'[u].phase # "idle" => tx'[u].alert # tx'[v].alert
                      /\ tx'[u].phase \in Holding /\ tx'[v].phase \in Holding =>
                            alert[tx'[u].alert].fingerprint # alert[tx'[v].alert].fingerprint
    BY <1>2 DEF LockInv
  <2>1. tx'[u].phase # "idle" => u # w /\ tx[u].alert \in Alerts
    BY <1>9 DEF IInv, TxInv
  <2> QED  BY <1>9, <2>1, CorrelationConstants DEF IInv, LockInv, Holding
<1>13. SearchInv'
  <2> SUFFICES ASSUME NEW v \in Workers, NEW b, NEW k, tx'[v].phase = "found",
                      b = tx'[v].alert, k = tx'[v].id
               PROVE  /\ k # None => tx'[v].row = incident'[k] /\ Matches(k, b)'
                      /\ k = None => \A j \in Ids : ~Matches(j, b)'
    BY DEF SearchInv, Matches
  <2>1. v # w /\ tx'[v] = tx[v] /\ tx[v].phase = "found" /\ b = tx[v].alert /\ k = tx[v].id
    BY <1>9
  <2>2. alert[b].fingerprint # r.fingerprint
    BY <1>a, <1>r, <1>2, <2>1 DEF IInv, LockInv, Holding
  <2>3. \A j \in Ids : j # i => (Matches(j, b)' <=> Matches(j, b))
    BY <1>2, <1>7 DEF Matches
  <2>4. ~Matches(i, b)'
    BY <1>2, <1>7, <2>2 DEF Matches, Opened
  <2>5. ~Matches(i, b)
    BY <1>1 DEF Matches
  <2>6. CASE k # None
    <3>1. k \in Ids /\ tx[v].row = incident[k] /\ Matches(k, b)
      BY <2>1, <2>6, FoundTypes
    <3>2. k # i
      BY <2>5, <3>1
    <3> QED  BY <1>7, <2>1, <2>3, <2>6, <3>1, <3>2
  <2>7. CASE k = None
    <3>1. \A j \in Ids : ~Matches(j, b)
      BY <2>1, <2>7, FoundTypes
    <3> QED  BY <2>3, <2>4, <2>7, <3>1
  <2> QED  BY <2>6, <2>7
<1>14. \A j \in Ids : Exact(j)' /\ Covered(j)' /\ Accounted(j)'
  <2> SUFFICES ASSUME NEW j \in Ids PROVE Exact(j)' /\ Covered(j)' /\ Accounted(j)'
    OBVIOUS
  <2>1. CASE j # i
    BY <1>2, <1>5, <1>7, <2>1, Parts, Untouched DEF IInv
  <2>2. CASE j = i
    <3>1. Cardinality({a}) = 1 /\ IsFiniteSet({a})
      BY FS_Singleton
    <3>2. /\ incident'[i].count = 1 /\ incident'[i].first = r.receivedAt
          /\ incident'[i].last = r.receivedAt /\ incident'[i].severity = r.severity
          /\ incident'[i].fingerprint = r.fingerprint /\ incident'[i].status = "open"
      BY <1>7 DEF Opened
    <3>3. alert'[a] = r /\ r.receivedAt \in r.receivedAt .. r.receivedAt
          /\ Rank(r.severity) <= Rank(r.severity)
      BY <1>2, <1>3, SeverityFacts, <1>r
    <3>4. Exact(i)'
      BY <1>6, <3>1, <3>2, <3>3 DEF Exact
    <3>5. Covered(i)'
      BY <1>3, <3>2 DEF Covered
    <3>6. Accounted(i)'
      BY <1>2, <1>6, <3>1, <3>2 DEF Accounted
    <3> QED  BY <2>2, <3>4, <3>5, <3>6
  <2> QED  BY <2>1, <2>2
<1>15. \A j \in Ids : Apart(i, j)' /\ Apart(j, i)'
  <2> SUFFICES ASSUME NEW j \in Ids, j # i,
                      incident[j].fingerprint = r.fingerprint,
                      incident[j].status \in {"open", "acknowledged"}
               PROVE  \E b \in Members(j) : Distance(a, b)' > Window /\ Distance(b, a)' > Window
    <3>1. incident'[i].fingerprint = r.fingerprint
      BY <1>7 DEF Opened
    <3>2. \A j \in Ids : j # i => incident'[j] = incident[j] /\ Members(j)' = Members(j)
      BY <1>5, <1>7
    <3>3. a \in Members(i)'
      BY <1>6
    <3> QED  BY <3>1, <3>2, <3>3 DEF Apart
  <2>1. ~Matches(j, a)
    BY <1>3
  <2>2. incident[j].first \in Int /\ incident[j].last \in Int /\ Window \in Int
    BY CorrelationConstants DEF IInv, TypeOK, Incidents
  <2>3. incident[j].last < r.receivedAt - Window \/ incident[j].first > r.receivedAt + Window
    BY <1>r, <1>3, <2>1, <2>2 DEF Matches
  <2>4. Exact(j)
    BY Parts DEF IInv
  <2>5. CASE incident[j].last < r.receivedAt - Window
    <3>1. PICK b \in Members(j) : alert[b].receivedAt = incident[j].last
      BY <2>4 DEF Exact
    <3>2. Distance(a, b)' > Window /\ Distance(b, a)' > Window
      BY <1>r, <1>2, <1>3, <2>2, <2>5, <3>1, CorrelationConstants DEF Distance
    <3> QED  BY <3>2
  <2>6. CASE incident[j].first > r.receivedAt + Window
    <3>1. PICK b \in Members(j) : alert[b].receivedAt = incident[j].first
      BY <2>4 DEF Exact
    <3>2. Distance(a, b)' > Window /\ Distance(b, a)' > Window
      BY <1>r, <1>2, <1>3, <2>2, <2>6, <3>1, CorrelationConstants DEF Distance
    <3> QED  BY <3>2
  <2> QED  BY <2>3, <2>5, <2>6
<1>16. \A j, k \in Ids : Apart(j, k)'
  <2> SUFFICES ASSUME NEW j \in Ids, NEW k \in Ids PROVE Apart(j, k)'
    OBVIOUS
  <2>1. CASE j = i \/ k = i
    BY <1>15, <2>1
  <2>2. CASE j # i /\ k # i
    BY <1>2, <1>5, <1>7, <2>2, Parts, StayApart DEF IInv
  <2> QED  BY <2>1, <2>2
<1>17. ViewInv'
  <2> SUFFICES ASSUME NEW o \in Operators, view[o].id # None
               PROVE  incident'[view[o].id] = incident[view[o].id]
    BY <1>2 DEF IInv, ViewInv
  <2>1. view[o].id \in Ids
    BY DEF IInv, TypeOK, Views
  <2>2. view[o].id # i
    BY <1>1 DEF IInv, ViewInv
  <2> QED  BY <1>7, <2>1, <2>2
<1> QED  BY <1>10, <1>11, <1>12, <1>13, <1>14, <1>16, <1>17, NextParts DEF IInv

\* The commit that adds an occurrence to an incident.
LEMMA CommitJoinedKeeps ==
    ASSUME IInv, NEW w \in Workers, CommitJoined(w)
    PROVE  IInv'
<1>a. PICK a : a = tx[w].alert
  OBVIOUS
<1>r. PICK r : r = alert[a]
  OBVIOUS
<1>i. PICK i : i = tx[w].id
  OBVIOUS
<1>c. PICK c : c = incident[i]
  OBVIOUS
<1>1. /\ tx[w].phase = "found" /\ i # None
      /\ incident' = [incident EXCEPT ![i] = Joined(@, tx[w].row, r)]
      /\ AppendEntry(i, "alert_correlated", a, tx[w].row.count + 1)
      /\ inbox' = inbox \cup {a}
      /\ tx' = [tx EXCEPT ![w] = NoTransaction]
      /\ alert' = alert /\ view' = view /\ escalation' = escalation
  BY <1>a, <1>r, <1>i DEF CommitJoined
<1>2. /\ a \in Alerts /\ a \notin inbox
      /\ r \in AlertRows /\ r.receivedAt \in Int
      /\ r.severity \in Severities /\ r.fingerprint \in Fingerprints
      /\ i \in Ids /\ tx[w].row = c /\ c \in Incidents
      /\ Matches(i, a)
  BY <1>a, <1>r, <1>i, <1>c, <1>1, FoundTypes
<1>3. /\ c.fingerprint = r.fingerprint
      /\ c.status \in {"open", "acknowledged"}
      /\ c.last >= r.receivedAt - Window
      /\ c.first <= r.receivedAt + Window
      /\ c.count \in Nat /\ c.version \in Nat /\ c.first \in Int /\ c.last \in Int
  BY <1>r, <1>c, <1>2 DEF Matches, Incidents, IncidentStatuses
<1>4. Exact(i) /\ Covered(i) /\ Accounted(i)
  BY <1>2, Parts DEF IInv
<1>5. Members(i) \subseteq Alerts
  BY <1>2, MembersAreAlerts DEF IInv
<1>6. c.severity \in Severities
  <2>1. PICK b \in Members(i) : alert[b].severity = c.severity
    BY <1>c, <1>3, <1>4 DEF Exact
  <2> QED  BY <1>5, <2>1, CorrelationConstants DEF IInv, TypeOK, AlertRows
<1>7. PICK d : d = Joined(c, c, r)
  OBVIOUS
<1>8. /\ d \in Incidents
      /\ d.fingerprint = c.fingerprint
      /\ d.status = c.status
      /\ d.severity = MaxSeverity(c.severity, r.severity)
      /\ d.count = c.count + 1
      /\ d.first = IF r.receivedAt < c.first THEN r.receivedAt ELSE c.first
      /\ d.last = IF r.receivedAt > c.last THEN r.receivedAt ELSE c.last
      /\ d.version = c.version + 1
  BY <1>2, <1>3, <1>6, <1>7, JoinedType
<1>9. /\ incident'[i] = d
      /\ \A j \in Ids : j # i => incident'[j] = incident[j]
      /\ incident' \in [Ids -> Incidents]
  BY <1>1, <1>2, <1>c, <1>7, <1>8 DEF IInv, TypeOK
<1>10. /\ timeline' \in [Ids -> Seq(Entries)]
       /\ Members(i)' = Members(i) \cup {a}
       /\ \A j \in Ids : j # i => Members(j)' = Members(j)
  <2>1. tx[w].row.count + 1 \in Nat /\ a # None
    BY <1>2, <1>3, CorrelationConstants
  <2>2. /\ timeline' \in [Ids -> Seq(Entries)]
        /\ Members(i)' = Members(i) \cup ({a} \ {None})
        /\ \A j \in Ids : j # i => Members(j)' = Members(j)
    BY <1>1, <1>2, <2>1, AppendMembers DEF IInv, TypeOK, AlertKinds
  <2> QED  BY <2>1, <2>2
<1>11. NoTransaction \in Transactions
  BY DEF NoTransaction, Transactions, AbsentIncident, Incidents
<1>12. /\ tx'[w].phase = "idle" /\ tx'[w].alert = None /\ tx'[w].id = None
       /\ \A v \in Workers \ {w} : tx'[v] = tx[v]
       /\ tx' \in [Workers -> Transactions]
  BY <1>1, <1>11 DEF IInv, TypeOK, NoTransaction
<1>13. TypeOK'
  <2>1. inbox' \subseteq Alerts
    BY <1>1, <1>2 DEF IInv, TypeOK
  <2>2. \A j \in Ids : incident'[j].status # "absent" => incident'[j].count > 0
    <3>1. \A j \in Ids : incident[j].status # "absent" => incident[j].count > 0
      BY DEF IInv, TypeOK
    <3> QED  BY <1>3, <1>8, <1>9, <3>1
  <2> QED  BY <1>1, <1>9, <1>10, <1>12, <2>1, <2>2 DEF IInv, TypeOK
<1>14. TxInv'
  <2> SUFFICES ASSUME NEW v \in Workers
               PROVE  /\ tx'[v].phase = "idle" => tx'[v].alert = None
                      /\ tx'[v].phase # "idle" => tx'[v].alert \in Alerts \ inbox'
                      /\ tx'[v].phase # "found" => tx'[v].id = None
    BY DEF TxInv
  <2>1. v # w /\ tx[v].phase # "idle" => tx[v].alert # a
    BY <1>a DEF IInv, LockInv
  <2> QED  BY <1>1, <1>12, <2>1 DEF IInv, TxInv
<1>15. LockInv'
  <2> SUFFICES ASSUME NEW u \in Workers, NEW v \in Workers, u # v
               PROVE  /\ tx'[u].phase # "idle" => tx'[u].alert # tx'[v].alert
                      /\ tx'[u].phase \in Holding /\ tx'[v].phase \in Holding =>
                            alert[tx'[u].alert].fingerprint # alert[tx'[v].alert].fingerprint
    BY <1>1 DEF LockInv
  <2>1. tx'[u].phase # "idle" => u # w /\ tx[u].alert \in Alerts
    BY <1>12 DEF IInv, TxInv
  <2> QED  BY <1>12, <2>1, CorrelationConstants DEF IInv, LockInv, Holding
<1>16. SearchInv'
  <2> SUFFICES ASSUME NEW v \in Workers, NEW b, NEW k, tx'[v].phase = "found",
                      b = tx'[v].alert, k = tx'[v].id
               PROVE  /\ k # None => tx'[v].row = incident'[k] /\ Matches(k, b)'
                      /\ k = None => \A j \in Ids : ~Matches(j, b)'
    BY DEF SearchInv, Matches
  <2>1. v # w /\ tx'[v] = tx[v] /\ tx[v].phase = "found" /\ b = tx[v].alert /\ k = tx[v].id
    BY <1>12
  <2>2. alert[b].fingerprint # r.fingerprint
    BY <1>a, <1>r, <1>1, <2>1 DEF IInv, LockInv, Holding
  <2>3. \A j \in Ids : j # i => (Matches(j, b)' <=> Matches(j, b))
    BY <1>1, <1>9 DEF Matches
  <2>4. ~Matches(i, b)' /\ ~Matches(i, b)
    BY <1>c, <1>1, <1>3, <1>8, <1>9, <2>2 DEF Matches
  <2>5. CASE k # None
    <3>1. k \in Ids /\ tx[v].row = incident[k] /\ Matches(k, b)
      BY <2>1, <2>5, FoundTypes
    <3>2. k # i
      BY <2>4, <3>1
    <3> QED  BY <1>9, <2>1, <2>3, <2>5, <3>1, <3>2
  <2>6. CASE k = None
    <3>1. \A j \in Ids : ~Matches(j, b)
      BY <2>1, <2>6, FoundTypes
    <3> QED  BY <2>3, <2>4, <2>6, <3>1
  <2> QED  BY <2>5, <2>6
<1>17. Exact(i)'
  <2>1. /\ IsFiniteSet(Members(i)) /\ a \notin Members(i)
        /\ Cardinality(Members(i) \cup {a}) = Cardinality(Members(i)) + 1
    BY <1>2, <1>4, FS_AddElement DEF Accounted
  <2>2. d.count = Cardinality(Members(i)')
    BY <1>c, <1>3, <1>4, <1>8, <1>10, <2>1 DEF Exact
  <2>3. \A b \in Members(i) :
           /\ alert[b].fingerprint = c.fingerprint
           /\ alert[b].receivedAt \in c.first .. c.last
           /\ Rank(alert[b].severity) <= Rank(c.severity)
           /\ alert[b].receivedAt \in Int
           /\ alert[b].severity \in Severities
    <3>1. \A b \in Alerts : alert[b].receivedAt \in Int /\ alert[b].severity \in Severities
      BY CorrelationConstants DEF IInv, TypeOK, AlertRows
    <3> QED  BY <1>c, <1>3, <1>4, <1>5, <3>1 DEF Exact
  <2>4. /\ Rank(c.severity) <= Rank(d.severity) /\ Rank(r.severity) <= Rank(d.severity)
        /\ Rank(c.severity) \in Nat /\ Rank(d.severity) \in Nat /\ d.severity \in {c.severity, r.severity}
    BY <1>2, <1>6, <1>8, SeverityFacts
  <2>5. d.first <= c.first /\ c.last <= d.last /\ r.receivedAt \in d.first .. d.last
        /\ d.first \in Int /\ d.last \in Int
    <3>1. c.first <= c.last
      <4>1. \E b \in Members(i) : alert[b].receivedAt = c.first
        BY <1>c, <1>3, <1>4 DEF Exact
      <4> QED  BY <1>3, <2>3, <4>1
    <3> QED  BY <1>2, <1>3, <1>8, <3>1
  <2>6. \A b \in Members(i)' :
           /\ alert[b].fingerprint = d.fingerprint
           /\ alert[b].receivedAt \in d.first .. d.last
           /\ Rank(alert[b].severity) <= Rank(d.severity)
    <3> SUFFICES ASSUME NEW b \in Members(i) \cup {a}
                 PROVE  /\ alert[b].fingerprint = d.fingerprint
                        /\ alert[b].receivedAt \in d.first .. d.last
                        /\ Rank(alert[b].severity) <= Rank(d.severity)
      BY <1>10
    <3>1. CASE b = a
      BY <1>r, <1>3, <1>8, <2>4, <2>5, <3>1
    <3>2. CASE b \in Members(i)
      <4>1. Rank(alert[b].severity) \in Nat
        BY <2>3, <3>2, SeverityFacts
      <4> QED  BY <1>3, <1>8, <2>3, <2>4, <2>5, <3>2, <4>1
    <3> QED  BY <3>1, <3>2
  <2>7. /\ \E b \in Members(i) : alert[b].receivedAt = c.first
        /\ \E b \in Members(i) : alert[b].receivedAt = c.last
        /\ \E b \in Members(i) : alert[b].severity = c.severity
    BY <1>c, <1>3, <1>4 DEF Exact
  <2>8. d.first \in {c.first, r.receivedAt} /\ d.last \in {c.last, r.receivedAt}
    BY <1>8
  <2>9. /\ \E b \in Members(i)' : alert[b].receivedAt = d.first
        /\ \E b \in Members(i)' : alert[b].receivedAt = d.last
        /\ \E b \in Members(i)' : alert[b].severity = d.severity
    BY <1>r, <1>10, <2>4, <2>7, <2>8
  <2> QED  BY <1>1, <1>9, <2>2, <2>6, <2>9 DEF Exact
<1>18. Covered(i)'
  <2> SUFFICES ASSUME NEW t \in (d.first + 1) .. d.last
               PROVE  \E b \in Members(i) \cup {a} :
                          alert[b].receivedAt < t /\ t <= alert[b].receivedAt + Window
    BY <1>1, <1>9, <1>10 DEF Covered
  <2>0. t \in Int /\ d.first < t /\ t <= d.last /\ Window \in Int
    BY <1>2, <1>3, <1>8, CorrelationConstants
  <2>1. CASE t \in (c.first + 1) .. c.last
    BY <1>c, <1>3, <1>4, <2>1 DEF Covered
  <2>2. CASE t <= c.first
    <3>1. r.receivedAt < t /\ t <= r.receivedAt + Window
      BY <1>2, <1>3, <1>8, <2>0, <2>2
    <3> QED  BY <1>r, <3>1
  <2>3. CASE t > c.last
    <3>1. PICK b \in Members(i) : alert[b].receivedAt = c.last
      BY <1>c, <1>3, <1>4 DEF Exact
    <3>2. alert[b].receivedAt < t /\ t <= alert[b].receivedAt + Window
      BY <1>2, <1>3, <1>8, <2>0, <2>3, <3>1
    <3> QED  BY <3>2
  <2> QED  BY <1>3, <2>0, <2>1, <2>2, <2>3
<1>19. Accounted(i)'
  <2>1. IsFiniteSet(Members(i) \cup {a})
    BY <1>4, FS_AddElement DEF Accounted
  <2> QED  BY <1>1, <1>3, <1>4, <1>8, <1>9, <1>10, <2>1 DEF Accounted
<1>20. \A j \in Ids : Exact(j)' /\ Covered(j)' /\ Accounted(j)'
  <2> SUFFICES ASSUME NEW j \in Ids, j # i PROVE Exact(j)' /\ Covered(j)' /\ Accounted(j)'
    BY <1>17, <1>18, <1>19
  <2>1. inbox \subseteq inbox' /\ Exact(j) /\ Covered(j) /\ Accounted(j)
    BY <1>1, Parts DEF IInv
  <2> QED  BY <1>1, <1>9, <1>10, <2>1, Untouched
<1>21. \A j, k \in Ids : Apart(j, k)'
  <2> SUFFICES ASSUME NEW j \in Ids, NEW k \in Ids PROVE Apart(j, k)'
    OBVIOUS
  <2>1. \A l \in Ids : /\ Members(l) \subseteq Members(l)'
                       /\ incident'[l].fingerprint = incident[l].fingerprint
                       /\ incident'[l].status = incident[l].status
    BY <1>c, <1>8, <1>9, <1>10
  <2>2. Apart(j, k)
    BY Parts DEF IInv
  <2> QED  BY <1>1, <2>1, <2>2, StayApart
<1>22. ViewInv'
  <2> SUFFICES ASSUME NEW o \in Operators, NEW k, k = view[o].id, k # None
               PROVE  /\ incident'[k].status # "absent"
                      /\ view[o].row.version <= incident'[k].version
                      /\ view[o].row.version = incident'[k].version =>
                            view[o].row = incident'[k]
    BY <1>1 DEF ViewInv
  <2>1. /\ k \in Ids /\ view[o].row.version \in Nat
        /\ incident[k].status # "absent"
        /\ view[o].row.version <= incident[k].version
        /\ view[o].row.version = incident[k].version => view[o].row = incident[k]
    BY DEF IInv, TypeOK, Views, Incidents, ViewInv
  <2>2. CASE k = i
    BY <1>c, <1>3, <1>8, <1>9, <2>1, <2>2
  <2>3. CASE k # i
    BY <1>9, <2>1, <2>3
  <2> QED  BY <2>2, <2>3
<1> QED  BY <1>13, <1>14, <1>15, <1>16, <1>20, <1>21, <1>22, NextParts DEF IInv

\* The transaction of an operator.
LEMMA TransitionIncidentKeeps ==
    ASSUME IInv, NEW o \in Operators, NEW i \in Ids, NEW to \in IncidentStatuses,
           NEW checked \in BOOLEAN, TransitionIncident(o, i, to, checked)
    PROVE  IInv'
<1>c. PICK c : c = incident[i]
  OBVIOUS
<1>k. PICK kind : kind = IF to = "acknowledged" THEN "incident_acknowledged"
                                                ELSE "incident_resolved"
  OBVIOUS
<1>1. /\ c \in Incidents /\ c.version \in Nat /\ c.count \in Nat
      /\ c.status \in {"open", "acknowledged"}
      /\ to \in {"acknowledged", "resolved"}
  BY <1>c DEF IInv, TypeOK, Incidents, TransitionIncident, CanTransition
<1>d. PICK d : d = MovedTo(c, to)
  OBVIOUS
<1>2. /\ d \in Incidents
      /\ d.status = to /\ d.version = c.version + 1
      /\ d.fingerprint = c.fingerprint /\ d.severity = c.severity /\ d.count = c.count
      /\ d.first = c.first /\ d.last = c.last
  <2>1. c.version + 1 \in Nat /\ to \in IncidentStatuses \cup {"absent"}
    BY <1>1
  <2>2. d = [c EXCEPT !.status = to, !.version = c.version + 1]
    BY <1>d DEF MovedTo
  <2>3. d \in Incidents
    BY <1>1, <2>1, <2>2 DEF Incidents
  <2> QED  BY <1>1, <2>1, <2>2, <2>3 DEF Incidents
<1>3. /\ incident' = [incident EXCEPT ![i] = d]
      /\ alert' = alert /\ inbox' = inbox /\ tx' = tx /\ view' = view
      /\ \A w \in Workers : tx[w].id # i
  BY <1>c, <1>d DEF TransitionIncident, RowFree
<1>4. /\ incident'[i] = d
      /\ \A j \in Ids : j # i => incident'[j] = incident[j]
      /\ incident' \in [Ids -> Incidents]
  BY <1>2, <1>3 DEF IInv, TypeOK
<1>5. AppendEntry(i, kind, None, d.version)
  BY <1>k, <1>4 DEF TransitionIncident
<1>6. /\ timeline' \in [Ids -> Seq(Entries)]
      /\ \A j \in Ids : Members(j)' = Members(j)
  <2>1. kind \in AlertKinds \cup StatusKinds /\ d.version \in Nat
    BY <1>k, <1>1, <1>2 DEF StatusKinds
  <2>2. /\ timeline' \in [Ids -> Seq(Entries)]
        /\ Members(i)' = Members(i) \cup ({None} \ {None})
        /\ \A j \in Ids : j # i => Members(j)' = Members(j)
    BY <1>5, <2>1, AppendMembers DEF IInv, TypeOK
  <2> QED  BY <2>2
<1>7. TypeOK'
  <2>1. escalation' \in [Ids -> EscalationRows]
    <3>1. escalation[i] \in EscalationRows
      BY DEF IInv, TypeOK
    <3>2. escalation' = [escalation EXCEPT ![i].status =
                           IF @ = "pending" THEN "cancelled" ELSE @]
      BY DEF TransitionIncident
    <3> QED  BY <3>1, <3>2 DEF IInv, TypeOK, EscalationRows
  <2>2. \A j \in Ids : incident'[j].status # "absent" => incident'[j].count > 0
    <3>1. \A j \in Ids : incident[j].status # "absent" => incident[j].count > 0
      BY DEF IInv, TypeOK
    <3> QED  BY <1>c, <1>1, <1>2, <1>4, <3>1
  <2> QED  BY <1>3, <1>4, <1>6, <2>1, <2>2 DEF IInv, TypeOK
<1>8. TxInv' /\ LockInv'
  BY <1>3 DEF IInv, TxInv, LockInv
<1>9. SearchInv'
  <2> SUFFICES ASSUME NEW v \in Workers, NEW b, NEW k, tx[v].phase = "found",
                      b = tx[v].alert, k = tx[v].id
               PROVE  /\ k # None => tx[v].row = incident'[k] /\ Matches(k, b)'
                      /\ k = None => \A j \in Ids : ~Matches(j, b)'
    BY <1>3 DEF SearchInv, Matches
  <2>1. \A j \in Ids : j # i => (Matches(j, b)' <=> Matches(j, b))
    BY <1>3, <1>4 DEF Matches
  <2>2. Matches(i, b)' => Matches(i, b)
    BY <1>c, <1>1, <1>2, <1>3, <1>4 DEF Matches
  <2>3. CASE k # None
    <3>1. k \in Ids /\ tx[v].row = incident[k] /\ Matches(k, b) /\ k # i
      BY <1>3, <2>3, FoundTypes
    <3> QED  BY <1>4, <2>1, <2>3, <3>1
  <2>4. CASE k = None
    <3>1. \A j \in Ids : ~Matches(j, b)
      BY <2>4, FoundTypes
    <3> QED  BY <2>1, <2>2, <2>4, <3>1
  <2> QED  BY <2>3, <2>4
<1>10. \A j \in Ids : Exact(j)' /\ Covered(j)' /\ Accounted(j)'
  <2> SUFFICES ASSUME NEW j \in Ids PROVE Exact(j)' /\ Covered(j)' /\ Accounted(j)'
    OBVIOUS
  <2>1. Exact(j) /\ Covered(j) /\ Accounted(j)
    BY Parts DEF IInv
  <2>2. CASE j # i
    BY <1>3, <1>4, <1>6, <2>1, <2>2, Untouched
  <2>3. CASE j = i
    <3>1. Exact(i)'
      BY <1>c, <1>1, <1>2, <1>3, <1>4, <1>6, <2>1, <2>3 DEF Exact
    <3>2. Covered(i)'
      BY <1>c, <1>1, <1>2, <1>3, <1>4, <1>6, <2>1, <2>3 DEF Covered
    <3>3. Accounted(i)'
      BY <1>1, <1>2, <1>3, <1>4, <1>6, <2>1, <2>3 DEF Accounted
    <3> QED  BY <2>3, <3>1, <3>2, <3>3
  <2> QED  BY <2>2, <2>3
<1>11. \A j, k \in Ids : Apart(j, k)'
  <2> SUFFICES ASSUME NEW j \in Ids, NEW k \in Ids PROVE Apart(j, k)'
    OBVIOUS
  <2>1. \A l \in Ids : /\ Members(l) \subseteq Members(l)'
                       /\ incident'[l].fingerprint = incident[l].fingerprint
                       /\ incident'[l].status \in {"open", "acknowledged"} =>
                              incident[l].status \in {"open", "acknowledged"}
    BY <1>c, <1>1, <1>2, <1>4, <1>6
  <2>2. Apart(j, k)
    BY Parts DEF IInv
  <2> QED  BY <1>3, <2>1, <2>2, StayApart
<1>12. ViewInv'
  <2> SUFFICES ASSUME NEW p \in Operators, NEW k, k = view[p].id, k # None
               PROVE  /\ incident'[k].status # "absent"
                      /\ view[p].row.version <= incident'[k].version
                      /\ view[p].row.version = incident'[k].version =>
                            view[p].row = incident'[k]
    BY <1>3 DEF ViewInv
  <2>1. /\ k \in Ids /\ view[p].row.version \in Nat
        /\ incident[k].status # "absent"
        /\ view[p].row.version <= incident[k].version
        /\ view[p].row.version = incident[k].version => view[p].row = incident[k]
    BY DEF IInv, TypeOK, Views, Incidents, ViewInv
  <2>2. CASE k = i
    BY <1>c, <1>1, <1>2, <1>4, <2>1, <2>2
  <2>3. CASE k # i
    BY <1>4, <2>1, <2>3
  <2> QED  BY <2>2, <2>3
<1> QED  BY <1>7, <1>8, <1>9, <1>10, <1>11, <1>12, NextParts DEF IInv

\* The invariant holds initially: there are no incidents and no transactions.
LEMMA InitKeeps == Init => IInv
<1> SUFFICES ASSUME Init PROVE IInv
  OBVIOUS
<1>1. /\ \A i \in Ids : incident[i].status = "absent" /\ timeline[i] = <<>>
      /\ \A w \in Workers : tx[w].phase = "idle" /\ tx[w].alert = None /\ tx[w].id = None
      /\ \A o \in Operators : view[o].id = None
  BY DEF Init, AbsentIncident, NoTransaction
<1>2. \A i \in Ids : Members(i) = {}
  BY <1>1 DEF Members
<1>3. TypeOK
  BY InitTypes
<1>4. TxInv /\ LockInv /\ SearchInv
  BY <1>1 DEF TxInv, LockInv, SearchInv, Holding
<1>5. MemberInv
  BY <1>2, FS_EmptySet DEF MemberInv
<1>6. AggregatesAreExact /\ WindowInv /\ NoNeedlessSplit
  BY <1>1 DEF AggregatesAreExact, WindowInv, NoNeedlessSplit
<1>7. ViewInv
  BY <1>1 DEF ViewInv
<1> QED  BY <1>3, <1>4, <1>5, <1>6, <1>7 DEF IInv

\* A step that changes nothing keeps the invariant.
LEMMA StutterKeeps ==
    ASSUME IInv, UNCHANGED vars
    PROVE  IInv'
<1> USE DEF vars
<1>1. tx' \in [Workers -> Transactions] /\ TxInv' /\ LockInv'
  BY DEF IInv, TypeOK, TxInv, LockInv
<1>2. SearchInv'
  BY DEF IInv, SearchInv, Matches
<1> QED  BY <1>1, <1>2, TransactionStep

-----------------------------------------------------------------------------
(***************************************************************************)
(* Theorems.                                                               *)
(***************************************************************************)

\* Every behaviour of correlators and operators keeps the inductive invariant:
\* among others, what a correlation found is still so when it commits
\* (SearchInv), because of its three locks.
THEOREM Invariance == Spec => []IInv
<1>1. IInv /\ [Next]_vars => IInv'
  <2> SUFFICES ASSUME IInv, [Next]_vars PROVE IInv'
    OBVIOUS
  <2>1. CASE \E w \in Workers, a \in Alerts : RecordInbox(w, a)
    BY <2>1, RecordInboxKeeps
  <2>2. CASE \E w \in Workers : LockFingerprint(w)
    BY <2>2, LockFingerprintKeeps
  <2>3. CASE \E w \in Workers : FindIncident(w)
    BY <2>3, FindIncidentKeeps
  <2>4. CASE \E w \in Workers : CommitOpened(w)
    BY <2>4, CommitOpenedKeeps
  <2>5. CASE \E w \in Workers : CommitJoined(w)
    BY <2>5, CommitJoinedKeeps
  <2>6. CASE \E w \in Workers : Rollback(w)
    BY <2>6, RollbackKeeps
  <2>7. CASE \E o \in Operators, i \in Ids : GetIncident(o, i)
    BY <2>7, GetIncidentKeeps
  <2>8. CASE \E o \in Operators, i \in Ids, to \in IncidentStatuses, checked \in BOOLEAN :
                TransitionIncident(o, i, to, checked)
    BY <2>8, TransitionIncidentKeeps
  <2>9. CASE UNCHANGED vars
    BY <2>9, StutterKeeps
  <2> QED
    BY <2>1, <2>2, <2>3, <2>4, <2>5, <2>6, <2>7, <2>8, <2>9 DEF Next
<1> QED
  BY <1>1, InitKeeps, PTL DEF Spec

\* The tables keep their types and the check occurrence_count > 0.
THEOREM TypeCorrect == Spec => []TypeOK
<1>1. IInv => TypeOK
  BY DEF IInv
<1> QED  BY <1>1, Invariance, PTL

\* The count, times and severity of an incident are those of the alerts that
\* CorrelateAlert added to it, in any order and by any number of correlators.
THEOREM Exactness == Spec => []AggregatesAreExact
<1>1. IInv => AggregatesAreExact
  BY DEF IInv
<1> QED  BY <1>1, Invariance, PTL

\* The alerts of an incident follow each other within the correlation window.
THEOREM WindowChain == Spec => []NoGapBeyondWindow
<1>1. ASSUME IInv PROVE NoGapBeyondWindow
  <2> SUFFICES ASSUME NEW i \in Ids, NEW a \in Members(i),
                      alert[a].receivedAt # incident[i].first
               PROVE  \E b \in Members(i) : /\ alert[b].receivedAt < alert[a].receivedAt
                                            /\ Distance(a, b) <= Window
    BY DEF NoGapBeyondWindow
  <2>1. incident[i].status # "absent"
    BY <1>1 DEF IInv, MemberInv
  <2>2. /\ alert[a].receivedAt \in incident[i].first .. incident[i].last
        /\ incident[i].first \in Int /\ incident[i].last \in Int
    BY <1>1, <2>1 DEF IInv, AggregatesAreExact, TypeOK, Incidents
  <2>3. alert[a].receivedAt \in (incident[i].first + 1) .. incident[i].last
    BY <2>2
  <2>4. PICK b \in Members(i) : /\ alert[b].receivedAt < alert[a].receivedAt
                                /\ alert[a].receivedAt <= alert[b].receivedAt + Window
    BY <1>1, <2>1, <2>3 DEF IInv, WindowInv
  <2>5. alert[b].receivedAt \in Int /\ alert[a].receivedAt \in Int
    BY <1>1, <2>1, <2>2 DEF IInv, AggregatesAreExact
  <2>6. Distance(a, b) <= Window
    BY <2>4, <2>5, CorrelationConstants DEF Distance
  <2> QED  BY <2>4, <2>6
<1> QED  BY <1>1, Invariance, PTL

\* Correlators that work at once do not open two incidents for alerts that
\* belong together: the advisory lock of the fingerprint does its job.
THEOREM StormIsOne == Spec => []NoNeedlessSplit
<1>1. IInv => NoNeedlessSplit
  BY DEF IInv
<1> QED  BY <1>1, Invariance, PTL

\* expected_version is enough for TransitionIncident to detect every change
\* since the operator's last read.
THEOREM VersionTrust == Spec => []VersionVouchesForState
<1>1. ASSUME IInv PROVE VersionVouchesForState
  BY <1>1, CorrelationConstants DEF IInv, ViewInv, VersionVouchesForState
<1> QED  BY <1>1, Invariance, PTL

\* No step of a correlator or an operator changes a resolved incident, its
\* timeline or its escalations.
THEOREM Final == Spec => ResolvedIsFinal
<1>1. ASSUME IInv, [Next]_vars, NEW i \in Ids, incident[i].status = "resolved"
      PROVE  /\ incident'[i] = incident[i]
             /\ timeline'[i] = timeline[i]
             /\ escalation'[i] = escalation[i]
  <2> USE <1>1
  <2>0. incident \in [Ids -> Incidents] /\ timeline \in [Ids -> Seq(Entries)]
        /\ escalation \in [Ids -> EscalationRows]
    BY DEF IInv, TypeOK
  <2>1. CASE \E w \in Workers : CommitOpened(w)
    <3>1. PICK w \in Workers, j \in Ids :
             /\ incident[j].status = "absent"
             /\ incident' = [incident EXCEPT ![j] = Opened(alert[tx[w].alert])]
             /\ escalation' = [escalation EXCEPT ![j] =
                   [status |-> "pending", from |-> alert[tx[w].alert].receivedAt,
                    severity |-> alert[tx[w].alert].severity]]
             /\ AppendEntry(j, "incident_opened", tx[w].alert, 1)
      BY <2>1 DEF CommitOpened
    <3>2. j # i
      BY <3>1
    <3> QED  BY <2>0, <3>1, <3>2 DEF AppendEntry
  <2>2. CASE \E w \in Workers : CommitJoined(w)
    <3>1. PICK w \in Workers : CommitJoined(w)
      BY <2>2
    <3>2. tx[w].phase = "found" /\ tx[w].id # None
      BY <3>1 DEF CommitJoined
    <3>3. tx[w].id # i
      BY <3>2, FoundTypes DEF Matches
    <3> QED  BY <2>0, <3>1, <3>3 DEF CommitJoined, AppendEntry
  <2>3. CASE \E o \in Operators, j \in Ids, to \in IncidentStatuses, checked \in BOOLEAN :
                TransitionIncident(o, j, to, checked)
    <3>1. PICK o \in Operators, j \in Ids, to \in IncidentStatuses, checked \in BOOLEAN :
                TransitionIncident(o, j, to, checked)
      BY <2>3
    <3>2. j # i
      BY <3>1 DEF TransitionIncident, CanTransition
    <3> QED  BY <2>0, <3>1, <3>2 DEF TransitionIncident, AppendEntry
  <2>4. CASE UNCHANGED <<incident, timeline, escalation>>
    BY <2>4
  <2> QED
    BY <2>1, <2>2, <2>3, <2>4
       DEF Next, vars, RecordInbox, LockFingerprint, FindIncident, Rollback, GetIncident
<1>2. ASSUME IInv, [Next]_vars
      PROVE  [\A i \in Ids : incident[i].status = "resolved" =>
                 /\ incident'[i] = incident[i]
                 /\ timeline'[i] = timeline[i]
                 /\ escalation'[i] = escalation[i]]_vars
  BY <1>1, <1>2
<1> QED  BY <1>2, Invariance, PTL DEF Spec, ResolvedIsFinal

-----------------------------------------------------------------------------
(***************************************************************************)
(* What a step does to the tables, for the arguments about the timeline    *)
(* and for the refinement.                                                 *)
(***************************************************************************)

\* A row of incidents is written together with one more entry of its timeline.
Writes(i, row, entry) ==
    /\ incident' = [incident EXCEPT ![i] = row]
    /\ timeline' = [timeline EXCEPT ![i] = Append(@, entry)]

\* Alert a, not correlated before, opens incident i ...
Opens(i, a) ==
    /\ a \in Alerts \ inbox
    /\ inbox' = inbox \cup {a}
    /\ alert' = alert
    /\ incident[i].status = "absent"
    /\ \A j \in Ids : ~Matches(j, a)
    /\ Writes(i, Opened(alert[a]), [kind |-> "incident_opened", alert |-> a, number |-> 1])

\* ... or joins the incident i it matches.
Joins(i, a) ==
    /\ a \in Alerts \ inbox
    /\ inbox' = inbox \cup {a}
    /\ alert' = alert
    /\ Matches(i, a)
    /\ Writes(i, Joined(incident[i], incident[i], alert[a]),
              [kind |-> "alert_correlated", alert |-> a, number |-> incident[i].count + 1])

\* An operator moves incident i to another status.
Moves(i, to) ==
    /\ inbox' = inbox
    /\ alert' = alert
    /\ CanTransition(incident[i].status, to)
    /\ Writes(i, MovedTo(incident[i], to),
              [kind   |-> IF to = "acknowledged" THEN "incident_acknowledged"
                                                 ELSE "incident_resolved",
               alert  |-> None,
               number |-> incident[i].version + 1])

\* The commit of an alert that matched no incident.
LEMMA CommitOpenedEffect ==
    ASSUME IInv, NEW w \in Workers, CommitOpened(w)
    PROVE  \E i \in Ids : Opens(i, tx[w].alert)
<1>1. PICK i \in Ids :
         /\ incident[i].status = "absent"
         /\ incident' = [incident EXCEPT ![i] = Opened(alert[tx[w].alert])]
         /\ AppendEntry(i, "incident_opened", tx[w].alert, 1)
  BY DEF CommitOpened
<1>2. /\ tx[w].phase = "found" /\ tx[w].id = None
      /\ inbox' = inbox \cup {tx[w].alert} /\ alert' = alert
  BY DEF CommitOpened
<1>3. Opens(i, tx[w].alert)
  BY <1>1, <1>2, FoundTypes DEF Opens, Writes, AppendEntry
<1> QED  BY <1>3

\* The commit of an alert that matched one: the row it writes is computed from
\* the row as it is at the commit.
LEMMA CommitJoinedEffect ==
    ASSUME IInv, NEW w \in Workers, CommitJoined(w)
    PROVE  tx[w].id \in Ids /\ Joins(tx[w].id, tx[w].alert)
<1>1. /\ tx[w].phase = "found" /\ tx[w].id # None
      /\ inbox' = inbox \cup {tx[w].alert} /\ alert' = alert
      /\ incident' = [incident EXCEPT ![tx[w].id] =
                        Joined(incident[tx[w].id], tx[w].row, alert[tx[w].alert])]
      /\ AppendEntry(tx[w].id, "alert_correlated", tx[w].alert, tx[w].row.count + 1)
  BY DEF CommitJoined
<1> QED  BY <1>1, FoundTypes DEF Joins, Writes, AppendEntry

\* The transaction of an operator.
LEMMA TransitionEffect ==
    ASSUME IInv, NEW o \in Operators, NEW i \in Ids, NEW to \in IncidentStatuses,
           NEW checked \in BOOLEAN, TransitionIncident(o, i, to, checked)
    PROVE  Moves(i, to)
<1>1. incident' = [incident EXCEPT ![i] = MovedTo(incident[i], to)]
  BY DEF TransitionIncident
<1>2. incident'[i].version = incident[i].version + 1
  <2>1. incident \in [Ids -> Incidents] /\ incident[i] \in Incidents
    BY DEF IInv, TypeOK
  <2>2. incident'[i] = MovedTo(incident[i], to)
    BY <1>1, <2>1
  <2> QED  BY <2>1, <2>2 DEF MovedTo, Incidents
<1> QED  BY <1>1, <1>2 DEF TransitionIncident, Moves, Writes, AppendEntry

\* These are the steps that write to incidents and their timelines; every other
\* step leaves both and the inbox alone.
LEMMA StepEffect ==
    ASSUME IInv, [Next]_vars
    PROVE  \/ UNCHANGED <<alert, inbox, incident, timeline>>
           \/ \E i \in Ids, a \in Alerts : Opens(i, a) \/ Joins(i, a)
           \/ \E i \in Ids, to \in IncidentStatuses : Moves(i, to)
<1>1. CASE \E w \in Workers : CommitOpened(w)
  BY <1>1, CommitOpenedEffect DEF Opens
<1>2. CASE \E w \in Workers : CommitJoined(w)
  BY <1>2, CommitJoinedEffect DEF Joins
<1>3. CASE \E o \in Operators, i \in Ids, to \in IncidentStatuses, checked \in BOOLEAN :
              TransitionIncident(o, i, to, checked)
  BY <1>3, TransitionEffect
<1>4. CASE UNCHANGED <<alert, inbox, incident, timeline>>
  BY <1>4
<1> QED
  BY <1>1, <1>2, <1>3, <1>4
     DEF Next, vars, RecordInbox, LockFingerprint, FindIncident, Rollback, GetIncident

\* What one write leaves in the row and in the timeline.
LEMMA WriteFacts ==
    ASSUME TypeOK, NEW i \in Ids, NEW row, NEW entry \in Entries, Writes(i, row, entry)
    PROVE  /\ incident'[i] = row
           /\ timeline[i] \in Seq(Entries)
           /\ Len(timeline[i]) \in Nat
           /\ Len(timeline'[i]) = Len(timeline[i]) + 1
           /\ timeline'[i][Len(timeline[i]) + 1] = entry
           /\ \A k \in 1 .. Len(timeline[i]) : timeline'[i][k] = timeline[i][k]
           /\ \A j \in Ids : j # i => incident'[j] = incident[j] /\ timeline'[j] = timeline[j]
<1>1. timeline[i] \in Seq(Entries) /\ timeline \in [Ids -> Seq(Entries)]
      /\ incident \in [Ids -> Incidents]
  BY DEF TypeOK
<1>2. timeline'[i] = Append(timeline[i], entry)
  BY <1>1 DEF Writes
<1>3. \A j \in Ids : j # i => incident'[j] = incident[j] /\ timeline'[j] = timeline[j]
  BY <1>1 DEF Writes
<1>4. incident'[i] = row
  BY <1>1 DEF Writes
<1>5. /\ Len(Append(timeline[i], entry)) = Len(timeline[i]) + 1
      /\ Append(timeline[i], entry)[Len(timeline[i]) + 1] = entry
      /\ \A k \in 1 .. Len(timeline[i]) : Append(timeline[i], entry)[k] = timeline[i][k]
      /\ Len(timeline[i]) \in Nat
  BY <1>1
<1> QED  BY <1>1, <1>2, <1>3, <1>4, <1>5

-----------------------------------------------------------------------------
(***************************************************************************)
(* The timeline names each correlated alert once.                          *)
(***************************************************************************)

\* The places of an alert in the timelines, as AlertCountedOnce counts them.
Places(a) ==
    UNION {{i} \X {k \in 1 .. Len(timeline[i]) : timeline[i][k].alert = a} : i \in Ids}

\* A place is an incident and a position in its timeline.
LEMMA PlacesAre ==
    ASSUME NEW a, NEW p
    PROVE  p \in Places(a) <=> \E i \in Ids : \E k \in 1 .. Len(timeline[i]) :
                                  p = <<i, k>> /\ timeline[i][k].alert = a
BY DEF Places

\* The same in the next state.
LEMMA NextPlacesAre ==
    ASSUME NEW a, NEW p
    PROVE  p \in Places(a)' <=> \E i \in Ids : \E k \in 1 .. Len(timeline'[i]) :
                                   p = <<i, k>> /\ timeline'[i][k].alert = a
BY DEF Places

\* A new entry adds one place to its alert's and none to any other's.
LEMMA WritePlaces ==
    ASSUME TypeOK, NEW i \in Ids, NEW row, NEW entry \in Entries, Writes(i, row, entry)
    PROVE  /\ Places(entry.alert)' = Places(entry.alert) \cup {<<i, Len(timeline[i]) + 1>>}
           /\ \A b : b # entry.alert => Places(b)' = Places(b)
<1> DEFINE n == Len(timeline[i])
<1>1. /\ n \in Nat
      /\ Len(timeline'[i]) = n + 1
      /\ timeline'[i][n + 1] = entry
      /\ \A k \in 1 .. n : timeline'[i][k] = timeline[i][k]
      /\ \A j \in Ids : j # i => timeline'[j] = timeline[j]
  BY WriteFacts
<1> HIDE DEF n
<1>2. 1 .. n + 1 = (1 .. n) \cup {n + 1}
  BY <1>1
<1>3. ASSUME NEW b, NEW p
      PROVE  p \in Places(b)' <=> p \in Places(b) \/ (b = entry.alert /\ p = <<i, n + 1>>)
  <2>1. ASSUME p \in Places(b)'
        PROVE  p \in Places(b) \/ (b = entry.alert /\ p = <<i, n + 1>>)
    <3>0. PICK j \in Ids : \E k \in 1 .. Len(timeline'[j]) :
             p = <<j, k>> /\ timeline'[j][k].alert = b
      BY <2>1, NextPlacesAre
    <3>1. PICK k \in 1 .. Len(timeline'[j]) : p = <<j, k>> /\ timeline'[j][k].alert = b
      BY <3>0
    <3>2. CASE j = i /\ k = n + 1
      BY <1>1, <3>1, <3>2
    <3>3. CASE j = i /\ k # n + 1
      <4>1. k \in 1 .. n /\ timeline[i][k].alert = b
        BY <1>1, <1>2, <3>1, <3>3
      <4> QED  BY <3>1, <3>3, <4>1, PlacesAre DEF n
    <3>4. CASE j # i
      <4>1. timeline'[j] = timeline[j]
        BY <1>1, <3>4
      <4> QED  BY <3>1, <4>1, PlacesAre
    <3> QED  BY <3>2, <3>3, <3>4
  <2>2. ASSUME p \in Places(b)
        PROVE  p \in Places(b)'
    <3>0. PICK j \in Ids : \E k \in 1 .. Len(timeline[j]) :
             p = <<j, k>> /\ timeline[j][k].alert = b
      BY <2>2, PlacesAre
    <3>1. PICK k \in 1 .. Len(timeline[j]) : p = <<j, k>> /\ timeline[j][k].alert = b
      BY <3>0
    <3>2. k \in 1 .. Len(timeline'[j]) /\ timeline'[j][k].alert = b
      BY <1>1, <1>2, <3>1 DEF n
    <3> QED  BY <3>1, <3>2, NextPlacesAre
  <2>3. ASSUME b = entry.alert, p = <<i, n + 1>>
        PROVE  p \in Places(b)'
    <3>1. n + 1 \in 1 .. Len(timeline'[i]) /\ timeline'[i][n + 1].alert = b
      BY <1>1, <2>3
    <3> QED  BY <2>3, <3>1, NextPlacesAre
  <2> QED  BY <2>1, <2>2, <2>3
<1>4. Places(entry.alert)' = Places(entry.alert) \cup {<<i, n + 1>>}
  BY <1>3
<1>5. \A b : b # entry.alert => Places(b)' = Places(b)
  BY <1>3
<1> QED  BY <1>4, <1>5 DEF n

\* AlertCountedOnce, with a witness instead of a cardinality.
CountInv ==
    \A a \in Alerts : IF a \in inbox THEN \E p : Places(a) = {p} ELSE Places(a) = {}

\* An alert that CorrelateAlert committed is in the timeline of one incident,
\* once, and any other in none, whatever was redelivered or handled by two
\* correlators at the same time.
THEOREM CountedOnce == Spec => []AlertCountedOnce
<1>1. Init => CountInv
  <2> SUFFICES ASSUME Init, NEW a \in Alerts PROVE a \notin inbox /\ Places(a) = {}
    BY DEF CountInv
  <2>1. inbox = {} /\ \A i \in Ids : timeline[i] = <<>>
    BY DEF Init
  <2>2. \A p : p \notin Places(a)
    BY <2>1, PlacesAre
  <2> QED  BY <2>1, <2>2
<1>2. ASSUME IInv, CountInv, [Next]_vars PROVE CountInv'
  <2>1. CASE UNCHANGED <<alert, inbox, incident, timeline>>
    <3>1. \A a : Places(a)' = Places(a)
      BY <2>1 DEF Places
    <3> QED  BY <1>2, <2>1, <3>1 DEF CountInv
  <2>2. CASE \E i \in Ids, a \in Alerts : Opens(i, a) \/ Joins(i, a)
    <3>1. PICK i \in Ids, a \in Alerts : Opens(i, a) \/ Joins(i, a)
      BY <2>2
    <3>2. PICK entry \in Entries : entry.alert = a /\ \E row : Writes(i, row, entry)
      <4>1. CASE Opens(i, a)
        <5> DEFINE e == [kind |-> "incident_opened", alert |-> a, number |-> 1]
        <5>1. e \in Entries /\ e.alert = a
          BY DEF Entries, AlertKinds
        <5> QED  BY <4>1, <5>1 DEF Opens
      <4>2. CASE Joins(i, a)
        <5>1. incident[i].count \in Nat
          BY <1>2 DEF IInv, TypeOK, Incidents
        <5> DEFINE e == [kind |-> "alert_correlated", alert |-> a,
                         number |-> incident[i].count + 1]
        <5>2. e \in Entries /\ e.alert = a
          BY <5>1 DEF Entries, AlertKinds
        <5> QED  BY <4>2, <5>2 DEF Joins
      <4> QED  BY <3>1, <4>1, <4>2
    <3>3. a \notin inbox /\ inbox' = inbox \cup {a}
      BY <3>1 DEF Opens, Joins
    <3>4. /\ Places(a)' = Places(a) \cup {<<i, Len(timeline[i]) + 1>>}
          /\ \A b : b # a => Places(b)' = Places(b)
      BY <1>2, <3>2, WritePlaces DEF IInv
    <3>5. Places(a) = {}
      BY <1>2, <3>3 DEF CountInv
    <3>6. Places(a)' = {<<i, Len(timeline[i]) + 1>>}
      BY <3>4, <3>5
    <3>7. ASSUME NEW b \in Alerts
          PROVE  IF b \in inbox' THEN \E p : Places(b)' = {p} ELSE Places(b)' = {}
      <4>1. CASE b = a
        BY <3>3, <3>6, <4>1
      <4>2. CASE b # a
        BY <1>2, <3>3, <3>4, <4>2 DEF CountInv
      <4> QED  BY <4>1, <4>2
    <3> QED  BY <3>7 DEF CountInv
  <2>3. CASE \E i \in Ids, to \in IncidentStatuses : Moves(i, to)
    <3>1. PICK i \in Ids, to \in IncidentStatuses : Moves(i, to)
      BY <2>3
    <3>2. PICK entry \in Entries : entry.alert = None /\ \E row : Writes(i, row, entry)
      <4>1. incident[i].version \in Nat
        BY <1>2 DEF IInv, TypeOK, Incidents
      <4>2. PICK kind \in StatusKinds :
               kind = IF to = "acknowledged" THEN "incident_acknowledged" ELSE "incident_resolved"
        BY DEF StatusKinds
      <4> DEFINE e == [kind |-> kind, alert |-> None, number |-> incident[i].version + 1]
      <4>3. e \in Entries /\ e.alert = None
        BY <4>1 DEF Entries
      <4> QED  BY <3>1, <4>2, <4>3 DEF Moves
    <3>3. \A b \in Alerts : Places(b)' = Places(b)
      BY <1>2, <3>2, WritePlaces, CorrelationConstants DEF IInv
    <3>4. inbox' = inbox
      BY <3>1 DEF Moves
    <3> QED  BY <1>2, <3>3, <3>4 DEF CountInv
  <2> QED  BY <1>2, <2>1, <2>2, <2>3, StepEffect
<1>3. ASSUME CountInv PROVE AlertCountedOnce
  <2> SUFFICES ASSUME NEW a \in Alerts
               PROVE  IF a \in inbox THEN Cardinality(Places(a)) = 1 ELSE Places(a) = {}
    BY DEF AlertCountedOnce, Places
  <2> QED  BY <1>3, FS_Singleton DEF CountInv
<1> QED  BY <1>1, <1>2, <1>3, Invariance, PTL DEF Spec

-----------------------------------------------------------------------------
(***************************************************************************)
(* Every version of an incident has its timeline entry.                    *)
(***************************************************************************)

\* The entries among the first k that stand for an alert.
Occurrences(t, k) == {l \in 1 .. k : t[l].kind \in AlertKinds}

\* HistoryIsComplete for one incident, with what makes it inductive: the count
\* of the incident is the number of its entries for alerts.
Recorded(i) ==
    /\ incident[i].status = "absent" <=> Len(timeline[i]) = 0
    /\ incident[i].version = Len(timeline[i])
    /\ incident[i].count = Cardinality(Occurrences(timeline[i], Len(timeline[i])))
    /\ \A k \in 1 .. Len(timeline[i]) :
          /\ timeline[i][k].kind = "incident_opened" <=> k = 1
          /\ timeline[i][k].number =
                IF timeline[i][k].kind \in StatusKinds
                THEN k
                ELSE Cardinality(Occurrences(timeline[i], k))

HistoryInv == \A i \in Ids : Recorded(i)

\* The entries for alerts of a timeline that got one more entry.
LEMMA OccurrencesGrow ==
    ASSUME NEW n \in Nat, NEW s, NEW t,
           \A k \in 1 .. n : t[k] = s[k]
    PROVE  /\ \A k \in 1 .. n : Occurrences(t, k) = Occurrences(s, k)
           /\ IsFiniteSet(Occurrences(s, n))
           /\ Cardinality(Occurrences(s, n)) \in Nat
           /\ Cardinality(Occurrences(t, n + 1)) =
                 IF t[n + 1].kind \in AlertKinds
                 THEN Cardinality(Occurrences(s, n)) + 1
                 ELSE Cardinality(Occurrences(s, n))
<1>1. ASSUME NEW k \in 1 .. n
      PROVE  Occurrences(t, k) = Occurrences(s, k)
  <2>1. 1 .. k \subseteq 1 .. n
    OBVIOUS
  <2> QED  BY <2>1 DEF Occurrences
<1>2. IsFiniteSet(1 .. n)
  BY FS_Interval
<1>3. IsFiniteSet(Occurrences(s, n))
  BY <1>2, FS_Subset DEF Occurrences
<1>4. Cardinality(Occurrences(s, n)) \in Nat
  BY <1>3, FS_CardinalityType
<1>5. 1 .. n + 1 = (1 .. n) \cup {n + 1}
  OBVIOUS
<1>6. CASE t[n + 1].kind \in AlertKinds
  <2>1. Occurrences(t, n + 1) = Occurrences(s, n) \cup {n + 1}
    BY <1>5, <1>6 DEF Occurrences
  <2>2. n + 1 \notin Occurrences(s, n)
    BY DEF Occurrences
  <2> QED  BY <1>1, <1>3, <1>4, <1>6, <2>1, <2>2, FS_AddElement
<1>7. CASE t[n + 1].kind \notin AlertKinds
  <2>1. Occurrences(t, n + 1) = Occurrences(s, n)
    BY <1>5, <1>7 DEF Occurrences
  <2> QED  BY <1>1, <1>3, <1>4, <1>7, <2>1
<1> QED  BY <1>6, <1>7

\* The timeline entry of a write is the one its row calls for: its version is
\* one more, its count is one more if the entry is for an alert, and the entry
\* carries the number it should.
LEMMA WriteRecorded ==
    ASSUME TypeOK, NEW i \in Ids, Recorded(i), NEW row, NEW entry \in Entries,
           Writes(i, row, entry),
           row.status # "absent",
           row.version = incident[i].version + 1,
           row.count = IF entry.kind \in AlertKinds THEN incident[i].count + 1
                                                    ELSE incident[i].count,
           entry.kind = "incident_opened" <=> incident[i].status = "absent",
           entry.number = IF entry.kind \in StatusKinds THEN row.version ELSE row.count
    PROVE  Recorded(i)'
<1>n. PICK n : n = Len(timeline[i])
  OBVIOUS
<1>s. PICK s : s = timeline[i]
  OBVIOUS
<1>t. PICK t : t = timeline'[i]
  OBVIOUS
<1>1. /\ n \in Nat /\ Len(t) = n + 1 /\ t[n + 1] = entry
      /\ \A k \in 1 .. n : t[k] = s[k]
      /\ incident'[i] = row
  BY <1>n, <1>s, <1>t, WriteFacts
<1>2. /\ incident[i].status = "absent" <=> n = 0
      /\ incident[i].version = n
      /\ incident[i].count = Cardinality(Occurrences(s, n))
      /\ \A k \in 1 .. n :
            /\ s[k].kind = "incident_opened" <=> k = 1
            /\ s[k].number = IF s[k].kind \in StatusKinds THEN k
                             ELSE Cardinality(Occurrences(s, k))
  BY <1>n, <1>s DEF Recorded
<1>3. /\ \A k \in 1 .. n : Occurrences(t, k) = Occurrences(s, k)
      /\ Cardinality(Occurrences(s, n)) \in Nat
      /\ Cardinality(Occurrences(t, n + 1)) =
            IF entry.kind \in AlertKinds THEN Cardinality(Occurrences(s, n)) + 1
            ELSE Cardinality(Occurrences(s, n))
  BY <1>1, OccurrencesGrow
<1>4. row.version = n + 1 /\ row.count = Cardinality(Occurrences(t, n + 1))
  BY <1>2, <1>3
<1>5. ASSUME NEW k \in 1 .. n + 1
      PROVE  /\ t[k].kind = "incident_opened" <=> k = 1
             /\ t[k].number = IF t[k].kind \in StatusKinds THEN k
                              ELSE Cardinality(Occurrences(t, k))
  <2>1. CASE k = n + 1
    BY <1>1, <1>2, <1>4, <2>1
  <2>2. CASE k # n + 1
    <3>1. k \in 1 .. n
      BY <1>1, <2>2
    <3> QED  BY <1>1, <1>2, <1>3, <3>1
  <2> QED  BY <2>1, <2>2
<1>6. row.status = "absent" <=> n + 1 = 0
  BY <1>1
<1> QED  BY <1>t, <1>1, <1>4, <1>5, <1>6 DEF Recorded

\* An incident keeps its record where nothing is written.
LEMMA UnwrittenRecorded ==
    ASSUME NEW i \in Ids, Recorded(i), incident'[i] = incident[i], timeline'[i] = timeline[i]
    PROVE  Recorded(i)'
BY DEF Recorded

\* The timeline of an incident has one entry per version, in order, each with
\* the count or the version of its moment: no commit of CorrelateAlert or
\* TransitionIncident is overwritten by a concurrent one.
THEOREM CompleteHistory == Spec => []HistoryIsComplete
<1>1. Init => HistoryInv
  <2> SUFFICES ASSUME Init, NEW i \in Ids PROVE Recorded(i)
    BY DEF HistoryInv
  <2>1. /\ timeline[i] = <<>>
        /\ incident[i].status = "absent" /\ incident[i].version = 0 /\ incident[i].count = 0
    BY DEF Init, AbsentIncident
  <2>2. Len(timeline[i]) = 0 /\ 1 .. 0 = {}
    BY <2>1
  <2>3. Occurrences(timeline[i], 0) = {}
    BY <2>2 DEF Occurrences
  <2> QED  BY <2>1, <2>2, <2>3, FS_EmptySet DEF Recorded
<1>2. ASSUME IInv, HistoryInv, [Next]_vars PROVE HistoryInv'
  <2>0. TypeOK /\ \A i \in Ids : incident[i] \in Incidents /\ Recorded(i)
    BY <1>2 DEF IInv, TypeOK, HistoryInv
  <2>1. CASE UNCHANGED <<alert, inbox, incident, timeline>>
    BY <2>0, <2>1, UnwrittenRecorded DEF HistoryInv
  <2>2. ASSUME NEW i \in Ids, NEW row, NEW entry, Writes(i, row, entry), entry \in Entries,
               Recorded(i)'
        PROVE  HistoryInv'
    <3>1. \A j \in Ids : j # i => incident'[j] = incident[j] /\ timeline'[j] = timeline[j]
      BY <2>0, <2>2, WriteFacts
    <3> QED  BY <2>0, <2>2, <3>1, UnwrittenRecorded DEF HistoryInv
  <2>3. CASE \E i \in Ids, a \in Alerts : Opens(i, a)
    <3>1. PICK i \in Ids, a \in Alerts : Opens(i, a)
      BY <2>3
    <3> DEFINE e == [kind |-> "incident_opened", alert |-> a, number |-> 1]
               d == Opened(alert[a])
    <3>2. Writes(i, d, e) /\ incident[i].status = "absent"
      BY <3>1 DEF Opens
    <3>3. /\ e \in Entries /\ e.kind = "incident_opened" /\ e.number = 1
          /\ e.kind \in AlertKinds /\ e.kind \notin StatusKinds
      BY DEF Entries, AlertKinds, StatusKinds
    <3>4. d.status = "open" /\ d.version = 1 /\ d.count = 1
      BY DEF Opened
    <3>5. incident[i].version = 0 /\ incident[i].count = 0
      <4>1. Len(timeline[i]) = 0 /\ 1 .. 0 = {}
        BY <2>0, <3>2 DEF Recorded
      <4>2. Occurrences(timeline[i], 0) = {}
        BY <4>1 DEF Occurrences
      <4> QED  BY <2>0, <4>1, <4>2, FS_EmptySet DEF Recorded
    <3> HIDE DEF e, d
    <3>6. Recorded(i)'
      BY <2>0, <3>2, <3>3, <3>4, <3>5, WriteRecorded
    <3> QED  BY <2>2, <3>2, <3>3, <3>6
  <2>4. CASE \E i \in Ids, a \in Alerts : Joins(i, a)
    <3>1. PICK i \in Ids, a \in Alerts : Joins(i, a)
      BY <2>4
    <3> DEFINE e == [kind |-> "alert_correlated", alert |-> a, number |-> incident[i].count + 1]
               d == Joined(incident[i], incident[i], alert[a])
    <3>2. Writes(i, d, e) /\ incident[i].status # "absent"
      BY <3>1 DEF Joins, Matches
    <3>3. /\ e \in Entries /\ e.kind = "alert_correlated" /\ e.number = incident[i].count + 1
          /\ e.kind \in AlertKinds /\ e.kind \notin StatusKinds
      BY <2>0 DEF Entries, AlertKinds, StatusKinds, Incidents
    <3>4. /\ d.status = incident[i].status /\ d.version = incident[i].version + 1
          /\ d.count = incident[i].count + 1
      BY <2>0 DEF Joined, Incidents
    <3> HIDE DEF e, d
    <3>5. Recorded(i)'
      BY <2>0, <3>2, <3>3, <3>4, WriteRecorded
    <3> QED  BY <2>2, <3>2, <3>3, <3>5
  <2>5. CASE \E i \in Ids, to \in IncidentStatuses : Moves(i, to)
    <3>1. PICK i \in Ids, to \in IncidentStatuses : Moves(i, to)
      BY <2>5
    <3>2. PICK kind \in StatusKinds :
             kind = IF to = "acknowledged" THEN "incident_acknowledged" ELSE "incident_resolved"
      BY DEF StatusKinds
    <3> DEFINE e == [kind |-> kind, alert |-> None, number |-> incident[i].version + 1]
               d == MovedTo(incident[i], to)
    <3>3. Writes(i, d, e) /\ incident[i].status # "absent"
      BY <3>1, <3>2 DEF Moves, CanTransition
    <3>4. /\ e \in Entries /\ e.kind = kind /\ e.number = incident[i].version + 1
          /\ kind \notin AlertKinds /\ kind # "incident_opened"
      BY <2>0, <3>2 DEF Entries, AlertKinds, StatusKinds, Incidents
    <3>5. /\ d.status = to /\ to # "absent" /\ d.version = incident[i].version + 1
          /\ d.count = incident[i].count
      BY <2>0 DEF MovedTo, Incidents, IncidentStatuses
    <3> HIDE DEF e, d
    <3>6. Recorded(i)'
      BY <2>0, <3>2, <3>3, <3>4, <3>5, WriteRecorded
    <3> QED  BY <2>2, <3>3, <3>4, <3>6
  <2> QED  BY <1>2, <2>1, <2>3, <2>4, <2>5, StepEffect
<1>3. ASSUME HistoryInv PROVE HistoryIsComplete
  BY <1>3 DEF HistoryInv, Recorded, Occurrences, HistoryIsComplete
<1> QED  BY <1>1, <1>2, <1>3, Invariance, PTL DEF Spec

-----------------------------------------------------------------------------
(***************************************************************************)
(* Correlation implements CorrelationContract.                             *)
(***************************************************************************)

\* The incident a search found is still the most recent one that matches when
\* its transaction commits.
LatestInv ==
    \A w \in Workers :
        tx[w].phase = "found" /\ tx[w].id # None => Latest(tx[w].id, tx[w].alert)

\* An incident stays the most recent match while it does not change and no
\* other incident begins to match or changes its last time.
LEMMA StaysLatest ==
    ASSUME NEW k \in Ids, NEW a, Latest(k, a), alert' = alert, incident'[k] = incident[k],
           \A j \in Ids : Matches(j, a)' =>
               Matches(j, a) /\ incident'[j].last = incident[j].last
    PROVE  Latest(k, a)'
<1>1. Matches(k, a)'
  BY DEF Latest, Matches
<1> QED  BY <1>1 DEF Latest

\* A commit of another correlation does not change what a search found: the
\* other one holds another fingerprint.
LEMMA OtherCommit ==
    ASSUME IInv, NEW v \in Workers, NEW w \in Workers, v # w, NEW i \in Ids,
           tx[v].phase = "found", tx[w].phase = "found",
           NEW k \in Ids, NEW a, a = tx[v].alert, Latest(k, a), alert' = alert,
           \A j \in Ids : j # i => incident'[j] = incident[j],
           incident'[i].fingerprint = alert[tx[w].alert].fingerprint,
           incident[i].status = "absent" \/ Matches(i, tx[w].alert)
    PROVE  Latest(k, a)'
<1>1. alert[a].fingerprint # alert[tx[w].alert].fingerprint
  BY DEF IInv, LockInv, Holding
<1>2. ~Matches(i, a)' /\ ~Matches(i, a)
  BY <1>1 DEF Matches
<1>3. k # i
  BY <1>2 DEF Latest
<1>4. \A j \in Ids : Matches(j, a)' => Matches(j, a) /\ incident'[j].last = incident[j].last
  <2> SUFFICES ASSUME NEW j \in Ids, j # i, Matches(j, a)'
               PROVE  Matches(j, a) /\ incident'[j].last = incident[j].last
    BY <1>2
  <2>1. incident'[j] = incident[j]
    OBVIOUS
  <2> QED  BY <2>1 DEF Matches
<1> QED  BY <1>3, <1>4, StaysLatest

\* What a correlation found is the most recent match until it commits.
LEMMA LatestKept == Spec => []LatestInv
<1>1. Init => LatestInv
  BY DEF Init, LatestInv, NoTransaction
<1>2. ASSUME IInv, LatestInv, [Next]_vars PROVE LatestInv'
  <2> SUFFICES ASSUME NEW v \in Workers, tx'[v].phase = "found",
                      NEW k, k = tx'[v].id, k # None, NEW a, a = tx'[v].alert
               PROVE  Latest(k, a)'
    BY DEF LatestInv, Latest, Matches
  <2>0. tx \in [Workers -> Transactions] /\ incident \in [Ids -> Incidents]
        /\ tx[v] \in Transactions
    BY <1>2 DEF IInv, TypeOK
  <2>1. CASE UNCHANGED <<alert, incident>> /\ tx'[v] = tx[v]
    <3>1. Latest(k, a)
      BY <1>2, <2>1 DEF LatestInv
    <3> QED  BY <2>1, <3>1 DEF Latest, Matches
  <2>2. CASE FindIncident(v)
    <3>1. UNCHANGED <<alert, incident>>
      BY <2>2 DEF FindIncident
    <3>2. tx[v].phase = "locked" /\ tx[v].id = None
      BY <1>2, <2>2 DEF IInv, TxInv, FindIncident
    <3>3. CASE \E i \in Ids :
                  /\ Latest(i, tx[v].alert)
                  /\ tx' = [tx EXCEPT ![v].phase = "found", ![v].id = i, ![v].row = incident[i]]
      <4>1. PICK i \in Ids :
                  /\ Latest(i, tx[v].alert)
                  /\ tx' = [tx EXCEPT ![v].phase = "found", ![v].id = i, ![v].row = incident[i]]
        BY <3>3
      <4>2. tx'[v].id = i /\ tx'[v].alert = tx[v].alert
        BY <2>0, <4>1 DEF Transactions
      <4> QED  BY <3>1, <4>1, <4>2 DEF Latest, Matches
    <3>4. CASE tx' = [tx EXCEPT ![v].phase = "found"]
      <4>1. tx'[v].id = None
        BY <2>0, <3>2, <3>4 DEF Transactions
      <4> QED  BY <4>1
    <3> QED  BY <2>2, <3>3, <3>4 DEF FindIncident
  <2>3. CASE \E w \in Workers : \/ RecordInbox(w, tx'[w].alert) \/ LockFingerprint(w)
                               \/ FindIncident(w) \/ Rollback(w)
    <3>1. PICK w \in Workers : \/ RecordInbox(w, tx'[w].alert) \/ LockFingerprint(w)
                               \/ FindIncident(w) \/ Rollback(w)
      BY <2>3
    <3>2. UNCHANGED <<alert, incident>>
      BY <3>1 DEF RecordInbox, LockFingerprint, FindIncident, Rollback
    <3>3. CASE v # w
      <4>1. tx'[v] = tx[v]
        BY <2>0, <3>1, <3>3 DEF RecordInbox, LockFingerprint, FindIncident, Rollback
      <4> QED  BY <2>1, <3>2, <4>1
    <3>4. CASE v = w
      <4>1. ~RecordInbox(w, tx'[w].alert) /\ ~LockFingerprint(w) /\ ~Rollback(w)
        BY <2>0, <3>4 DEF RecordInbox, LockFingerprint, Rollback, NoTransaction, Transactions
      <4> QED  BY <2>2, <3>1, <3>4, <4>1
    <3> QED  BY <3>3, <3>4
  <2>4. CASE \E w \in Workers : CommitOpened(w)
    <3>0. PICK w \in Workers : CommitOpened(w)
      BY <2>4
    <3>1. PICK i \in Ids : CommitOpened(w) /\ Opens(i, tx[w].alert)
      BY <1>2, <3>0, CommitOpenedEffect
    <3>2. tx[w].phase = "found" /\ tx' = [tx EXCEPT ![w] = NoTransaction] /\ alert' = alert
      BY <3>1 DEF CommitOpened
    <3>3. v # w /\ tx'[v] = tx[v]
      BY <2>0, <3>2 DEF NoTransaction
    <3>4. /\ incident[i].status = "absent"
          /\ incident'[i].fingerprint = alert[tx[w].alert].fingerprint
          /\ \A j \in Ids : j # i => incident'[j] = incident[j]
      BY <2>0, <3>1 DEF Opens, Writes, Opened
    <3>5. Latest(k, a) /\ k \in Ids
      BY <1>2, <2>0, <3>3 DEF LatestInv, Transactions
    <3> QED  BY <1>2, <3>2, <3>3, <3>4, <3>5, OtherCommit
  <2>5. CASE \E w \in Workers : CommitJoined(w)
    <3>0. PICK w \in Workers : CommitJoined(w)
      BY <2>5
    <3>1. PICK i \in Ids : CommitJoined(w) /\ i = tx[w].id /\ Joins(i, tx[w].alert)
      BY <1>2, <3>0, CommitJoinedEffect
    <3>2. tx[w].phase = "found" /\ tx' = [tx EXCEPT ![w] = NoTransaction] /\ alert' = alert
      BY <3>1 DEF CommitJoined
    <3>3. v # w /\ tx'[v] = tx[v]
      BY <2>0, <3>2 DEF NoTransaction
    <3>4. incident[i] \in Incidents /\ Matches(i, tx[w].alert)
      BY <2>0, <3>1 DEF Joins
    <3>5. /\ incident'[i].fingerprint = alert[tx[w].alert].fingerprint
          /\ \A j \in Ids : j # i => incident'[j] = incident[j]
      <4>1. incident'[i] = Joined(incident[i], incident[i], alert[tx[w].alert])
            /\ \A j \in Ids : j # i => incident'[j] = incident[j]
        BY <2>0, <3>1 DEF Joins, Writes
      <4>2. incident'[i].fingerprint = incident[i].fingerprint
        BY <3>4, <4>1 DEF Joined, Incidents
      <4> QED  BY <3>4, <4>1, <4>2 DEF Matches
    <3>6. Latest(k, a) /\ k \in Ids
      BY <1>2, <2>0, <3>3 DEF LatestInv, Transactions
    <3> QED  BY <1>2, <3>2, <3>3, <3>4, <3>5, <3>6, OtherCommit
  <2>6. CASE \E o \in Operators, i \in Ids, to \in IncidentStatuses, checked \in BOOLEAN :
                TransitionIncident(o, i, to, checked)
    <3>1. PICK i \in Ids, to \in IncidentStatuses : RowFree(i) /\ tx' = tx /\ Moves(i, to)
      BY <1>2, <2>6, TransitionEffect DEF TransitionIncident
    <3>2. /\ tx[v].id # i /\ tx'[v] = tx[v] /\ alert' = alert
          /\ CanTransition(incident[i].status, to)
          /\ incident'[i] = MovedTo(incident[i], to)
          /\ \A j \in Ids : j # i => incident'[j] = incident[j]
      BY <2>0, <3>1 DEF RowFree, Moves, Writes
    <3>3. /\ incident[i] \in Incidents
          /\ incident'[i].fingerprint = incident[i].fingerprint
          /\ incident'[i].last = incident[i].last /\ incident'[i].first = incident[i].first
          /\ incident[i].status \notin {"absent", "resolved"}
      BY <2>0, <3>2 DEF MovedTo, Incidents, CanTransition
    <3>4. ASSUME NEW j \in Ids, Matches(j, a)'
          PROVE  Matches(j, a) /\ incident'[j].last = incident[j].last
      BY <3>2, <3>3, <3>4 DEF Matches
    <3>5. Latest(k, a) /\ k \in Ids
      BY <1>2, <2>0, <3>2 DEF LatestInv, Transactions
    <3>6. incident'[k] = incident[k]
      BY <3>2, <3>5
    <3> QED  BY <3>2, <3>4, <3>5, <3>6, StaysLatest
  <2>7. CASE UNCHANGED <<alert, incident, tx>>
    BY <2>1, <2>7
  <2>8. \A w \in Workers, b \in Alerts : RecordInbox(w, b) => RecordInbox(w, tx'[w].alert)
    BY <2>0 DEF RecordInbox, Transactions
  <2> QED
    BY <1>2, <2>3, <2>4, <2>5, <2>6, <2>7, <2>8 DEF Next, vars, GetIncident
<1> QED  BY <1>1, <1>2, Invariance, PTL DEF Spec

\* The columns of an incident stand for its alerts: an alert belongs to the
\* incidents, in the words of the contract, that the WHERE clause of the search
\* selects.
LEMMA BelongsIsMatches ==
    ASSUME IInv, NEW a \in Alerts, NEW i \in Ids
    PROVE  Contract!Belongs(a, i) <=> Matches(i, a)
<1> DEFINE at(b) == alert[b].receivedAt
<1>1. Members(i) \subseteq Alerts
  BY MembersAreAlerts DEF IInv
<1>2. \A b \in Alerts : at(b) \in Int
  BY CorrelationConstants DEF IInv, TypeOK, AlertRows
<1>3. /\ incident[i].status \in IncidentStatuses \cup {"absent"}
      /\ incident[i].first \in Int /\ incident[i].last \in Int /\ Window \in Int
  BY CorrelationConstants DEF IInv, TypeOK, Incidents
<1>4. Exact(i)
  BY Parts DEF IInv
<1>5. Contract!Belongs(a, i) <=>
         /\ incident[i].status \in {"open", "acknowledged"}
         /\ \E m \in Members(i) : alert[m].fingerprint = alert[a].fingerprint
         /\ \E m \in Members(i) : at(m) >= at(a) - Window
         /\ \E m \in Members(i) : at(m) <= at(a) + Window
  BY DEF Contract!Belongs, Contract!At
<1>6. ASSUME incident[i].status \in {"open", "acknowledged"}
      PROVE  /\ \A m \in Members(i) : alert[m].fingerprint = incident[i].fingerprint
                                      /\ at(m) >= incident[i].first /\ at(m) <= incident[i].last
             /\ \E m \in Members(i) : at(m) = incident[i].first
             /\ \E m \in Members(i) : at(m) = incident[i].last
  BY <1>3, <1>4, <1>6 DEF Exact
<1>7. ASSUME Matches(i, a) PROVE Contract!Belongs(a, i)
  <2>1. incident[i].status \in {"open", "acknowledged"}
    BY <1>3, <1>7 DEF Matches, IncidentStatuses
  <2> QED  BY <1>5, <1>6, <1>7, <2>1 DEF Matches
<1>8. ASSUME Contract!Belongs(a, i) PROVE Matches(i, a)
  <2>1. incident[i].status \in {"open", "acknowledged"}
    BY <1>5, <1>8
  <2>2. incident[i].fingerprint = alert[a].fingerprint
    BY <1>5, <1>6, <1>8, <2>1
  <2>3. incident[i].last >= at(a) - Window
    <3>1. PICK m \in Members(i) : at(m) >= at(a) - Window
      BY <1>5, <1>8
    <3>2. at(m) \in Int /\ at(a) \in Int /\ at(m) <= incident[i].last
      BY <1>1, <1>2, <1>6, <2>1
    <3> QED  BY <1>3, <3>1, <3>2
  <2>4. incident[i].first <= at(a) + Window
    <3>1. PICK m \in Members(i) : at(m) <= at(a) + Window
      BY <1>5, <1>8
    <3>2. at(m) \in Int /\ at(a) \in Int /\ at(m) >= incident[i].first
      BY <1>1, <1>2, <1>6, <2>1
    <3> QED  BY <1>3, <3>1, <3>2
  <2> QED  BY <2>1, <2>2, <2>3, <2>4 DEF Matches
<1> QED  BY <1>7, <1>8

\* Initially there are no incidents, in the contract either.
LEMMA ContractInit == Init => Contract!Init
<1> SUFFICES ASSUME Init PROVE Contract!Init
  OBVIOUS
<1>1. \A i \in Ids : incident[i].status = "absent" /\ timeline[i] = <<>>
  BY DEF Init, AbsentIncident
<1>2. \A i \in Ids : Members(i) = {}
  BY <1>1 DEF Members
<1> QED  BY <1>1, <1>2 DEF Contract!Init

\* The commit of an alert that opens an incident places the alert.
LEMMA ContractOpens ==
    ASSUME IInv, NEW i \in Ids, NEW a \in Alerts, Opens(i, a)
    PROVE  Contract!Place(a)
<1>1. /\ a \notin inbox /\ alert' = alert
      /\ incident[i].status = "absent"
      /\ \A j \in Ids : ~Matches(j, a)
      /\ incident' = [incident EXCEPT ![i] = Opened(alert[a])]
      /\ AppendEntry(i, "incident_opened", a, 1)
  BY DEF Opens, Writes, AppendEntry
<1>2. /\ Members(i)' = Members(i) \cup {a}
      /\ \A j \in Ids : j # i => Members(j)' = Members(j)
  BY <1>1, AppendMembers, CorrelationConstants DEF IInv, TypeOK, AlertKinds
<1>3. \A j \in Ids : incident'[j].status = IF j = i THEN "open" ELSE incident[j].status
  BY <1>1 DEF IInv, TypeOK, Opened
<1>4. \A j \in Ids : a \notin Members(j)
  BY <1>1 DEF IInv, MemberInv
<1>5. \A j \in Ids : ~Contract!Belongs(a, j)
  BY <1>1, BelongsIsMatches
<1>6. [j \in Ids |-> Members(j)'] = [[j \in Ids |-> Members(j)] EXCEPT ![i] = @ \cup {a}]
  BY <1>2
<1>7. [j \in Ids |-> incident'[j].status] =
          [[j \in Ids |-> incident[j].status] EXCEPT ![i] = "open"]
  BY <1>3
<1> QED  BY <1>1, <1>4, <1>5, <1>6, <1>7 DEF Contract!Place

\* The commit of an alert that joins an incident places it there: no incident
\* it belongs to is more recent.
LEMMA ContractJoins ==
    ASSUME IInv, NEW i \in Ids, NEW a \in Alerts, Joins(i, a), Latest(i, a)
    PROVE  Contract!Place(a)
<1>1. /\ a \notin inbox /\ alert' = alert /\ Matches(i, a)
      /\ incident' = [incident EXCEPT ![i] = Joined(incident[i], incident[i], alert[a])]
      /\ AppendEntry(i, "alert_correlated", a, incident[i].count + 1)
      /\ incident[i] \in Incidents /\ incident[i].count + 1 \in Nat
  BY DEF Joins, Writes, AppendEntry, IInv, TypeOK, Incidents
<1>2. /\ Members(i)' = Members(i) \cup {a}
      /\ \A j \in Ids : j # i => Members(j)' = Members(j)
  BY <1>1, AppendMembers, CorrelationConstants DEF IInv, TypeOK, AlertKinds
<1>3. \A j \in Ids : incident'[j].status = incident[j].status
  <2>1. Joined(incident[i], incident[i], alert[a]).status = incident[i].status
    BY <1>1 DEF Joined, Incidents
  <2> QED  BY <1>1, <2>1 DEF IInv, TypeOK
<1>4. \A j \in Ids : a \notin Members(j)
  BY <1>1 DEF IInv, MemberInv
<1>5. Contract!Belongs(a, i)
  BY <1>1, BelongsIsMatches
<1>6. ASSUME NEW j \in Ids, Contract!Belongs(a, j)
      PROVE  Contract!AsRecent(i, j)
  <2>1. Matches(j, a) /\ incident[j].last <= incident[i].last
    BY <1>6, BelongsIsMatches DEF Latest
  <2>2. /\ incident[i].last \in Int /\ incident[j].last \in Int
        /\ incident[j].first \in Int
    BY DEF IInv, TypeOK, Incidents
  <2>3. PICK m \in Members(i) : alert[m].receivedAt = incident[i].last
    BY <1>1, Parts DEF IInv, Exact, Matches
  <2>4. \A n \in Members(j) : alert[n].receivedAt \in incident[j].first .. incident[j].last
    BY <2>1, Parts DEF IInv, Exact, Matches
  <2>5. \A n \in Members(j) : alert[n].receivedAt <= alert[m].receivedAt
    BY <2>1, <2>2, <2>3, <2>4
  <2> QED  BY <2>5 DEF Contract!AsRecent, Contract!At
<1>7. [j \in Ids |-> Members(j)'] = [[j \in Ids |-> Members(j)] EXCEPT ![i] = @ \cup {a}]
  BY <1>2
<1>8. [j \in Ids |-> incident'[j].status] = [j \in Ids |-> incident[j].status]
  BY <1>3
<1> QED  BY <1>1, <1>4, <1>5, <1>6, <1>7, <1>8 DEF Contract!Place

\* The transaction of an operator is a move of the contract.
LEMMA ContractMoves ==
    ASSUME IInv, NEW i \in Ids, NEW to \in IncidentStatuses, Moves(i, to)
    PROVE  Contract!Move(i, to)
<1>k. PICK kind \in StatusKinds :
         kind = IF to = "acknowledged" THEN "incident_acknowledged" ELSE "incident_resolved"
  BY DEF StatusKinds
<1>1. /\ alert' = alert
      /\ CanTransition(incident[i].status, to)
      /\ incident' = [incident EXCEPT ![i] = MovedTo(incident[i], to)]
      /\ AppendEntry(i, kind, None, incident[i].version + 1)
      /\ incident[i] \in Incidents /\ incident[i].version + 1 \in Nat
  BY <1>k DEF Moves, Writes, AppendEntry, IInv, TypeOK, Incidents
<1>2. \A j \in Ids : Members(j)' = Members(j)
  <2>1. /\ Members(i)' = Members(i) \cup ({None} \ {None})
        /\ \A j \in Ids : j # i => Members(j)' = Members(j)
    BY <1>1, AppendMembers DEF IInv, TypeOK
  <2> QED  BY <2>1
<1>3. \A j \in Ids : incident'[j].status = IF j = i THEN to ELSE incident[j].status
  <2>1. MovedTo(incident[i], to).status = to
    BY <1>1 DEF MovedTo, Incidents
  <2> QED  BY <1>1, <2>1 DEF IInv, TypeOK
<1>4. [j \in Ids |-> Members(j)'] = [j \in Ids |-> Members(j)]
  BY <1>2
<1>5. [j \in Ids |-> incident'[j].status] =
          [[j \in Ids |-> incident[j].status] EXCEPT ![i] = to]
  BY <1>3
<1> QED  BY <1>1, <1>4, <1>5 DEF Contract!Move, Contract!CanTransition, CanTransition

\* CorrelateAlert and TransitionIncident, with their locks, failures and
\* redeliveries, implement a system that places each alert in one step, in the
\* most recent incident it belongs to, and never twice.
THEOREM Refinement == Spec => CorrelationIsAtomic
<1>1. Init => Contract!Init
  BY ContractInit
<1>2. IInv /\ LatestInv /\ [Next]_vars => [Contract!Next]_Contract!contractVars
  <2> SUFFICES ASSUME IInv, LatestInv, [Next]_vars
               PROVE  Contract!Next \/ UNCHANGED Contract!contractVars
    OBVIOUS
  <2>1. CASE \E w \in Workers : CommitOpened(w)
    <3>1. PICK w \in Workers, i \in Ids : Opens(i, tx[w].alert)
      BY <2>1, CommitOpenedEffect
    <3>2. tx[w].alert \in Alerts
      BY <3>1 DEF Opens
    <3> QED  BY <3>1, <3>2, ContractOpens DEF Contract!Next
  <2>2. CASE \E w \in Workers : CommitJoined(w)
    <3>1. PICK w \in Workers : CommitJoined(w)
      BY <2>2
    <3>2. tx[w].id \in Ids /\ Joins(tx[w].id, tx[w].alert)
      BY <3>1, CommitJoinedEffect
    <3>3. tx[w].alert \in Alerts /\ Latest(tx[w].id, tx[w].alert)
      BY <3>1, <3>2 DEF Joins, LatestInv, CommitJoined
    <3> QED  BY <3>2, <3>3, ContractJoins DEF Contract!Next
  <2>3. CASE \E o \in Operators, i \in Ids, to \in IncidentStatuses, checked \in BOOLEAN :
                TransitionIncident(o, i, to, checked)
    <3>1. PICK i \in Ids, to \in IncidentStatuses : Moves(i, to)
      BY <2>3, TransitionEffect
    <3> QED  BY <3>1, ContractMoves DEF Contract!Next, Contract!IncidentStatuses, IncidentStatuses
  <2>4. CASE UNCHANGED <<alert, incident, timeline>>
    BY <2>4 DEF Contract!contractVars, Members
  <2> QED
    BY <2>1, <2>2, <2>3, <2>4
       DEF Next, vars, RecordInbox, LockFingerprint, FindIncident, Rollback, GetIncident
<1> QED
  BY <1>1, <1>2, Invariance, LatestKept, PTL DEF Spec, CorrelationIsAtomic, Contract!Spec
=============================================================================
