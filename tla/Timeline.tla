------------------------------ MODULE Timeline ------------------------------
(***************************************************************************)
(* The audit trail of incidents and those who read it while it is being    *)
(* written: GET .../timeline, the MCP tools, and the summaries built from  *)
(* it by the deterministic summarizer or by a language model.              *)
(*                                                                         *)
(* A transaction that writes an entry is split where other transactions    *)
(* can come in between: created_at is the time at which it began, the id   *)
(* comes from a sequence when it inserts, and others see the entry when it *)
(* commits.  summarize_incident reads the incident and the timeline in two *)
(* statements.                                                             *)
(***************************************************************************)
EXTENDS Naturals, FiniteSets

CONSTANTS
    Tenants,
    Incidents,
    Owner,           \* the tenant of each incident
    Writers,         \* transactions in progress
    Callers,         \* calls of a reader
    Limit,           \* of Timeline: 200 in the code
    EvidenceWindow,  \* of the deterministic summarizer: 5 in the code
    MaxEntries,      \* bound of the sequence of ids
    MaxTime          \* bound of the clock

ASSUME TimelineConstants ==
    /\ Owner \in [Incidents -> Tenants]
    /\ {Limit, EvidenceWindow} \subseteq Nat \ {0}
    /\ MaxEntries \in Nat
    /\ MaxTime \in Nat

VARIABLES
    clock,
    nextId,   \* the sequence of incident_timeline.id
    version,  \* the column version of each incident; 0: there is no such row
    entries,  \* the committed rows of incident_timeline
    tx,       \* per writer, its transaction
    call      \* per caller, its call

vars == <<clock, nextId, version, entries, tx, call>>

Ids == 1 .. MaxEntries
Times == 0 .. MaxTime

\* Correlations and transitions change the incident; the scheduler does not.
Kinds == {"correlate", "transition", "schedule"}
Changing == {"correlate", "transition"}

\* version is the one the entry's transaction gave the incident, 0 for none.
Entries == [id : Ids, incident : Incidents, at : Times, version : Nat]

Tools == {"get_incident_timeline", "summarize_incident"}

NoTx == [phase |-> "idle", kind |-> "none", incident |-> "none", at |-> 0,
         id |-> 0, version |-> 0]

NoCall == [phase |-> "idle", tool |-> "none", tenant |-> "none", incident |-> "none",
           version |-> 0, timeline |-> {}, evidence |-> {}]

Init ==
    /\ clock = 0
    /\ nextId = 1
    /\ version = [i \in Incidents |-> 0]
    /\ entries = {}
    /\ tx = [w \in Writers |-> NoTx]
    /\ call = [c \in Callers |-> NoCall]

Tick ==
    /\ clock < MaxTime
    /\ clock' = clock + 1
    /\ UNCHANGED <<nextId, version, entries, tx, call>>

-----------------------------------------------------------------------------
(***************************************************************************)
(* The writers: CorrelateAlert, TransitionIncident, CompleteEscalation,    *)
(* FailEscalation and the burials of ClaimEscalations.                     *)
(***************************************************************************)

\* now(), the default of created_at, is the time of BEGIN.
Begin(w, kind, i) ==
    /\ tx[w].phase = "idle"
    /\ nextId \in Ids
    /\ kind # "correlate" => version[i] > 0
    /\ tx' = [tx EXCEPT ![w] = [NoTx EXCEPT !.phase = "begun", !.kind = kind,
                                            !.incident = i, !.at = clock]]
    /\ UNCHANGED <<clock, nextId, version, entries, call>>

\* A transaction has the incident FOR UPDATE, or holds the advisory lock of the
\* fingerprint under which it will be opened.
HoldsUpdate(w, i) ==
    tx[w].incident = i /\ tx[w].kind \in Changing /\ tx[w].phase \in {"locked", "inserted"}

\* The foreign key of a scheduler's entry has the incident FOR KEY SHARE.
HoldsShare(w, i) ==
    tx[w].incident = i /\ tx[w].kind = "schedule" /\ tx[w].phase = "inserted"

\* Faulty variant of LockIsFree: the row is read without FOR UPDATE.
NobodyWaits(i) == TRUE

LockIsFree(i) == \A w \in Writers : ~HoldsUpdate(w, i) /\ ~HoldsShare(w, i)

\* SELECT ... FOR UPDATE, and the version computed from the row.
LockIncident(w) ==
    LET i == tx[w].incident
    IN  /\ tx[w].phase = "begun"
        /\ tx[w].kind \in Changing
        /\ LockIsFree(i)
        /\ tx' = [tx EXCEPT ![w].phase = "locked", ![w].version = version[i] + 1]
        /\ UNCHANGED <<clock, nextId, version, entries, call>>

\* INSERT INTO incident_timeline draws the id.  The scheduler's transactions come
\* here without a lock on the incident, and wait for one with the id in hand.
InsertEntry(w) ==
    /\ tx[w].phase = IF tx[w].kind \in Changing THEN "locked" ELSE "begun"
    /\ nextId \in Ids
    /\ tx' = [tx EXCEPT ![w].phase = IF @ = "locked" THEN "inserted" ELSE "waiting",
                        ![w].id = nextId]
    /\ nextId' = nextId + 1
    /\ UNCHANGED <<clock, version, entries, call>>

\* The foreign key check waits for whoever has the incident FOR UPDATE.
CheckForeignKey(w) ==
    /\ tx[w].phase = "waiting"
    /\ \A o \in Writers : ~HoldsUpdate(o, tx[w].incident)
    /\ tx' = [tx EXCEPT ![w].phase = "inserted"]
    /\ UNCHANGED <<clock, nextId, version, entries, call>>

EntryOf(w) == [id |-> tx[w].id, incident |-> tx[w].incident, at |-> tx[w].at,
               version |-> tx[w].version]

\* COMMIT: the incident and its entry become visible together.
Commit(w) ==
    /\ tx[w].phase = "inserted"
    /\ entries' = entries \cup {EntryOf(w)}
    /\ version' = IF tx[w].kind \in Changing
                  THEN [version EXCEPT ![tx[w].incident] = tx[w].version]
                  ELSE version
    /\ tx' = [tx EXCEPT ![w] = NoTx]
    /\ UNCHANGED <<clock, nextId, call>>

\* Any error, or the end of the process; the id is lost.
Rollback(w) ==
    /\ tx[w].phase # "idle"
    /\ tx' = [tx EXCEPT ![w] = NoTx]
    /\ UNCHANGED <<clock, nextId, version, entries, call>>

-----------------------------------------------------------------------------
(***************************************************************************)
(* The readers.                                                            *)
(***************************************************************************)

\* A request with the API key of a tenant, for any incident.
Ask(c, tool, tenant, i) ==
    /\ call[c].phase = "idle"
    /\ call' = [call EXCEPT ![c] =
                  [NoCall EXCEPT !.tool = tool, !.tenant = tenant, !.incident = i,
                                 !.phase = IF tool = "summarize_incident"
                                           THEN "incident" ELSE "timeline"]]
    /\ UNCHANGED <<clock, nextId, version, entries, tx>>

End(c, phase) == call' = [call EXCEPT ![c].phase = phase]

\* GetIncident finds a row of the tenant or fails with ErrNotFound.
ReadIncident(c) ==
    LET i == call[c].incident
    IN  /\ call[c].phase = "incident"
        /\ IF version[i] > 0 /\ Owner[i] = call[c].tenant
           THEN call' = [call EXCEPT ![c].phase = "timeline", ![c].version = version[i]]
           ELSE End(c, "failed")
        /\ UNCHANGED <<clock, nextId, version, entries, tx>>

\* Faulty variant of Newest: ORDER BY id ASC LIMIT.
Oldest(rows, limit) == {e \in rows : Cardinality({f \in rows : f.id < e.id}) < limit}

\* ORDER BY id DESC LIMIT.  The rows are shown by increasing id: a set will do.
Newest(rows, limit) == {e \in rows : Cardinality({f \in rows : f.id > e.id}) < limit}

RowsOf(tenant, i) == {e \in entries : Owner[e.incident] = tenant /\ e.incident = i}

TimelineFor(c) == Newest(RowsOf(call[c].tenant, call[c].incident), Limit)

ReadTimeline(c) ==
    /\ call[c].phase = "timeline"
    /\ call' = [call EXCEPT ![c].timeline = TimelineFor(c),
                            ![c].phase = IF call[c].tool = "summarize_incident"
                                         THEN "summary" ELSE "answered"]
    /\ UNCHANGED <<clock, nextId, version, entries, tx>>

IdsOf(rows) == {e.id : e \in rows}

\* DeterministicSummarizer.Summarize cites the last events.
SummarizeDeterministically(c) ==
    /\ call[c].phase = "summary"
    /\ call' = [call EXCEPT ![c].phase = "answered",
                            ![c].evidence = IdsOf(Newest(call[c].timeline, EvidenceWindow))]
    /\ UNCHANGED <<clock, nextId, version, entries, tx>>

\* Faulty variant of Acceptable: the model's references are taken as they are.
AnyCitation(cited, timeline) == TRUE

\* The checks of ResponsesSummarizer.Summarize on a decoded summary.
Acceptable(cited, timeline) ==
    /\ timeline # {} => cited # {}
    /\ cited \subseteq IdsOf(timeline)

\* The model answers with a summary that cites any ids whatever.
SummarizeByModel(c, cited) ==
    /\ call[c].phase = "summary"
    /\ call' = IF Acceptable(cited, call[c].timeline)
               THEN [call EXCEPT ![c].phase = "answered", ![c].evidence = cited]
               ELSE [call EXCEPT ![c].phase = "failed"]
    /\ UNCHANGED <<clock, nextId, version, entries, tx>>

\* A refusal, an error of the store, or of the model's API: no connection, no
\* success, not completed, no text, no JSON, an empty summary.
FailCall(c) ==
    /\ call[c].phase \in {"incident", "timeline", "summary"}
    /\ End(c, "failed")
    /\ UNCHANGED <<clock, nextId, version, entries, tx>>

Write(w) ==
    \/ \E kind \in Kinds, i \in Incidents : Begin(w, kind, i)
    \/ LockIncident(w)
    \/ InsertEntry(w)
    \/ CheckForeignKey(w)
    \/ Commit(w)
    \/ Rollback(w)

Read(c) ==
    \/ \E tool \in Tools, tenant \in Tenants, i \in Incidents : Ask(c, tool, tenant, i)
    \/ ReadIncident(c)
    \/ ReadTimeline(c)
    \/ SummarizeDeterministically(c)
    \/ \E cited \in SUBSET Ids : SummarizeByModel(c, cited)
    \/ FailCall(c)

Next == Tick \/ (\E w \in Writers : Write(w)) \/ (\E c \in Callers : Read(c))

Spec == Init /\ [][Next]_vars

-----------------------------------------------------------------------------
(***************************************************************************)
(* Properties.                                                             *)
(***************************************************************************)

\* Every variable has its type, and no two rows share an id.
TypeOK ==
    /\ clock \in Times
    /\ nextId \in 1 .. MaxEntries + 1
    /\ version \in [Incidents -> Nat]
    /\ entries \subseteq Entries
    /\ Cardinality(IdsOf(entries)) = Cardinality(entries)
    /\ \A w \in Writers :
          /\ tx[w].phase \in {"idle", "begun", "locked", "waiting", "inserted"}
          /\ tx[w].id \in 0 .. nextId - 1
    /\ \A c \in Callers :
          /\ call[c].phase \in {"idle", "incident", "timeline", "summary", "answered", "failed"}
          /\ call[c].timeline \subseteq Entries
          /\ Cardinality(call[c].timeline) <= Limit

\* The trail of an incident's changes is in the order in which they happened:
\* each version has one entry, and later versions have greater ids, although ids
\* are drawn before the commit and are given back by nobody.
ChangesAreInOrder ==
    /\ TypeOK
    /\ \A e, f \in entries :
          e.incident = f.incident /\ e.version > 0 /\ f.version > 0 =>
              (e.id < f.id <=> e.version < f.version)
    /\ \A i \in Incidents : \A v \in 1 .. version[i] :
          \E e \in entries : e.incident = i /\ e.version = v

\* A summary rests on evidence: it cites at least one event, and only events of
\* the incident it is about, which belongs to the tenant who asked; whatever a
\* model answers, and whatever is written while the tool is at work.
SummaryIsBacked ==
    \A c \in Callers :
        call[c].tool = "summarize_incident" /\ call[c].phase = "answered" =>
            /\ Owner[call[c].incident] = call[c].tenant
            /\ call[c].evidence # {}
            /\ \A id \in call[c].evidence :
                  \E e \in entries : e.id = id /\ e.incident = call[c].incident

\* The two statements of summarize_incident fit together: every change up to the
\* version of the incident read first is in the timeline read afterwards, or is
\* older than all of a full page.
HistoryCoversState ==
    \A c \in Callers :
        call[c].phase \in {"summary", "answered"} =>
            \A e \in entries :
                /\ e.incident = call[c].incident
                /\ e.version \in 1 .. call[c].version
                => \/ e \in call[c].timeline
                   \/ /\ Cardinality(call[c].timeline) = Limit
                      /\ \A f \in call[c].timeline : e.id < f.id

\* What api/openapi.yaml and the tool's description say of a timeline: it is in
\* chronological order.  The code orders it by id.
TimelineIsChronological ==
    \A c \in Callers : \A e, f \in call[c].timeline :
        e.id < f.id => e.at <= f.at
=============================================================================
