------------------------------ MODULE Listing -------------------------------
(***************************************************************************)
(* GET /v1/incidents and the tool list_incidents: pages by last_seen_at,   *)
(* and a client that goes through all of them, giving the last_seen_at of  *)
(* a page's last incident as `before` of the next, while alerts open and   *)
(* refresh incidents and operators change their status.                    *)
(***************************************************************************)
EXTENDS Domain, FiniteSets

CONSTANTS
    Incidents,
    Limit,     \* incidents per page
    MaxTime,   \* bound of the clock
    MaxTouch,  \* bound: incidents that others work on meanwhile
    None       \* no filter, no cursor

ASSUME ListingConstants ==
    /\ IsFiniteSet(Incidents)
    /\ Limit \in 1 .. 100
    /\ MaxTime \in Nat
    /\ MaxTouch \in Nat
    /\ None \notin IncidentStatuses
    /\ None \notin 0 .. MaxTime

VARIABLES
    clock,
    lastSeen,  \* the column last_seen_at; None: there is no such incident
    status,    \* the column status
    client,    \* the traversal
    touched    \* history: incidents opened, refreshed or changed since it began

listingVars == <<clock, lastSeen, status, client, touched>>

Times == 0 .. MaxTime

\* The incidents at the start of the traversal were seen at any times so far.
ListingInit ==
    /\ clock \in Times
    /\ lastSeen \in [Incidents -> (0 .. clock) \cup {None}]
    /\ status \in [Incidents -> IncidentStatuses]
    /\ \A i \in Incidents : lastSeen[i] = None => status[i] = "open"
    /\ \E filter \in IncidentStatuses \cup {None} :
          client = [filter |-> filter, before |-> None, shown |-> {}, twice |-> {},
                    cut |-> {}, phase |-> "reading"]
    /\ touched = {}

-----------------------------------------------------------------------------
TimePasses ==
    /\ clock < MaxTime
    /\ clock' = clock + 1
    /\ UNCHANGED <<lastSeen, status, client, touched>>

\* CorrelateAlert commits: the incident is opened, or seen again.  The alert was
\* received before now, and last_seen_at never decreases.
Correlate(i, received) ==
    /\ Cardinality(touched \cup {i}) <= MaxTouch
    /\ received <= clock
    /\ \/ lastSeen[i] = None /\ status' = [status EXCEPT ![i] = "open"]
       \/ /\ lastSeen[i] # None /\ status[i] # "resolved"
          /\ received > lastSeen[i]
          /\ UNCHANGED status
    /\ lastSeen' = [lastSeen EXCEPT ![i] = received]
    /\ touched' = touched \cup {i}
    /\ UNCHANGED <<clock, client>>

\* TransitionIncident's SELECT has a row.
IsFound(i) == lastSeen[i] # None

Transition(i, to) ==
    /\ Cardinality(touched \cup {i}) <= MaxTouch
    /\ IsFound(i)
    /\ CanTransition(status[i], to)
    /\ status' = [status EXCEPT ![i] = to]
    /\ touched' = touched \cup {i}
    /\ UNCHANGED <<clock, lastSeen, client>>

-----------------------------------------------------------------------------
\* Faulty variant of IsBefore: the comparison includes the cursor.
IsNotAfter(t, cursor) == cursor # None => t <= cursor

\* last_seen_at < before; without a cursor before is a second from now, and all
\* incidents were seen by now.
IsBefore(t, cursor) == cursor # None => t < cursor

Matching(filter, cursor) ==
    {i \in Incidents :
        /\ lastSeen[i] # None
        /\ IsBefore(lastSeen[i], cursor)
        /\ filter # None => status[i] = filter}

\* Faulty variant of IsPage: the oldest first.
IsPageFromBelow(page, rows) ==
    /\ Cardinality(page) = IF Cardinality(rows) < Limit THEN Cardinality(rows) ELSE Limit
    /\ \A i \in page, j \in rows \ page : lastSeen[i] <= lastSeen[j]

\* ORDER BY last_seen_at DESC LIMIT: of incidents seen at the same time, any.
IsPage(page, rows) ==
    /\ Cardinality(page) = IF Cardinality(rows) < Limit THEN Cardinality(rows) ELSE Limit
    /\ \A i \in page, j \in rows \ page : lastSeen[i] >= lastSeen[j]

\* One request, and what the client makes of the answer: it goes on below the
\* last incident shown, until a page is not full.  cut: incidents left out that
\* were seen at the same time as the page's last.
ReadPage ==
    /\ client.phase = "reading"
    /\ LET rows == Matching(client.filter, client.before)
       IN  \E page \in SUBSET rows :
             /\ IsPage(page, rows)
             /\ client' =
                  IF page = {}
                  THEN [client EXCEPT !.phase = "done"]
                  ELSE LET last == CHOOSE t \in {lastSeen[i] : i \in page} :
                                       \A i \in page : t <= lastSeen[i]
                       IN  [client EXCEPT
                              !.before = last,
                              !.shown = @ \cup page,
                              !.twice = @ \cup (client.shown \cap page),
                              !.cut = @ \cup {i \in rows \ page : lastSeen[i] = last},
                              !.phase = IF Cardinality(page) < Limit THEN "done" ELSE @]
    /\ UNCHANGED <<clock, lastSeen, status, touched>>

ListingNext ==
    \/ TimePasses
    \/ \E i \in Incidents :
          \/ \E received \in Times : Correlate(i, received)
          \/ \E to \in IncidentStatuses : Transition(i, to)
    \/ ReadPage

ListingSpec == ListingInit /\ [][ListingNext]_listingVars /\ WF_listingVars(ReadPage)

-----------------------------------------------------------------------------
(***************************************************************************)
(* Properties.                                                             *)
(***************************************************************************)

\* Every variable has its type, and an incident that is not there has no history.
ListingTypeOK ==
    /\ clock \in Times
    /\ lastSeen \in [Incidents -> Times \cup {None}]
    /\ status \in [Incidents -> IncidentStatuses]
    /\ \A i \in Incidents : lastSeen[i] = None => status[i] = "open"
    /\ client.filter \in IncidentStatuses \cup {None}
    /\ client.before \in Times \cup {None}
    /\ client.shown \subseteq Incidents
    /\ client.phase \in {"reading", "done"}
    /\ touched \subseteq Incidents

\* Nothing is missed: a client that goes through all pages has seen every incident
\* that matched when it began and was left alone meanwhile, however the others
\* moved, unless a page was cut between incidents seen at the same time.
PagesAreComplete ==
    client.phase = "done" =>
        \A i \in Incidents :
            \/ i \in client.shown
            \/ i \in touched
            \/ i \in client.cut
            \/ lastSeen[i] = None
            \/ client.filter \notin {None, status[i]}

\* No incident is shown twice, not even one that is seen again between two pages:
\* it moves to a page the client has left.
NothingTwice == client.twice = {}

\* Going through the pages, before = last_seen_at of the last row of each, shows
\* what there is, once: all of it, and nothing again.
PagesAreExact == ListingTypeOK /\ PagesAreComplete /\ NothingTwice

\* Alerts that keep arriving do not keep the client busy: it comes to an end.
TraversalEnds == <>(client.phase = "done")
=============================================================================
