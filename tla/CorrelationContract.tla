------------------------ MODULE CorrelationContract -------------------------
(***************************************************************************)
(* What correlation promises, without inbox, locks, transactions or        *)
(* aggregate columns: an incident is a set of alerts with a status, and    *)
(* each alert is placed once, in one step, by looking at all incidents as  *)
(* they are at that moment.                                                *)
(***************************************************************************)
EXTENDS Domain

CONSTANTS Alerts, Ids, Window

VARIABLES
    alert,   \* what each alert says
    status,  \* of each incident
    members  \* the alerts of each incident

contractVars == <<alert, status, members>>

Init ==
    /\ status = [i \in Ids |-> "absent"]
    /\ members = [i \in Ids |-> {}]

At(a) == alert[a].receivedAt

\* Alert a belongs to incident i: it came at most a window before its first or
\* after its last alert.
Belongs(a, i) ==
    /\ status[i] \in {"open", "acknowledged"}
    /\ \E m \in members[i] : alert[m].fingerprint = alert[a].fingerprint
    /\ \E m \in members[i] : At(m) >= At(a) - Window
    /\ \E m \in members[i] : At(m) <= At(a) + Window

\* Incident i has an alert as late as any of incident j.
AsRecent(i, j) == \E m \in members[i] : \A n \in members[j] : At(n) <= At(m)

\* An alert joins the most recent incident it belongs to, or opens one.
Place(a) ==
    /\ \A i \in Ids : a \notin members[i]
    /\ \E i \in Ids :
          /\ members' = [members EXCEPT ![i] = @ \cup {a}]
          /\ \/ /\ Belongs(a, i)
                /\ \A j \in Ids : Belongs(a, j) => AsRecent(i, j)
                /\ UNCHANGED status
             \/ /\ \A j \in Ids : ~Belongs(a, j)
                /\ status[i] = "absent"
                /\ status' = [status EXCEPT ![i] = "open"]
    /\ UNCHANGED alert

\* An operator acknowledges or resolves.
Move(i, to) ==
    /\ CanTransition(status[i], to)
    /\ status' = [status EXCEPT ![i] = to]
    /\ UNCHANGED <<alert, members>>

Next ==
    \/ \E a \in Alerts : Place(a)
    \/ \E i \in Ids, to \in IncidentStatuses : Move(i, to)

Spec == Init /\ [][Next]_contractVars
=============================================================================
