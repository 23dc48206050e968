----------------------------- MODULE LockOrder ------------------------------
(***************************************************************************)
(* The locks that the transactions of the store wait for, in the order in  *)
(* which their statements take them.                                       *)
(*                                                                         *)
(* TransitionIncident locks an incident and then its escalations.  The     *)
(* scheduler's transactions hold an escalation when the foreign keys of    *)
(* their timeline entry lock the incident.  They can meet in a cycle.  So  *)
(* can seeds: BootstrapTenant holds its tenant's row while it waits in the *)
(* unique index of api_key_hash for seeds of other tenants.                *)
(***************************************************************************)
EXTENDS Integers, Sequences, FiniteSets, SequencesExt

CONSTANTS
    Processes,    \* transactions that may be in progress at the same time
    TenantIds,
    KeyEntries,   \* entries of the unique index of api_key_hash
    Alerts,       \* messages of the correlator that meet at one advisory lock
    IncidentRows,
    EscalationRows,
    TenantOf,     \* the tenant of each alert and incident
    IncidentOf    \* the incident of each escalation

\* Rows of different tables, index entries and an advisory lock are different
\* resources.
ASSUME LockOrderConstants ==
    /\ TenantOf \in [Alerts \cup IncidentRows -> TenantIds]
    /\ IncidentOf \in [EscalationRows -> IncidentRows]
    /\ IsFiniteSet(EscalationRows)
    /\ "advisory" \notin TenantIds \cup KeyEntries \cup Alerts \cup IncidentRows \cup EscalationRows
    /\ TenantIds \cap (KeyEntries \cup Alerts \cup IncidentRows \cup EscalationRows) = {}
    /\ KeyEntries \cap (Alerts \cup IncidentRows \cup EscalationRows) = {}
    /\ Alerts \cap (IncidentRows \cup EscalationRows) = {}
    /\ IncidentRows \cap EscalationRows = {}

VARIABLES
    kind,  \* per process, the transaction it runs, or "idle"
    plan,  \* per process, the locks it has still to take
    held   \* per process, the locks it has

lockVars == <<kind, plan, held>>

Resources ==
    {"advisory"} \cup TenantIds \cup KeyEntries \cup Alerts \cup IncidentRows \cup EscalationRows

\* FOR UPDATE and unique keys exclude everybody; foreign keys take FOR KEY SHARE.
Locks == [on : Resources, mode : {"update", "share"}]

Update(r) == [on |-> r, mode |-> "update"]
Share(r)  == [on |-> r, mode |-> "share"]

Scheduling == {"claim", "result"}
Kinds == {"correlate", "transition", "seed"} \cup Scheduling

LockInit ==
    /\ kind = [p \in Processes |-> "idle"]
    /\ plan = [p \in Processes |-> <<>>]
    /\ held = [p \in Processes |-> {}]

-----------------------------------------------------------------------------
\* The foreign keys of a row of incident_timeline.
TimelineEntry(i) == <<Share(TenantOf[i]), Share(i)>>

\* CorrelateAlert: inbox key, advisory lock, the incident it joins; a new one is
\* seen by nobody else.
CorrelatePlans ==
    {<<Update(a), Update("advisory"), Share(TenantOf[a])>> : a \in Alerts}
    \cup UNION {{<<Update(a), Update("advisory"), Update(i)>> \o TimelineEntry(i) :
                   i \in {j \in IncidentRows : TenantOf[j] = TenantOf[a]}} : a \in Alerts}

\* TransitionIncident: the UPDATE meets the incident's escalations in any order,
\* and only those that are pending or running.
TransitionPlans ==
    UNION {{<<Update(i)>> \o ([n \in DOMAIN s |-> Update(s[n])] \o TimelineEntry(i)) :
              s \in UNION {SetToSeqs(rows) :
                             rows \in SUBSET {e \in EscalationRows : IncidentOf[e] = i}}} :
           i \in IncidentRows}

\* Faulty variant of ResultPlans: the incident is locked before its escalation, as
\* TransitionIncident does.
ResultPlansTopDown ==
    {<<Update(IncidentOf[e]), Update(e)>> \o TimelineEntry(IncidentOf[e]) : e \in EscalationRows}

\* CompleteEscalation and FailEscalation.
ResultPlans == {<<Update(e)>> \o TimelineEntry(IncidentOf[e]) : e \in EscalationRows}

\* BootstrapTenant: the row of the slug, FOR UPDATE because api_key_hash is a key
\* column, and then the entry of a key that the tenant did not have.
SeedPlans ==
    {<<Update(t)>> : t \in TenantIds}
    \cup UNION {{<<Update(t), Update(k)>> : k \in KeyEntries} : t \in TenantIds}

Start(p, k, locks) ==
    /\ kind[p] = "idle"
    /\ kind' = [kind EXCEPT ![p] = k]
    /\ plan' = [plan EXCEPT ![p] = locks]
    /\ UNCHANGED held

Conflict(l, m) == l.on = m.on /\ "update" \in {l.mode, m.mode}

\* Process q has a lock that lock l would have to wait for.
Obstructs(q, l) == \E m \in held[q] : Conflict(l, m)

IsFree(p, l) == \A q \in Processes \ {p} : ~Obstructs(q, l)

\* Faulty variant of ClaimRows: no SKIP LOCKED, rows in any order.
ClaimRowsWaiting(p, rows, buried) ==
    \E s \in SetToSeqs(rows) : Start(p, "claim", [n \in DOMAIN s |-> Update(s[n])])

\* The timeline entries of the escalations in sequence s, one after the other.
TimelineEntries(s) ==
    [n \in 1 .. 2 * Len(s) |-> TimelineEntry(IncidentOf[s[(n + 1) \div 2]])[2 - (n % 2)]]

\* ClaimEscalations: SKIP LOCKED takes only rows that are free, then the foreign
\* keys of the entries for those it buries.
ClaimRows(p, rows, buried) ==
    /\ kind[p] = "idle"
    /\ \A e \in rows : IsFree(p, Update(e))
    /\ kind' = [kind EXCEPT ![p] = "claim"]
    /\ held' = [held EXCEPT ![p] = {Update(e) : e \in rows}]
    /\ \E s \in SetToSeqs(buried) :
          plan' = [plan EXCEPT ![p] = TimelineEntries(s)]

\* With its tenant's row a seed has the index entry of the key that the tenant had,
\* if it is not new: whoever wants that key waits for the seed.
OldEntries(p) ==
    {{}} \cup {{Update(k)} : k \in {k \in KeyEntries :
                                     kind[p] = "seed" /\ Head(plan[p]).on \in TenantIds}}

Acquire(p) ==
    /\ plan[p] # <<>>
    /\ IsFree(p, Head(plan[p]))
    /\ \E old \in OldEntries(p) :
          /\ \A l \in old : IsFree(p, l)
          /\ held' = [held EXCEPT ![p] = @ \cup {Head(plan[p])} \cup old]
    /\ plan' = [plan EXCEPT ![p] = Tail(@)]
    /\ UNCHANGED kind

\* COMMIT or ROLLBACK releases everything.
End(p) ==
    /\ kind' = [kind EXCEPT ![p] = "idle"]
    /\ plan' = [plan EXCEPT ![p] = <<>>]
    /\ held' = [held EXCEPT ![p] = {}]

Commit(p) == kind[p] # "idle" /\ plan[p] = <<>> /\ End(p)

\* An error, such as a deadline, a conflict of versions, a key that another tenant
\* has, or a deadlock that PostgreSQL found: the deferred tx.Rollback.
Rollback(p) == kind[p] # "idle" /\ End(p)

LockNext ==
    \E p \in Processes :
        \/ \E locks \in CorrelatePlans : Start(p, "correlate", locks)
        \/ \E locks \in TransitionPlans : Start(p, "transition", locks)
        \/ \E locks \in ResultPlans : Start(p, "result", locks)
        \/ \E locks \in SeedPlans : Start(p, "seed", locks)
        \/ \E rows \in SUBSET EscalationRows : \E buried \in SUBSET rows : ClaimRows(p, rows, buried)
        \/ Acquire(p)
        \/ Commit(p)
        \/ Rollback(p)

\* A transaction goes on as soon as it can; nothing makes it fail.
Fairness == \A p \in Processes : WF_lockVars(Acquire(p)) /\ WF_lockVars(Commit(p))

LockSpec == LockInit /\ [][LockNext]_lockVars /\ Fairness

-----------------------------------------------------------------------------
(***************************************************************************)
(* Properties.                                                             *)
(***************************************************************************)

\* Every variable has its type, and conflicting locks are never held together.
LockTypeOK ==
    /\ kind \in [Processes -> Kinds \cup {"idle"}]
    /\ plan \in [Processes -> Seq(Locks)]
    /\ held \in [Processes -> SUBSET Locks]
    /\ \A p \in Processes : \A l \in held[p] : IsFree(p, l)

\* Process p waits for process q.
WaitsFor(p, q) == p # q /\ plan[p] # <<>> /\ Obstructs(q, Head(plan[p]))

\* Each of them waits for another of them.
Deadlocked(group) == group # {} /\ \A p \in group : \E q \in group : WaitsFor(p, q)

InCycle(p) ==
    \E group \in SUBSET Processes :
        /\ p \in group
        /\ Deadlocked(group)
        /\ \A smaller \in SUBSET group : Deadlocked(smaller) => smaller = group

\* A transaction of the scheduler has escalations of several incidents.
SpansIncidents(p) ==
    /\ kind[p] = "claim"
    /\ \E e, f \in EscalationRows :
          {Update(e), Update(f)} \subseteq held[p] /\ IncidentOf[e] # IncidentOf[f]

\* The workers never block one another for good: correlators, claims and results
\* alone always get on.  A cycle is one of two kinds.  Operators' transitions wait
\* for escalations that transactions of the scheduler have, and these for the
\* incidents that the transitions have; it is one of two, and failing one of them
\* is enough, unless claims of several incidents' escalations join longer ones.  Or
\* seeds of different tenants wait for keys that one another give or take.
CyclesAlternate ==
    /\ LockTypeOK
    /\ \A p \in Processes : InCycle(p) =>
          /\ \A q \in Processes : WaitsFor(p, q) =>
                \/ kind[p] = "transition" /\ kind[q] \in Scheduling
                \/ kind[p] \in Scheduling /\ kind[q] = "transition"
                \/ kind[p] = "seed" /\ kind[q] = "seed" /\ Head(plan[p]).on \in KeyEntries
          /\ \E q \in Processes :
                /\ WaitsFor(p, q)
                /\ WaitsFor(q, p) \/ SpansIncidents(p) \/ SpansIncidents(q) \/ kind[p] = "seed"

\* Two transactions of kinds that can meet in a cycle.
MayBlockEachOther(p, q) ==
    \/ kind[p] = "transition" /\ kind[q] \in Scheduling
    \/ p # q /\ kind[p] = "seed" /\ kind[q] = "seed"

\* Only operators and the scheduler, or two seeds, need PostgreSQL's detector: when
\* in the end no such two are in progress and no new transactions overtake those
\* that wait (foreign keys' locks pass by a waiting FOR UPDATE), each of them comes
\* to its end although none is made to fail.
OthersGetOn ==
    /\ <>[][\A p \in Processes : kind[p] = "idle" => kind'[p] = "idle"]_lockVars
    /\ <>[](\A p, q \in Processes : ~MayBlockEachOther(p, q))
    => \A p \in Processes : kind[p] # "idle" ~> kind[p] = "idle"
=============================================================================
