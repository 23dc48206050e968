--------------------------- MODULE TenancyProofs ----------------------------
(***************************************************************************)
(* Proofs about Tenancy, for any tenants, keys, targets, seeders and       *)
(* incidents; and about LockOrder, the locks of a tenant's transactions.   *)
(*                                                                         *)
(* The argument: the unique index keeps the key of a transaction apart     *)
(* from the keys of all other tenants and transactions until it commits,   *)
(* and the tenant's row, held from the upsert to the commit, keeps apart   *)
(* two transactions about one tenant.  The steps a commit makes visible    *)
(* are all those of one seed, so an incident copies those of one seed.     *)
(***************************************************************************)
EXTENDS Tenancy, LockOrder, FiniteSetTheorems, TLAPS

(***************************************************************************)
(* The inductive invariant.                                                *)
(***************************************************************************)

\* The steps BootstrapTenant gives to a policy.
Whole(target) == {[number |-> n, target |-> target] : n \in {0, 1}}

TenantRows == [key : ApiKeys \cup {None}, steps : SUBSET Steps]
Transactions == [phase : {"idle", "upserted", "replaced"}, seed : Seeds \cup {None},
                 steps : SUBSET Steps]
Schedules == [slug : Slugs \cup {None}, steps : SUBSET Steps]

Types ==
    /\ tenant \in [Slugs -> TenantRows]
    /\ seeding \in [Seeders -> Transactions]
    /\ schedule \in [Incidents -> Schedules]
    /\ seeded \subseteq Seeds

\* A transaction is about a seed; once replaced, its steps are all of the seed's.
SeederInv ==
    \A p \in Seeders :
        /\ seeding[p].phase # "idle" => seeding[p].seed \in Seeds
        /\ seeding[p].phase = "replaced" => seeding[p].steps = Whole(seeding[p].seed.target)

\* Two transactions share neither tenant nor key.
ApartInv ==
    \A p, q \in Seeders :
        p # q /\ seeding[p].phase # "idle" /\ seeding[q].phase # "idle" =>
            /\ seeding[p].seed.slug # seeding[q].seed.slug
            /\ seeding[p].seed.key # seeding[q].seed.key

\* The key of a transaction is no other tenant's.
KeyInv ==
    \A p \in Seeders : seeding[p].phase # "idle" =>
        \A s \in Slugs \ {seeding[p].seed.slug} : tenant[s].key # seeding[p].seed.key

\* No two tenants have one key.
UniqueInv ==
    \A s, t \in Slugs : tenant[s].key # None /\ tenant[s].key = tenant[t].key => s = t

\* A tenant with a key has all of the steps of one of its seeds.
PolicyInv ==
    \A s \in Slugs : tenant[s].key # None =>
        \E seed \in seeded : seed.slug = s /\ tenant[s].steps = Whole(seed.target)

\* So has an incident.
ScheduleInv ==
    \A i \in Incidents : schedule[i].slug # None =>
        \E seed \in seeded :
            seed.slug = schedule[i].slug /\ schedule[i].steps = Whole(seed.target)

IInv ==
    /\ Types
    /\ SeederInv
    /\ ApartInv
    /\ KeyInv
    /\ UniqueInv
    /\ PolicyInv
    /\ ScheduleInv

-----------------------------------------------------------------------------
(***************************************************************************)
(* Facts.                                                                  *)
(***************************************************************************)

\* A policy is two steps of the type.
LEMMA WholeFacts ==
    ASSUME NEW target \in Targets
    PROVE  Whole(target) \subseteq Steps /\ Cardinality(Whole(target)) = 2
<1>1. PICK a, b : a = [number |-> 0, target |-> target] /\ b = [number |-> 1, target |-> target]
  OBVIOUS
<1>2. Whole(target) = {a} \cup {b}
  BY <1>1 DEF Whole
<1>3. a # b
  <2>1. a.number = 0 /\ b.number = 1
    BY <1>1
  <2> QED  BY <2>1
<1>4. IsFiniteSet({a}) /\ Cardinality({a}) = 1
  BY FS_Singleton
<1>5. b \notin {a}
  BY <1>3
<1>6. Cardinality({a} \cup {b}) = 2
  BY <1>4, <1>5, FS_AddElement
<1>7. a \in Steps /\ b \in Steps
  BY <1>1 DEF Steps
<1> QED  BY <1>2, <1>6, <1>7

\* The parts of a seed.
LEMMA SeedFacts ==
    ASSUME NEW seed \in Seeds
    PROVE  seed.slug \in Slugs /\ seed.key \in ApiKeys /\ seed.target \in Targets /\ seed.key # None
BY TenancyConstants DEF Seeds

\* A transaction replaced by another.
LEMMA SeedingUpdate ==
    ASSUME IInv, NEW p \in Seeders, NEW t \in Transactions, seeding' = [seeding EXCEPT ![p] = t]
    PROVE  /\ seeding' \in [Seeders -> Transactions]
           /\ seeding'[p] = t
           /\ \A q \in Seeders : q # p => seeding'[q] = seeding[q]
BY DEF IInv, Types

\* Initially nothing is there.
LEMMA InitKeeps == Init => IInv
<1> SUFFICES ASSUME Init PROVE IInv
  OBVIOUS
<1>1. NoTenant \in TenantRows /\ IdleSeeder \in Transactions
  BY DEF NoTenant, TenantRows, IdleSeeder, Transactions
<1>2. [slug |-> None, steps |-> {}] \in Schedules
  BY DEF Schedules
<1>3. Types
  BY <1>1, <1>2 DEF Types, Init
<1>4. \A p \in Seeders : seeding[p].phase = "idle"
  BY DEF Init, IdleSeeder
<1>5. \A s \in Slugs : tenant[s].key = None
  BY DEF Init, NoTenant
<1>6. \A i \in Incidents : schedule[i].slug = None
  BY DEF Init
<1>7. SeederInv /\ ApartInv /\ KeyInv
  BY <1>4 DEF SeederInv, ApartInv, KeyInv
<1>8. UniqueInv /\ PolicyInv
  BY <1>5 DEF UniqueInv, PolicyInv
<1>9. ScheduleInv
  BY <1>6 DEF ScheduleInv
<1> QED  BY <1>3, <1>7, <1>8, <1>9 DEF IInv

-----------------------------------------------------------------------------
(***************************************************************************)
(* The steps.                                                              *)
(***************************************************************************)

\* A step that changes no more than a transaction leaves what is committed.
LEMMA CommittedStays ==
    ASSUME IInv, UNCHANGED <<tenant, schedule, seeded>>
    PROVE  UniqueInv' /\ PolicyInv' /\ ScheduleInv'
BY DEF IInv, UniqueInv, PolicyInv, ScheduleInv

\* The upsert waits for the tenant's row and for the key.
LEMMA UpsertKeeps ==
    ASSUME IInv, NEW p \in Seeders, NEW seed \in Seeds, UpsertTenant(p, seed)
    PROVE  IInv'
<1>1. PICK t : t = [phase |-> "upserted", seed |-> seed, steps |-> {}]
  OBVIOUS
<1>2. t \in Transactions /\ t.phase = "upserted" /\ t.seed = seed
  BY <1>1 DEF Transactions
<1>3. /\ \A o \in Seeders : ~Writing(o, seed.slug)
      /\ KeyIsFree(seed)
      /\ seeding' = [seeding EXCEPT ![p] = t]
      /\ UNCHANGED <<tenant, schedule, seeded>>
  BY <1>1 DEF UpsertTenant
<1>4. /\ seeding' \in [Seeders -> Transactions] /\ seeding'[p] = t
      /\ \A q \in Seeders : q # p => seeding'[q] = seeding[q]
  BY <1>2, <1>3, SeedingUpdate
<1>5. Types'
  BY <1>3, <1>4 DEF IInv, Types
<1>6. SeederInv'
  BY <1>2, <1>4 DEF IInv, SeederInv
<1>7. ApartInv'
  <2>1. \A q \in Seeders : seeding[q].phase # "idle" =>
           seeding[q].seed.slug # seed.slug /\ seeding[q].seed.key # seed.key
    BY <1>3 DEF Writing, KeyIsFree
  <2> QED  BY <1>2, <1>4, <2>1 DEF IInv, ApartInv
<1>8. KeyInv'
  BY <1>2, <1>3, <1>4 DEF IInv, KeyInv, KeyIsFree
<1> QED  BY <1>3, <1>5, <1>6, <1>7, <1>8, CommittedStays DEF IInv

\* The policy and its steps are written.
LEMMA ReplaceKeeps ==
    ASSUME IInv, NEW p \in Seeders, ReplaceSteps(p)
    PROVE  IInv'
<1>1. PICK seed : seed = seeding[p].seed
  OBVIOUS
<1>2. /\ seeding[p].phase = "upserted" /\ UNCHANGED <<tenant, schedule, seeded>>
      /\ seeding' = [seeding EXCEPT ![p].phase = "replaced", ![p].steps = Whole(seed.target)]
  BY <1>1 DEF ReplaceSteps, Whole
<1>3. seed \in Seeds /\ Whole(seed.target) \subseteq Steps
  <2>1. seed \in Seeds
    BY <1>1, <1>2 DEF IInv, SeederInv
  <2> QED  BY <2>1, SeedFacts, WholeFacts
<1>4. PICK t : t = [phase |-> "replaced", seed |-> seed, steps |-> Whole(seed.target)]
  OBVIOUS
<1>5. /\ t \in Transactions /\ t.phase = "replaced" /\ t.seed = seed
      /\ t.steps = Whole(seed.target)
  BY <1>3, <1>4 DEF Transactions
<1>6. seeding' = [seeding EXCEPT ![p] = t]
  <2>1. seeding[p] \in Transactions
    BY DEF IInv, Types
  <2>2. ASSUME NEW old \in Transactions, old.seed = seed, NEW steps
        PROVE  [old EXCEPT !.phase = "replaced", !.steps = steps]
                   = [phase |-> "replaced", seed |-> seed, steps |-> steps]
    <3>1. old = [phase |-> old.phase, seed |-> seed, steps |-> old.steps]
      BY <2>2 DEF Transactions
    <3>2. [old EXCEPT !.phase = "replaced"]
              = [phase |-> "replaced", seed |-> seed, steps |-> old.steps]
      BY <3>1
    <3>3. PICK mid : mid = [old EXCEPT !.phase = "replaced"]
      OBVIOUS
    <3>4. mid = [phase |-> "replaced", seed |-> seed, steps |-> old.steps]
      BY <3>2, <3>3
    <3>5. [mid EXCEPT !.steps = steps]
              = [phase |-> "replaced", seed |-> seed, steps |-> steps]
      BY <3>4
    <3> QED  BY <3>3, <3>5
  <2>3. [seeding[p] EXCEPT !.phase = "replaced", !.steps = Whole(seed.target)] = t
    BY <1>1, <1>4, <2>1, <2>2
  <2> QED  BY <1>2, <2>3
<1>7. /\ seeding' \in [Seeders -> Transactions] /\ seeding'[p] = t
      /\ \A q \in Seeders : q # p => seeding'[q] = seeding[q]
  BY <1>5, <1>6, SeedingUpdate
<1>8. Types'
  BY <1>2, <1>7 DEF IInv, Types
<1>9. SeederInv'
  BY <1>3, <1>5, <1>7 DEF IInv, SeederInv
<1>10. ApartInv'
  BY <1>1, <1>2, <1>5, <1>7 DEF IInv, ApartInv
<1>11. KeyInv'
  BY <1>1, <1>2, <1>5, <1>7 DEF IInv, KeyInv
<1> QED  BY <1>2, <1>8, <1>9, <1>10, <1>11, CommittedStays DEF IInv

\* A transaction that ends leaves the others apart.
LEMMA EndKeeps ==
    ASSUME IInv, NEW p \in Seeders, seeding' = [seeding EXCEPT ![p] = IdleSeeder]
    PROVE  /\ seeding' \in [Seeders -> Transactions]
           /\ \A q \in Seeders : q # p => seeding'[q] = seeding[q]
           /\ seeding'[p].phase = "idle"
           /\ SeederInv' /\ ApartInv'
<1>1. IdleSeeder \in Transactions /\ IdleSeeder.phase = "idle"
  BY DEF IdleSeeder, Transactions
<1>2. /\ seeding' \in [Seeders -> Transactions] /\ seeding'[p] = IdleSeeder
      /\ \A q \in Seeders : q # p => seeding'[q] = seeding[q]
  BY <1>1, SeedingUpdate
<1> QED  BY <1>1, <1>2 DEF IInv, SeederInv, ApartInv

\* The commit gives the tenant a key that is nobody else's, and all of its steps.
LEMMA CommitKeeps ==
    ASSUME IInv, NEW p \in Seeders, CommitSeed(p)
    PROVE  IInv'
<1>1. PICK seed : seed = seeding[p].seed
  OBVIOUS
<1>2. /\ seeding[p].phase = "replaced"
      /\ tenant' = [tenant EXCEPT ![seed.slug] = [key |-> seed.key, steps |-> seeding[p].steps]]
      /\ seeded' = seeded \cup {seed}
      /\ seeding' = [seeding EXCEPT ![p] = IdleSeeder]
      /\ schedule' = schedule
  BY <1>1 DEF CommitSeed, CanCommit
<1>3. seed \in Seeds /\ seeding[p].steps = Whole(seed.target)
  BY <1>1, <1>2 DEF IInv, SeederInv
<1>4. /\ seed.slug \in Slugs /\ seed.key \in ApiKeys /\ seed.key # None
      /\ Whole(seed.target) \subseteq Steps
  BY <1>3, SeedFacts, WholeFacts
<1>5. PICK row : row = [key |-> seed.key, steps |-> Whole(seed.target)]
  OBVIOUS
<1>6. row \in TenantRows /\ row.key = seed.key /\ row.steps = Whole(seed.target)
  BY <1>4, <1>5 DEF TenantRows
<1>7. /\ tenant' \in [Slugs -> TenantRows] /\ tenant'[seed.slug] = row
      /\ \A s \in Slugs : s # seed.slug => tenant'[s] = tenant[s]
  BY <1>2, <1>3, <1>4, <1>5, <1>6 DEF IInv, Types
<1>8. /\ seeding' \in [Seeders -> Transactions]
      /\ \A q \in Seeders : q # p => seeding'[q] = seeding[q]
      /\ seeding'[p].phase = "idle"
      /\ SeederInv' /\ ApartInv'
  BY <1>2, EndKeeps
<1>9. Types'
  BY <1>2, <1>3, <1>7, <1>8 DEF IInv, Types
<1>10. KeyInv'
  <2> SUFFICES ASSUME NEW q \in Seeders, seeding'[q].phase # "idle",
                      NEW s \in Slugs \ {seeding'[q].seed.slug}
               PROVE  tenant'[s].key # seeding'[q].seed.key
    BY DEF KeyInv
  <2>1. q # p /\ seeding'[q] = seeding[q]
    BY <1>8
  <2>2. CASE s = seed.slug
    <3>1. seeding[q].seed.key # seed.key
      BY <1>1, <1>2, <2>1 DEF IInv, ApartInv
    <3> QED  BY <1>6, <1>7, <2>1, <2>2, <3>1
  <2>3. CASE s # seed.slug
    BY <1>7, <2>1, <2>3 DEF IInv, KeyInv
  <2> QED  BY <2>2, <2>3
<1>11. UniqueInv'
  <2>1. \A s \in Slugs \ {seed.slug} : tenant[s].key # seed.key
    BY <1>1, <1>2 DEF IInv, KeyInv
  <2> QED  BY <1>6, <1>7, <2>1 DEF IInv, UniqueInv
<1>12. PolicyInv'
  BY <1>2, <1>6, <1>7 DEF IInv, PolicyInv
<1>13. ScheduleInv'
  BY <1>2 DEF IInv, ScheduleInv
<1> QED  BY <1>8, <1>9, <1>10, <1>11, <1>12, <1>13 DEF IInv

\* A transaction that is rolled back leaves nothing.
LEMMA RollbackKeeps ==
    ASSUME IInv, NEW p \in Seeders, RollbackSeed(p)
    PROVE  IInv'
<1>1. seeding' = [seeding EXCEPT ![p] = IdleSeeder] /\ UNCHANGED <<tenant, schedule, seeded>>
  BY DEF RollbackSeed
<1>2. /\ seeding' \in [Seeders -> Transactions]
      /\ \A q \in Seeders : q # p => seeding'[q] = seeding[q]
      /\ seeding'[p].phase = "idle"
      /\ SeederInv' /\ ApartInv'
  BY <1>1, EndKeeps
<1>3. Types' /\ KeyInv'
  BY <1>1, <1>2 DEF IInv, Types, KeyInv
<1> QED  BY <1>1, <1>2, <1>3, CommittedStays DEF IInv

\* An incident copies the steps its tenant has.
LEMMA OpenKeeps ==
    ASSUME IInv, NEW i \in Incidents, NEW s \in Slugs, OpenIncident(i, s)
    PROVE  IInv'
<1>1. PICK row : row = [slug |-> s, steps |-> tenant[s].steps]
  OBVIOUS
<1>2. /\ tenant[s].key # None /\ UNCHANGED <<tenant, seeding, seeded>>
      /\ schedule' = [schedule EXCEPT ![i] = row]
  BY <1>1 DEF OpenIncident
<1>3. row \in Schedules /\ row.slug = s /\ row.steps = tenant[s].steps
  BY <1>1 DEF IInv, Types, TenantRows, Schedules
<1>4. /\ schedule' \in [Incidents -> Schedules] /\ schedule'[i] = row
      /\ \A j \in Incidents : j # i => schedule'[j] = schedule[j]
  BY <1>2, <1>3 DEF IInv, Types
<1>5. Types' /\ SeederInv' /\ ApartInv'
  BY <1>2, <1>4 DEF IInv, Types, SeederInv, ApartInv
<1>6. KeyInv' /\ UniqueInv' /\ PolicyInv'
  BY <1>2 DEF IInv, KeyInv, UniqueInv, PolicyInv
<1>7. ScheduleInv'
  <2>1. \E seed \in seeded : seed.slug = s /\ tenant[s].steps = Whole(seed.target)
    BY <1>2 DEF IInv, PolicyInv
  <2> QED  BY <1>2, <1>3, <1>4, <2>1 DEF IInv, ScheduleInv
<1> QED  BY <1>5, <1>6, <1>7 DEF IInv

\* Every step keeps the invariant.
LEMMA StepKeeps == IInv /\ [Next]_vars => IInv'
<1> SUFFICES ASSUME IInv, [Next]_vars PROVE IInv'
  OBVIOUS
<1>1. CASE UNCHANGED vars
  BY <1>1 DEF vars, IInv, Types, SeederInv, ApartInv, KeyInv, UniqueInv, PolicyInv, ScheduleInv
<1>2. CASE Next
  BY <1>2, UpsertKeeps, ReplaceKeeps, CommitKeeps, RollbackKeeps, OpenKeeps DEF Next
<1> QED  BY <1>1, <1>2

-----------------------------------------------------------------------------
(***************************************************************************)
(* The theorems.                                                           *)
(***************************************************************************)

\* The inductive invariant holds whenever BootstrapTenant and CorrelateAlert run.
THEOREM Invariance == Spec => []IInv
BY InitKeeps, StepKeeps, PTL DEF Spec

\* TenantByAPIKey finds one tenant at most, whatever seeds exchange keys at once.
THEOREM KeyOpensOneTenant == Spec => []OneTenantPerKey
<1>1. IInv => OneTenantPerKey
  <2> SUFFICES ASSUME IInv, NEW key \in ApiKeys
               PROVE  Cardinality(TenantByAPIKey(key)) <= 1
    BY DEF OneTenantPerKey
  <2>1. key # None
    BY TenancyConstants
  <2>2. CASE TenantByAPIKey(key) = {}
    BY <2>2, FS_EmptySet
  <2>3. CASE TenantByAPIKey(key) # {}
    <3>1. PICK s \in Slugs : tenant[s].key = key
      BY <2>3 DEF TenantByAPIKey
    <3>2. TenantByAPIKey(key) = {s}
      BY <2>1, <3>1 DEF TenantByAPIKey, IInv, UniqueInv
    <3>3. Cardinality({s}) = 1
      BY FS_Singleton
    <3> QED  BY <3>2, <3>3
  <2> QED  BY <2>2, <2>3
<1> QED  BY <1>1, Invariance, PTL

\* An incident has the escalations of one seed, all of them, also while
\* BootstrapTenant replaces the policy's steps.
THEOREM WholePolicy == Spec => []PolicyIsWhole
<1>1. IInv => TypeOK
  <2> SUFFICES ASSUME IInv PROVE TypeOK
    OBVIOUS
  <2>1. ASSUME NEW s \in Slugs
        PROVE  /\ tenant[s].key \in ApiKeys \cup {None} /\ tenant[s].steps \subseteq Steps
               /\ tenant[s].key # None => Cardinality(tenant[s].steps) = 2
    <3>1. tenant[s].key \in ApiKeys \cup {None} /\ tenant[s].steps \subseteq Steps
      BY DEF IInv, Types, TenantRows
    <3>2. ASSUME tenant[s].key # None PROVE Cardinality(tenant[s].steps) = 2
      <4>1. PICK seed \in seeded : tenant[s].steps = Whole(seed.target)
        BY <3>2 DEF IInv, PolicyInv
      <4>2. seed.target \in Targets
        BY SeedFacts DEF IInv, Types
      <4> QED  BY <4>1, <4>2, WholeFacts
    <3> QED  BY <3>1, <3>2
  <2>2. \A p \in Seeders : seeding[p].phase \in {"idle", "upserted", "replaced"}
    BY DEF IInv, Types, Transactions
  <2>3. \A i \in Incidents : schedule[i].slug \in Slugs \cup {None}
    BY DEF IInv, Types, Schedules
  <2> QED  BY <2>1, <2>2, <2>3 DEF TypeOK, IInv, Types
<1>2. IInv => PolicyIsWhole
  BY <1>1 DEF PolicyIsWhole, IInv, ScheduleInv, Whole
<1> QED  BY <1>2, Invariance, PTL

-----------------------------------------------------------------------------
(***************************************************************************)
(* LockOrder: the transactions of the store, BootstrapTenant's among them, *)
(* and the locks they wait for, for any number of transactions, tenants,   *)
(* keys, alerts, incidents and escalations.                                *)
(*                                                                         *)
(* The argument: what a transaction has and what it waits for follow from  *)
(* its kind and from how far it is.  In a smallest group in which each     *)
(* waits for another, all have locks.  A seed that has one waits for a     *)
(* key, which only seeds have, so if a seed is in it all are seeds.  If    *)
(* none is, nobody in it waits for a tenant; correlators that wait are in  *)
(* the way of correlators only, and these take their locks in one order,   *)
(* so none is in it.  That leaves transitions and transactions of the      *)
(* scheduler, which can only be in each other's way.                       *)
(***************************************************************************)
TenantShares == {Share(t) : t \in TenantIds}
KeyLocks == {Update(k) : k \in KeyEntries}
Advisory == Update("advisory")

\* The locks that transactions of kind k take.
Allowed(k) ==
    {l \in Locks :
        /\ k # "idle"
        /\ l.on \in Alerts \cup {"advisory"} => k = "correlate"
        /\ l.on \in EscalationRows => l.mode = "update" /\ k \in {"transition"} \cup Scheduling
        /\ l.on \in IncidentRows /\ l.mode = "update" => k \in {"correlate", "transition"}
        /\ l.on \in TenantIds /\ l.mode = "update" => k = "seed"
        /\ l.on \in KeyEntries => k = "seed"}

\* The locks of incident i that its transition takes after the incident's.
Own(i) ==
    TenantShares \cup {Share(i)} \cup {Update(e) : e \in {f \in EscalationRows : IncidentOf[f] = i}}

\* The locks of timeline entries about incidents that are locked by h already.
EntryLocks(h) ==
    TenantShares \cup {Share(i) : i \in {j \in IncidentRows : Update(j) \in h}}

\* The locks of timeline entries about the escalations in h.
BurialLocks(h) ==
    TenantShares \cup {Share(IncidentOf[e]) : e \in {f \in EscalationRows : Update(f) \in h}}

\* From position n on, a correlator's plan has the incident and its entry, or the
\* entry of a new one.
JoinsFrom(s, n) ==
    \/ \E i \in IncidentRows :
          s[n] = Update(i) /\ \A m \in (n + 1) .. Len(s) : s[m] \in TenantShares \cup {Share(i)}
    \/ \A m \in n .. Len(s) : s[m] \in TenantShares

\* How far transactions are that have locks h and a plan s: for correlators,
\* before the inbox key, the advisory lock, the incident, and the entry.
CorrelateAt(s, h) ==
    \/ /\ Len(s) >= 3 /\ h = {}
       /\ s[1].on \in Alerts /\ s[2] = Advisory /\ JoinsFrom(s, 3)
    \/ /\ Len(s) >= 2 /\ \A l \in h : l.on \in Alerts
       /\ s[1] = Advisory /\ JoinsFrom(s, 2)
    \/ Len(s) >= 1 /\ (\A l \in h : l.on \in Alerts \cup {"advisory"}) /\ JoinsFrom(s, 1)
    \/ s \in Seq(EntryLocks(h))

TransitionAt(s, h) ==
    \E i \in IncidentRows :
        \/ h = {} /\ Len(s) >= 1 /\ s[1] = Update(i) /\ \A m \in 2 .. Len(s) : s[m] \in Own(i)
        \/ Update(i) \in h /\ h \subseteq {Update(i)} \cup Own(i) /\ s \in Seq(Own(i))

ClaimAt(s, h) == s \in Seq(BurialLocks(h))

ResultAt(s, h) ==
    \E e \in EscalationRows :
        \/ h = {} /\ Len(s) >= 1 /\ s[1] = Update(e)
           /\ \A m \in 2 .. Len(s) : s[m] \in TenantShares \cup {Share(IncidentOf[e])}
        \/ Update(e) \in h /\ h \subseteq {Update(e)} \cup (TenantShares \cup {Share(IncidentOf[e])})
           /\ s \in Seq(TenantShares \cup {Share(IncidentOf[e])})

SeedAt(s, h) ==
    \/ h = {} /\ \A m \in 2 .. Len(s) : s[m] \in KeyLocks
    \/ s \in Seq(KeyLocks)

ProcessInv(k, s, h) ==
    /\ k \in Kinds \cup {"idle"}
    /\ s \in Seq(Allowed(k)) /\ h \subseteq Allowed(k)
    /\ k = "idle" => s = <<>> /\ h = {}
    /\ k = "correlate" => CorrelateAt(s, h)
    /\ k = "transition" => TransitionAt(s, h)
    /\ k = "claim" => ClaimAt(s, h)
    /\ k = "result" => ResultAt(s, h)
    /\ k = "seed" => SeedAt(s, h)

\* Locks that two transactions have do not conflict.
Exclusive ==
    \A p, q \in Processes : p # q => \A l \in held[p], m \in held[q] : ~Conflict(l, m)

LockInv ==
    /\ DOMAIN kind = Processes /\ kind = [p \in Processes |-> kind[p]]
    /\ plan = [p \in Processes |-> plan[p]]
    /\ held = [p \in Processes |-> held[p]]
    /\ \A p \in Processes : ProcessInv(kind[p], plan[p], held[p])
    /\ Exclusive

\* What locks are made of.
LEMMA LockFacts ==
    /\ \A r : Update(r).on = r /\ Update(r).mode = "update"
    /\ \A r : Share(r).on = r /\ Share(r).mode = "share"
    /\ \A r \in Resources : Update(r) \in Locks /\ Share(r) \in Locks
    /\ \A l \in Locks : /\ l.on \in Resources
                        /\ l.mode = "update" => l = Update(l.on)
                        /\ l.mode # "update" => l.mode = "share" /\ l = Share(l.on)
    /\ \A l, m : Conflict(l, m) <=> Conflict(m, l)
BY DEF Update, Share, Locks, Conflict

\* The resources are those of the tables, and of one only.
LEMMA ResourceFacts ==
    /\ IncidentOf \in [EscalationRows -> IncidentRows]
    /\ TenantOf \in [Alerts \cup IncidentRows -> TenantIds]
    /\ Resources = {"advisory"} \cup TenantIds \cup KeyEntries \cup Alerts \cup IncidentRows
                   \cup EscalationRows
    /\ \A t \in TenantIds :
          /\ t \notin KeyEntries /\ t \notin Alerts /\ t \notin IncidentRows
          /\ t \notin EscalationRows /\ t # "advisory"
    /\ \A k \in KeyEntries :
          k \notin Alerts /\ k \notin IncidentRows /\ k \notin EscalationRows /\ k # "advisory"
    /\ \A a \in Alerts : a \notin IncidentRows /\ a \notin EscalationRows /\ a # "advisory"
    /\ \A i \in IncidentRows : i \notin EscalationRows /\ i # "advisory"
    /\ \A e \in EscalationRows : e # "advisory"
BY LockOrderConstants DEF Resources

\* Which locks a kind is allowed.
LEMMA AllowedFacts ==
    /\ \A k \in Kinds \ {"seed"} :
          /\ TenantShares \subseteq Allowed(k)
          /\ \A i \in IncidentRows : Share(i) \in Allowed(k)
    /\ \A k \in {"transition"} \cup Scheduling :
          \A e \in EscalationRows : Update(e) \in Allowed(k)
    /\ \A k \in {"correlate", "transition"} :
          \A i \in IncidentRows : Update(i) \in Allowed(k)
    /\ \A a \in Alerts : Update(a) \in Allowed("correlate")
    /\ Advisory \in Allowed("correlate")
    /\ \A t \in TenantIds : Update(t) \in Allowed("seed")
    /\ KeyLocks \subseteq Allowed("seed")
<1>1. \A r \in Resources : Update(r) \in Locks /\ Share(r) \in Locks
  BY LockFacts
<1>2. \A k \in Kinds \ {"seed"} :
        TenantShares \subseteq Allowed(k) /\ \A i \in IncidentRows : Share(i) \in Allowed(k)
  <2>1. \A k \in Kinds \ {"seed"} : k # "idle"
    BY DEF Kinds, Scheduling
  <2>2. \A l \in TenantShares :
          /\ l \in Locks /\ l.mode = "share"
          /\ l.on \notin Alerts \cup {"advisory"} \cup EscalationRows \cup IncidentRows \cup KeyEntries
    <3> SUFFICES ASSUME NEW t \in TenantIds
                 PROVE  /\ Share(t) \in Locks /\ Share(t).mode = "share"
                        /\ Share(t).on \notin Alerts \cup {"advisory"} \cup EscalationRows
                                              \cup IncidentRows \cup KeyEntries
      BY DEF TenantShares
    <3>1. Share(t).on = t /\ Share(t).mode = "share"
      BY LockFacts
    <3>2. t \in Resources
      BY ResourceFacts
    <3>3. t \notin Alerts \cup {"advisory"} \cup EscalationRows \cup IncidentRows \cup KeyEntries
      BY ResourceFacts
    <3> QED  BY <1>1, <3>1, <3>2, <3>3
  <2>3. \A i \in IncidentRows :
          /\ Share(i) \in Locks /\ Share(i).on = i /\ Share(i).mode = "share"
          /\ i \notin Alerts \cup {"advisory"} \cup EscalationRows \cup KeyEntries
    BY <1>1, LockFacts, ResourceFacts
  <2>4. \A k \in Kinds \ {"seed"} : TenantShares \subseteq Allowed(k)
    BY <2>1, <2>2 DEF Allowed
  <2>5. \A k \in Kinds \ {"seed"} : \A i \in IncidentRows : Share(i) \in Allowed(k)
    BY <2>1, <2>3 DEF Allowed
  <2> QED  BY <2>4, <2>5
<1>3. \A k \in {"transition"} \cup Scheduling :
        \A e \in EscalationRows : Update(e) \in Allowed(k)
  BY <1>1, LockFacts, ResourceFacts DEF Allowed, Scheduling
<1>4. \A k \in {"correlate", "transition"} :
        \A i \in IncidentRows : Update(i) \in Allowed(k)
  BY <1>1, LockFacts, ResourceFacts DEF Allowed
<1>5. \A a \in Alerts : Update(a) \in Allowed("correlate")
  <2> SUFFICES ASSUME NEW a \in Alerts PROVE Update(a) \in Allowed("correlate")
    OBVIOUS
  <2>1. Update(a).on = a /\ Update(a) \in Locks
    BY <1>1, LockFacts, ResourceFacts
  <2>2. /\ a \notin TenantIds /\ a \notin KeyEntries
        /\ a \notin IncidentRows /\ a \notin EscalationRows
    BY ResourceFacts
  <2> QED  BY <2>1, <2>2 DEF Allowed
<1>6. Advisory \in Allowed("correlate")
  BY <1>1, LockFacts, ResourceFacts DEF Allowed, Advisory
<1>7. \A t \in TenantIds : Update(t) \in Allowed("seed")
  BY <1>1, LockFacts, ResourceFacts DEF Allowed
<1>8. KeyLocks \subseteq Allowed("seed")
  <2> SUFFICES ASSUME NEW k \in KeyEntries PROVE Update(k) \in Allowed("seed")
    BY DEF KeyLocks
  <2>1. Update(k).on = k /\ Update(k) \in Locks
    BY <1>1, LockFacts, ResourceFacts
  <2>2. /\ k \notin Alerts /\ k # "advisory"
        /\ k \notin IncidentRows /\ k \notin EscalationRows
    BY ResourceFacts
  <2> QED  BY <2>1, <2>2 DEF Allowed
<1> QED  BY <1>2, <1>3, <1>4, <1>5, <1>6, <1>7, <1>8

\* What is left of a plan.
LEMMA TailFacts ==
    ASSUME NEW S, NEW s \in Seq(S), s # <<>>
    PROVE  /\ Len(s) \in Nat /\ Len(s) >= 1 /\ Head(s) = s[1] /\ s[1] \in S
           /\ Tail(s) \in Seq(S) /\ Len(Tail(s)) = Len(s) - 1
           /\ \A m \in 1 .. (Len(s) - 1) : Tail(s)[m] = s[m + 1]
OBVIOUS

\* A plan whose elements are all in T is a sequence of T.
LEMMA AllIn ==
    ASSUME NEW S, NEW s \in Seq(S), NEW T, \A m \in 1 .. Len(s) : s[m] \in T
    PROVE  s \in Seq(T)
OBVIOUS

\* A sequence of S is one of any set with all elements of S.
LEMMA SeqGrows ==
    ASSUME NEW S, NEW s \in Seq(S), NEW T, S \subseteq T
    PROVE  s \in Seq(T)
OBVIOUS

\* A plan with one lock put in front of it.
LEMMA Prefixed ==
    ASSUME NEW S, NEW s \in Seq(S), NEW x, NEW t, t = <<x>> \o s
    PROVE  /\ Len(t) \in Nat /\ Len(t) >= 1 /\ t[1] = x
           /\ \A m \in 2 .. Len(t) : t[m] \in S
           /\ t \in Seq({x} \cup S)
<1>1. <<x>> \in Seq({x} \cup S) /\ s \in Seq({x} \cup S) /\ Len(<<x>>) = 1
  OBVIOUS
<1>2. Len(t) \in Nat /\ Len(t) = Len(s) + 1 /\ Len(s) \in Nat /\ t \in Seq({x} \cup S)
  BY <1>1
<1>3. t[1] = x
  BY <1>1
<1>4. \A m \in 2 .. Len(t) : t[m] = s[m - 1] /\ m - 1 \in 1 .. Len(s)
  BY <1>1, <1>2
<1> QED  BY <1>2, <1>3, <1>4

\* A plan of length 0 is the empty one.
LEMMA NothingLeft ==
    ASSUME NEW S, NEW s \in Seq(S), Len(s) = 0
    PROVE  s = <<>>
OBVIOUS

\* The rows of a set in any order.
LEMMA SeqsOf ==
    ASSUME NEW rows \in SUBSET EscalationRows, NEW s \in SetToSeqs(rows)
    PROVE  s \in Seq(rows)
<1>1. IsFiniteSet(rows)
  BY LockOrderConstants, FS_Subset
<1>2. Cardinality(rows) \in Nat
  BY <1>1, FS_CardinalityType
<1>3. s \in [1 .. Cardinality(rows) -> rows]
  BY DEF SetToSeqs
<1> QED  BY <1>2, <1>3

\* Taking the next lock of a plan.
LEMMA NextJoins ==
    ASSUME NEW S, NEW s \in Seq(S), s # <<>>, NEW n \in Nat, n >= 1, n + 1 <= Len(s),
           JoinsFrom(s, n + 1)
    PROVE  JoinsFrom(Tail(s), n)
<1>1. PICK t : t = Tail(s)
  OBVIOUS
<1>2. /\ Len(s) \in Nat /\ Len(t) = Len(s) - 1
      /\ \A m \in 1 .. (Len(s) - 1) : t[m] = s[m + 1]
  BY <1>1, TailFacts
<1>3. ASSUME NEW i \in IncidentRows, s[n + 1] = Update(i),
             \A m \in (n + 1 + 1) .. Len(s) : s[m] \in TenantShares \cup {Share(i)}
      PROVE  JoinsFrom(t, n)
  <2>1. t[n] = Update(i)
    BY <1>2, <1>3
  <2>2. \A m \in (n + 1) .. Len(t) : t[m] \in TenantShares \cup {Share(i)}
    <3> SUFFICES ASSUME NEW m \in (n + 1) .. Len(t) PROVE t[m] \in TenantShares \cup {Share(i)}
      OBVIOUS
    <3>1. t[m] = s[m + 1] /\ m + 1 \in (n + 1 + 1) .. Len(s)
      BY <1>2
    <3> QED  BY <1>3, <3>1
  <2> QED  BY <2>1, <2>2 DEF JoinsFrom
<1>4. ASSUME \A m \in (n + 1) .. Len(s) : s[m] \in TenantShares PROVE JoinsFrom(t, n)
  <2>1. \A m \in n .. Len(t) : t[m] = s[m + 1] /\ m + 1 \in (n + 1) .. Len(s)
    BY <1>2
  <2> QED  BY <1>4, <2>1 DEF JoinsFrom
<1> QED  BY <1>1, <1>3, <1>4 DEF JoinsFrom

\* A correlator goes on to its next lock.
LEMMA NextCorrelate ==
    ASSUME NEW S, NEW s \in Seq(S), s # <<>>, NEW h, CorrelateAt(s, h)
    PROVE  CorrelateAt(Tail(s), h \cup {Head(s)})
<1>1. PICK t : t = Tail(s)
  OBVIOUS
<1>2. PICK g : g = h \cup {Head(s)}
  OBVIOUS
<1>3. /\ Len(s) \in Nat /\ Head(s) = s[1] /\ t \in Seq(S) /\ Len(t) = Len(s) - 1
      /\ \A m \in 1 .. (Len(s) - 1) : t[m] = s[m + 1]
  BY <1>1, TailFacts
<1>4. CASE Len(s) >= 3 /\ h = {} /\ s[1].on \in Alerts /\ s[2] = Advisory /\ JoinsFrom(s, 3)
  <2>1. JoinsFrom(s, 2 + 1) /\ 2 + 1 <= Len(s)
    BY <1>3, <1>4
  <2>2. JoinsFrom(t, 2)
    BY <1>1, <2>1, NextJoins
  <2>3. \A l \in g : l.on \in Alerts
    BY <1>2, <1>3, <1>4
  <2> QED  BY <1>1, <1>2, <1>3, <1>4, <2>2, <2>3 DEF CorrelateAt
<1>5. CASE /\ Len(s) >= 2 /\ \A l \in h : l.on \in Alerts
           /\ s[1] = Advisory /\ JoinsFrom(s, 2)
  <2>1. JoinsFrom(s, 1 + 1) /\ 1 + 1 <= Len(s)
    BY <1>3, <1>5
  <2>2. JoinsFrom(t, 1)
    BY <1>1, <2>1, NextJoins
  <2>3. Advisory.on = "advisory"
    BY LockFacts DEF Advisory
  <2>4. \A l \in g : l.on \in Alerts \cup {"advisory"}
    BY <1>2, <1>3, <1>5, <2>3
  <2> QED  BY <1>1, <1>2, <1>3, <1>5, <2>2, <2>4 DEF CorrelateAt
<1>6. CASE Len(s) >= 1 /\ (\A l \in h : l.on \in Alerts \cup {"advisory"}) /\ JoinsFrom(s, 1)
  <2>1. ASSUME NEW i \in IncidentRows, s[1] = Update(i),
               \A m \in (1 + 1) .. Len(s) : s[m] \in TenantShares \cup {Share(i)}
        PROVE  \A m \in 1 .. Len(t) : t[m] \in EntryLocks(g)
    <3>1. TenantShares \cup {Share(i)} \subseteq EntryLocks(g)
      BY <1>2, <1>3, <2>1 DEF EntryLocks
    <3> SUFFICES ASSUME NEW m \in 1 .. Len(t) PROVE t[m] \in EntryLocks(g)
      OBVIOUS
    <3>2. t[m] = s[m + 1] /\ m + 1 \in (1 + 1) .. Len(s)
      BY <1>3
    <3> QED  BY <2>1, <3>1, <3>2
  <2>2. ASSUME \A m \in 1 .. Len(s) : s[m] \in TenantShares
        PROVE  \A m \in 1 .. Len(t) : t[m] \in EntryLocks(g)
    <3>1. \A m \in 1 .. Len(t) : t[m] = s[m + 1] /\ m + 1 \in 1 .. Len(s)
      BY <1>3
    <3> QED  BY <2>2, <3>1 DEF EntryLocks
  <2>3. \A m \in 1 .. Len(t) : t[m] \in EntryLocks(g)
    BY <1>6, <2>1, <2>2 DEF JoinsFrom
  <2>4. t \in Seq(EntryLocks(g))
    BY <1>3, <2>3, AllIn
  <2> QED  BY <1>1, <1>2, <2>4 DEF CorrelateAt
<1>7. CASE s \in Seq(EntryLocks(h))
  <2>1. EntryLocks(h) \subseteq EntryLocks(g)
    BY <1>2 DEF EntryLocks
  <2>2. t \in Seq(EntryLocks(h))
    BY <1>1, <1>7, TailFacts
  <2>3. t \in Seq(EntryLocks(g))
    BY <2>1, <2>2
  <2> QED  BY <1>1, <1>2, <2>3 DEF CorrelateAt
<1> QED  BY <1>4, <1>5, <1>6, <1>7 DEF CorrelateAt

\* A transition goes on to its next lock, all of them its own.
LEMMA NextTransition ==
    ASSUME NEW S, NEW s \in Seq(S), s # <<>>, NEW h, TransitionAt(s, h)
    PROVE  TransitionAt(Tail(s), h \cup {Head(s)})
<1>1. PICK t : t = Tail(s)
  OBVIOUS
<1>2. PICK g : g = h \cup {Head(s)}
  OBVIOUS
<1>3. /\ Len(s) \in Nat /\ Head(s) = s[1] /\ t \in Seq(S) /\ Len(t) = Len(s) - 1
      /\ \A m \in 1 .. (Len(s) - 1) : t[m] = s[m + 1]
  BY <1>1, TailFacts
<1>4. PICK i \in IncidentRows :
        \/ h = {} /\ Len(s) >= 1 /\ s[1] = Update(i) /\ \A m \in 2 .. Len(s) : s[m] \in Own(i)
        \/ Update(i) \in h /\ h \subseteq {Update(i)} \cup Own(i) /\ s \in Seq(Own(i))
  BY DEF TransitionAt
<1>5. Update(i) \in g /\ g \subseteq {Update(i)} \cup Own(i) /\ t \in Seq(Own(i))
  <2>1. CASE h = {} /\ s[1] = Update(i) /\ \A m \in 2 .. Len(s) : s[m] \in Own(i)
    <3>1. \A m \in 1 .. Len(t) : t[m] = s[m + 1] /\ m + 1 \in 2 .. Len(s)
      BY <1>3
    <3>2. t \in Seq(Own(i))
      BY <1>3, <2>1, <3>1, AllIn
    <3> QED  BY <1>2, <1>3, <2>1, <3>2
  <2>2. CASE Update(i) \in h /\ h \subseteq {Update(i)} \cup Own(i) /\ s \in Seq(Own(i))
    <3>1. t \in Seq(Own(i)) /\ s[1] \in Own(i)
      BY <1>1, <2>2, TailFacts
    <3> QED  BY <1>2, <1>3, <2>2, <3>1
  <2> QED  BY <1>4, <2>1, <2>2
<1> QED  BY <1>1, <1>2, <1>5 DEF TransitionAt

\* A claim goes on to the entry of another escalation that it has.
LEMMA NextClaim ==
    ASSUME NEW S, NEW s \in Seq(S), s # <<>>, NEW h, ClaimAt(s, h)
    PROVE  ClaimAt(Tail(s), h \cup {Head(s)})
<1>1. BurialLocks(h) \subseteq BurialLocks(h \cup {Head(s)})
  BY DEF BurialLocks
<1>2. Tail(s) \in Seq(BurialLocks(h))
  BY TailFacts DEF ClaimAt
<1>3. Tail(s) \in Seq(BurialLocks(h \cup {Head(s)}))
  BY <1>1, <1>2, SeqGrows
<1> QED  BY <1>3 DEF ClaimAt

\* The result of an escalation goes on to its timeline entry.
LEMMA NextResult ==
    ASSUME NEW S, NEW s \in Seq(S), s # <<>>, NEW h, ResultAt(s, h)
    PROVE  ResultAt(Tail(s), h \cup {Head(s)})
<1>1. PICK t : t = Tail(s)
  OBVIOUS
<1>2. PICK g : g = h \cup {Head(s)}
  OBVIOUS
<1>3. /\ Len(s) \in Nat /\ Head(s) = s[1] /\ t \in Seq(S) /\ Len(t) = Len(s) - 1
      /\ \A m \in 1 .. (Len(s) - 1) : t[m] = s[m + 1]
  BY <1>1, TailFacts
<1>4. PICK e \in EscalationRows :
        \/ h = {} /\ Len(s) >= 1 /\ s[1] = Update(e)
           /\ \A m \in 2 .. Len(s) : s[m] \in TenantShares \cup {Share(IncidentOf[e])}
        \/ Update(e) \in h /\ h \subseteq {Update(e)} \cup (TenantShares \cup {Share(IncidentOf[e])})
           /\ s \in Seq(TenantShares \cup {Share(IncidentOf[e])})
  BY DEF ResultAt
<1>5. PICK E : E = TenantShares \cup {Share(IncidentOf[e])}
  OBVIOUS
<1>6. Update(e) \in g /\ g \subseteq {Update(e)} \cup E /\ t \in Seq(E)
  <2>1. CASE h = {} /\ s[1] = Update(e) /\ \A m \in 2 .. Len(s) : s[m] \in E
    <3>1. \A m \in 1 .. Len(t) : t[m] = s[m + 1] /\ m + 1 \in 2 .. Len(s)
      BY <1>3
    <3>2. t \in Seq(E)
      BY <1>3, <2>1, <3>1, AllIn
    <3> QED  BY <1>2, <1>3, <2>1, <3>2
  <2>2. CASE Update(e) \in h /\ h \subseteq {Update(e)} \cup E /\ s \in Seq(E)
    <3>1. t \in Seq(E) /\ s[1] \in E
      BY <1>1, <2>2, TailFacts
    <3> QED  BY <1>2, <1>3, <2>2, <3>1
  <2> QED  BY <1>4, <1>5, <2>1, <2>2
<1>7. Update(e) \in g /\ g \subseteq {Update(e)} \cup (TenantShares \cup {Share(IncidentOf[e])})
      /\ t \in Seq(TenantShares \cup {Share(IncidentOf[e])})
  BY <1>5, <1>6
<1> QED  BY <1>1, <1>2, <1>7 DEF ResultAt

\* A seed that has its tenant's row goes on to a key.
LEMMA NextSeed ==
    ASSUME NEW S, NEW s \in Seq(S), s # <<>>, NEW h, SeedAt(s, h)
    PROVE  \A g : SeedAt(Tail(s), g)
<1>1. PICK t : t = Tail(s)
  OBVIOUS
<1>2. /\ Len(s) \in Nat /\ t \in Seq(S) /\ Len(t) = Len(s) - 1
      /\ \A m \in 1 .. (Len(s) - 1) : t[m] = s[m + 1]
  BY <1>1, TailFacts
<1>3. t \in Seq(KeyLocks)
  <2>1. CASE \A m \in 2 .. Len(s) : s[m] \in KeyLocks
    <3>1. \A m \in 1 .. Len(t) : t[m] = s[m + 1] /\ m + 1 \in 2 .. Len(s)
      BY <1>2
    <3> QED  BY <1>2, <2>1, <3>1, AllIn
  <2>2. CASE s \in Seq(KeyLocks)
    BY <1>1, <2>2, TailFacts
  <2> QED  BY <2>1, <2>2 DEF SeedAt
<1> QED  BY <1>1, <1>3 DEF SeedAt

\* Whatever the kind of a transaction, its next lock keeps what is known of it.
LEMMA NextProcess ==
    ASSUME NEW k, NEW s, NEW h, ProcessInv(k, s, h), s # <<>>
    PROVE  ProcessInv(k, Tail(s), h \cup {Head(s)})
<1>1. s \in Seq(Allowed(k)) /\ h \subseteq Allowed(k) /\ k \in Kinds \cup {"idle"} /\ k # "idle"
  BY DEF ProcessInv
<1>2. Tail(s) \in Seq(Allowed(k)) /\ Head(s) \in Allowed(k)
  BY <1>1, TailFacts
<1>3. k = "correlate" => CorrelateAt(Tail(s), h \cup {Head(s)})
  BY <1>1, NextCorrelate DEF ProcessInv
<1>4. k = "transition" => TransitionAt(Tail(s), h \cup {Head(s)})
  BY <1>1, NextTransition DEF ProcessInv
<1>5. k = "claim" => ClaimAt(Tail(s), h \cup {Head(s)})
  BY <1>1, NextClaim DEF ProcessInv
<1>6. k = "result" => ResultAt(Tail(s), h \cup {Head(s)})
  BY <1>1, NextResult DEF ProcessInv
<1>7. k = "seed" => SeedAt(Tail(s), h \cup {Head(s)})
  BY <1>1, NextSeed DEF ProcessInv
<1> QED  BY <1>1, <1>2, <1>3, <1>4, <1>5, <1>6, <1>7 DEF ProcessInv

\* The tenant of an alert or an incident.
LEMMA TenantShared ==
    ASSUME NEW r \in Alerts \cup IncidentRows
    PROVE  Share(TenantOf[r]) \in TenantShares
BY ResourceFacts DEF TenantShares

\* The plans of CorrelateAlert begin as they should.
LEMMA CorrelateStarts ==
    ASSUME NEW s \in CorrelatePlans
    PROVE  ProcessInv("correlate", s, {})
<1>1. "correlate" \in Kinds \ {"seed"}
  BY DEF Kinds
<1>2. ASSUME NEW a \in Alerts, NEW i \in IncidentRows, NEW t \in TenantShares,
             s = <<Update(a), Advisory, Update(i)>> \o <<t, Share(i)>>
      PROVE  s \in Seq(Allowed("correlate")) /\ CorrelateAt(s, {})
  <2>1. {Update(a), Advisory, Update(i), t, Share(i)} \subseteq Allowed("correlate")
    BY <1>1, AllowedFacts
  <2>2. /\ Len(s) = 5 /\ s[1] = Update(a) /\ s[2] = Advisory /\ s[3] = Update(i)
        /\ s[4] = t /\ s[5] = Share(i)
        /\ s \in Seq(Allowed("correlate"))
    BY <1>2, <2>1
  <2>3. \A m \in (3 + 1) .. Len(s) : s[m] \in TenantShares \cup {Share(i)}
    BY <2>2
  <2>4. JoinsFrom(s, 3)
    BY <2>2, <2>3 DEF JoinsFrom
  <2>5. s[1].on \in Alerts
    BY <2>2, LockFacts
  <2> QED  BY <2>2, <2>4, <2>5 DEF CorrelateAt
<1>3. ASSUME NEW a \in Alerts, NEW t \in TenantShares, s = <<Update(a), Advisory, t>>
      PROVE  s \in Seq(Allowed("correlate")) /\ CorrelateAt(s, {})
  <2>1. {Update(a), Advisory, t} \subseteq Allowed("correlate")
    BY <1>1, AllowedFacts
  <2>2. /\ Len(s) = 3 /\ s[1] = Update(a) /\ s[2] = Advisory /\ s[3] = t
        /\ s \in Seq(Allowed("correlate"))
    BY <1>3, <2>1
  <2>3. \A m \in 3 .. Len(s) : s[m] \in TenantShares
    BY <2>2
  <2>4. JoinsFrom(s, 3)
    BY <2>3 DEF JoinsFrom
  <2>5. s[1].on \in Alerts
    BY <2>2, LockFacts
  <2> QED  BY <2>2, <2>4, <2>5 DEF CorrelateAt
<1> DEFINE Rows(a) == {j \in IncidentRows : TenantOf[j] = TenantOf[a]}
           Joining(a, i) == <<Update(a), Advisory, Update(i)>> \o <<Share(TenantOf[i]), Share(i)>>
           Opening(a) == <<Update(a), Advisory, Share(TenantOf[a])>>
<1>4. s \in Seq(Allowed("correlate")) /\ CorrelateAt(s, {})
  <2>1. \/ s \in UNION {{Joining(a, i) : i \in Rows(a)} : a \in Alerts}
        \/ s \in {Opening(a) : a \in Alerts}
    <3>1. CorrelatePlans = {Opening(a) : a \in Alerts}
                           \cup UNION {{Joining(a, i) : i \in Rows(a)} : a \in Alerts}
      BY DEF CorrelatePlans, TimelineEntry, Advisory
    <3> HIDE DEF Joining, Opening, Rows
    <3> QED  BY <3>1
  <2>2. CASE s \in UNION {{Joining(a, i) : i \in Rows(a)} : a \in Alerts}
    <3>1. PICK a \in Alerts : s \in {Joining(a, i) : i \in Rows(a)}
      BY <2>2
    <3>2. PICK i \in IncidentRows : s = Joining(a, i)
      BY <3>1
    <3>3. Share(TenantOf[i]) \in TenantShares
      BY TenantShared
    <3> QED  BY <1>2, <3>2, <3>3
  <2>3. CASE s \in {Opening(a) : a \in Alerts}
    <3>1. PICK a \in Alerts : s = Opening(a)
      BY <2>3
    <3>2. Share(TenantOf[a]) \in TenantShares
      BY TenantShared
    <3> QED  BY <1>3, <3>1, <3>2
  <2> QED  BY <2>1, <2>2, <2>3
<1> QED  BY <1>1, <1>4 DEF ProcessInv

\* So do those of TransitionIncident, whatever escalations it meets.
LEMMA TransitionStarts ==
    ASSUME NEW s \in TransitionPlans
    PROVE  ProcessInv("transition", s, {})
<1>1. "transition" \in Kinds \ {"seed"}
  BY DEF Kinds
<1> DEFINE Rows(i) == {e \in EscalationRows : IncidentOf[e] = i}
           Plan(i, r) == <<Update(i)>> \o ([n \in DOMAIN r |-> Update(r[n])] \o <<Share(TenantOf[i]), Share(i)>>)
<1> PICK i \in IncidentRows :
       s \in {Plan(i, r) : r \in UNION {SetToSeqs(rows) : rows \in SUBSET Rows(i)}}
  BY DEF TransitionPlans, TimelineEntry
<1> PICK r \in UNION {SetToSeqs(rows) : rows \in SUBSET Rows(i)} : s = Plan(i, r)
  OBVIOUS
<1> PICK rows \in SUBSET Rows(i) : r \in SetToSeqs(rows)
  OBVIOUS
<1>2. rows \in SUBSET EscalationRows /\ \A e \in rows : IncidentOf[e] = i
  OBVIOUS
<1>3. r \in Seq(rows)
  BY <1>2, SeqsOf
<1>4. PICK f : f = [n \in DOMAIN r |-> Update(r[n])]
  OBVIOUS
<1>5. f \in Seq({Update(e) : e \in rows})
  BY <1>3, <1>4
<1>6. f \in Seq(Own(i))
  <2>1. {Update(e) : e \in rows} \subseteq Own(i)
    BY <1>2 DEF Own
  <2> QED  BY <1>5, <2>1, SeqGrows
<1>7. Share(TenantOf[i]) \in Own(i) /\ Share(i) \in Own(i)
  BY TenantShared DEF Own
<1>8. s = <<Update(i)>> \o (f \o <<Share(TenantOf[i]), Share(i)>>)
  BY <1>4
<1>9. /\ Len(s) >= 1 /\ s[1] = Update(i)
      /\ \A m \in 2 .. Len(s) : s[m] \in Own(i)
      /\ s \in Seq({Update(i)} \cup Own(i))
  <2>1. PICK g : g = f \o <<Share(TenantOf[i]), Share(i)>>
    OBVIOUS
  <2>2. s = <<Update(i)>> \o g
    BY <1>8, <2>1
  <2>3. <<Share(TenantOf[i]), Share(i)>> \in Seq(Own(i))
    BY <1>7
  <2>4. g \in Seq(Own(i))
    BY <1>6, <2>1, <2>3
  <2> HIDE DEF Plan
  <2> QED  BY <2>2, <2>4, Prefixed
<1>10. {Update(i)} \cup Own(i) \subseteq Allowed("transition")
  BY <1>1, AllowedFacts DEF Own
<1>11. s \in Seq(Allowed("transition"))
  BY <1>9, <1>10, SeqGrows
<1>12. TransitionAt(s, {})
  BY <1>9 DEF TransitionAt
<1> QED  BY <1>1, <1>11, <1>12 DEF ProcessInv

\* And those of CompleteEscalation and FailEscalation.
LEMMA ResultStarts ==
    ASSUME NEW s \in ResultPlans
    PROVE  ProcessInv("result", s, {})
<1>1. "result" \in Kinds \ {"seed"} /\ "result" \in {"transition"} \cup Scheduling
  BY DEF Kinds, Scheduling
<1>2. PICK e \in EscalationRows :
        s = <<Update(e)>> \o <<Share(TenantOf[IncidentOf[e]]), Share(IncidentOf[e])>>
  BY DEF ResultPlans, TimelineEntry
<1>3. IncidentOf[e] \in IncidentRows
  BY ResourceFacts
<1>4. PICK t \in TenantShares : t = Share(TenantOf[IncidentOf[e]])
  BY <1>3, TenantShared
<1>5. {Update(e), t, Share(IncidentOf[e])} \subseteq Allowed("result")
  BY <1>1, <1>3, AllowedFacts
<1>6. /\ Len(s) = 3 /\ s[1] = Update(e) /\ s[2] = t /\ s[3] = Share(IncidentOf[e])
      /\ s \in Seq(Allowed("result"))
  BY <1>2, <1>4, <1>5
<1>7. \A m \in 2 .. Len(s) : s[m] \in TenantShares \cup {Share(IncidentOf[e])}
  BY <1>6
<1>8. ResultAt(s, {})
  BY <1>6, <1>7 DEF ResultAt
<1> QED  BY <1>1, <1>6, <1>8 DEF ProcessInv

\* And BootstrapTenant's.
LEMMA SeedStarts ==
    ASSUME NEW s \in SeedPlans
    PROVE  ProcessInv("seed", s, {})
<1>1. "seed" \in Kinds
  BY DEF Kinds
<1>2. ASSUME NEW t \in TenantIds, s = <<Update(t)>>
      PROVE  s \in Seq(Allowed("seed")) /\ \A m \in 2 .. Len(s) : s[m] \in KeyLocks
  BY <1>2, AllowedFacts
<1>3. ASSUME NEW t \in TenantIds, NEW k \in KeyEntries, s = <<Update(t), Update(k)>>
      PROVE  s \in Seq(Allowed("seed")) /\ \A m \in 2 .. Len(s) : s[m] \in KeyLocks
  <2>1. Update(k) \in KeyLocks /\ {Update(t), Update(k)} \subseteq Allowed("seed")
    BY AllowedFacts DEF KeyLocks
  <2>2. Len(s) = 2 /\ s[2] = Update(k) /\ s \in Seq(Allowed("seed"))
    BY <1>3, <2>1
  <2> QED  BY <2>1, <2>2
<1>4. \/ \E t \in TenantIds : s = <<Update(t)>>
      \/ \E t \in TenantIds, k \in KeyEntries : s = <<Update(t), Update(k)>>
  BY DEF SeedPlans
<1> QED  BY <1>1, <1>2, <1>3, <1>4 DEF ProcessInv, SeedAt

\* A claim has its rows at once, and then the entries of those it buries.
RowLocks(rows) == {Update(e) : e \in rows}

\* The locks of timeline entries are tenants' and incidents'.
LEMMA EntriesOf ==
    ASSUME NEW rows \in SUBSET EscalationRows, NEW r \in Seq(rows)
    PROVE  TimelineEntries(r) \in Seq(TenantShares \cup {Share(IncidentOf[e]) : e \in rows})
<1>1. Len(r) \in Nat /\ 2 * Len(r) \in Nat
  OBVIOUS
<1>2. ASSUME NEW n \in 1 .. 2 * Len(r)
      PROVE  TimelineEntry(IncidentOf[r[(n + 1) \div 2]])[2 - (n % 2)]
                \in TenantShares \cup {Share(IncidentOf[e]) : e \in rows}
  <2>1. (n + 1) \div 2 \in 1 .. Len(r) /\ n % 2 \in {0, 1}
    BY <1>1
  <2>2. PICK e \in rows : e = r[(n + 1) \div 2]
    BY <2>1
  <2>3. IncidentOf[e] \in IncidentRows
    BY ResourceFacts
  <2>4. PICK x : x = Share(TenantOf[IncidentOf[e]])
    OBVIOUS
  <2>5. PICK y : y = Share(IncidentOf[e])
    OBVIOUS
  <2>6. x \in TenantShares
    BY <2>3, <2>4, TenantShared
  <2>7. TimelineEntry(IncidentOf[e]) = <<x, y>>
    BY <2>4, <2>5 DEF TimelineEntry
  <2>8. <<x, y>>[2 - (n % 2)] \in {x, y}
    BY <2>1
  <2> QED  BY <2>2, <2>5, <2>6, <2>7, <2>8
<1> QED  BY <1>1, <1>2 DEF TimelineEntries

\* A claim begins with its rows, and buries some of them.
LEMMA ClaimStarts ==
    ASSUME NEW rows \in SUBSET EscalationRows, NEW buried \in SUBSET rows,
           NEW r \in SetToSeqs(buried)
    PROVE  ProcessInv("claim", TimelineEntries(r), RowLocks(rows))
<1>1. "claim" \in Kinds \ {"seed"} /\ "claim" \in {"transition"} \cup Scheduling
  BY DEF Kinds, Scheduling
<1>2. PICK h : h = RowLocks(rows)
  OBVIOUS
<1>3. h \subseteq Allowed("claim")
  BY <1>1, <1>2, AllowedFacts DEF RowLocks
<1>4. BurialLocks(h) \subseteq Allowed("claim")
  BY <1>1, AllowedFacts, ResourceFacts DEF BurialLocks
<1>5. TimelineEntries(r) \in Seq(BurialLocks(h))
  <2>1. buried \in SUBSET EscalationRows /\ r \in Seq(buried)
    BY SeqsOf
  <2>2. TimelineEntries(r) \in Seq(TenantShares \cup {Share(IncidentOf[e]) : e \in buried})
    BY <2>1, EntriesOf
  <2>3. TenantShares \cup {Share(IncidentOf[e]) : e \in buried} \subseteq BurialLocks(h)
    BY <1>2 DEF BurialLocks, RowLocks
  <2> QED  BY <2>2, <2>3, SeqGrows
<1>6. TimelineEntries(r) \in Seq(Allowed("claim"))
  BY <1>4, <1>5, SeqGrows
<1> QED  BY <1>1, <1>2, <1>3, <1>5, <1>6 DEF ProcessInv, ClaimAt

\* A step of one transaction.
LEMMA OneProcess ==
    ASSUME LockInv, NEW p \in Processes, NEW k, NEW s, NEW h,
           kind' = [kind EXCEPT ![p] = k], plan' = [plan EXCEPT ![p] = s],
           held' = [held EXCEPT ![p] = h], ProcessInv(k, s, h),
           \A q \in Processes \ {p} : \A l \in h, m \in held[q] : ~Conflict(l, m)
    PROVE  LockInv'
<1>1. /\ DOMAIN kind = Processes /\ kind = [q \in Processes |-> kind[q]]
      /\ plan = [q \in Processes |-> plan[q]] /\ held = [q \in Processes |-> held[q]]
      /\ \A q \in Processes : ProcessInv(kind[q], plan[q], held[q])
      /\ Exclusive
  BY DEF LockInv
<1>2. /\ DOMAIN kind' = Processes /\ kind' = [q \in Processes |-> kind'[q]]
      /\ plan' = [q \in Processes |-> plan'[q]] /\ held' = [q \in Processes |-> held'[q]]
  BY <1>1
<1>3. /\ kind'[p] = k /\ plan'[p] = s /\ held'[p] = h
      /\ \A q \in Processes : q # p =>
            kind'[q] = kind[q] /\ plan'[q] = plan[q] /\ held'[q] = held[q]
  BY <1>1
<1>4. \A q \in Processes : ProcessInv(kind'[q], plan'[q], held'[q])
  <2> SUFFICES ASSUME NEW q \in Processes PROVE ProcessInv(kind'[q], plan'[q], held'[q])
    OBVIOUS
  <2>1. CASE q = p
    BY <1>3, <2>1
  <2>2. CASE q # p
    BY <1>1, <1>3, <2>2
  <2> QED  BY <2>1, <2>2
<1>5. Exclusive'
  <2> SUFFICES ASSUME NEW q \in Processes, NEW r \in Processes, q # r,
                      NEW l \in held'[q], NEW m \in held'[r]
               PROVE  ~Conflict(l, m)
    BY DEF Exclusive, Conflict
  <2>1. CASE q # p /\ r # p
    BY <1>1, <1>3, <2>1 DEF Exclusive
  <2>2. CASE q = p
    BY <1>3, <2>2
  <2>3. CASE r = p
    <3>1. ~Conflict(m, l)
      BY <1>3, <2>3
    <3> QED  BY <3>1, LockFacts
  <2> QED  BY <2>1, <2>2, <2>3
<1> QED  BY <1>2, <1>4, <1>5 DEF LockInv

\* A transaction begins.
LEMMA StartKeeps ==
    ASSUME LockInv, NEW p \in Processes, NEW k, NEW s, Start(p, k, s), ProcessInv(k, s, {})
    PROVE  LockInv'
<1>1. held[p] = {} /\ held = [held EXCEPT ![p] = {}]
  BY DEF LockInv, ProcessInv, Start
<1>2. /\ kind' = [kind EXCEPT ![p] = k] /\ plan' = [plan EXCEPT ![p] = s]
      /\ held' = [held EXCEPT ![p] = {}]
  BY <1>1 DEF Start
<1> QED  BY <1>2, OneProcess

\* A claim begins.
LEMMA ClaimRowsKeeps ==
    ASSUME LockInv, NEW p \in Processes, NEW rows \in SUBSET EscalationRows,
           NEW buried \in SUBSET rows, ClaimRows(p, rows, buried)
    PROVE  LockInv'
<1>1. PICK h : h = RowLocks(rows)
  OBVIOUS
<1>2. PICK r \in SetToSeqs(buried) : plan' = [plan EXCEPT ![p] = TimelineEntries(r)]
  BY DEF ClaimRows
<1>3. PICK s : s = TimelineEntries(r)
  OBVIOUS
<1>4. ProcessInv("claim", s, h)
  BY <1>1, <1>3, ClaimStarts
<1>5. /\ kind' = [kind EXCEPT ![p] = "claim"] /\ plan' = [plan EXCEPT ![p] = s]
      /\ held' = [held EXCEPT ![p] = h]
  BY <1>1, <1>2, <1>3 DEF ClaimRows, RowLocks
<1>6. \A q \in Processes \ {p} : \A l \in h, m \in held[q] : ~Conflict(l, m)
  BY <1>1 DEF ClaimRows, IsFree, Obstructs, RowLocks
<1> QED  BY <1>4, <1>5, <1>6, OneProcess

\* A transaction gets its next lock.
LEMMA AcquireKeeps ==
    ASSUME LockInv, NEW p \in Processes, Acquire(p)
    PROVE  LockInv'
<1>1. PICK k : k = kind[p]
  OBVIOUS
<1>2. PICK s : s = Tail(plan[p])
  OBVIOUS
<1>3. PICK g : g = held[p] \cup {Head(plan[p])}
  OBVIOUS
<1>4. PICK old \in OldEntries(p) :
        (\A l \in old : IsFree(p, l)) /\ held' = [held EXCEPT ![p] = @ \cup {Head(plan[p])} \cup old]
  BY DEF Acquire
<1>5. PICK h : h = g \cup old
  OBVIOUS
<1>6. ProcessInv(k, s, g)
  BY <1>1, <1>2, <1>3, NextProcess DEF LockInv, Acquire
<1>7. ProcessInv(k, s, h)
  <2>1. CASE old = {}
    BY <1>5, <1>6, <2>1
  <2>2. CASE old # {}
    <3>1. k = "seed" /\ old \subseteq KeyLocks
      BY <1>1, <1>4, <2>2 DEF OldEntries, KeyLocks
    <3>2. h \subseteq Allowed("seed")
      BY <1>5, <1>6, <3>1, AllowedFacts DEF ProcessInv
    <3>3. SeedAt(plan[p], held[p]) /\ plan[p] \in Seq(Allowed(k)) /\ plan[p] # <<>>
      BY <1>1, <3>1 DEF LockInv, ProcessInv, Acquire
    <3>4. SeedAt(s, h)
      BY <1>2, <3>3, NextSeed
    <3> QED  BY <1>6, <3>1, <3>2, <3>4 DEF ProcessInv
  <2> QED  BY <2>1, <2>2
<1>8. /\ kind' = [kind EXCEPT ![p] = k] /\ plan' = [plan EXCEPT ![p] = s]
      /\ held' = [held EXCEPT ![p] = h]
  BY <1>1, <1>2, <1>3, <1>4, <1>5 DEF LockInv, Acquire
<1>9. \A q \in Processes \ {p} : \A l \in h, m \in held[q] : ~Conflict(l, m)
  <2> SUFFICES ASSUME NEW q \in Processes, q # p, NEW l \in h, NEW m \in held[q]
               PROVE  ~Conflict(l, m)
    OBVIOUS
  <2>1. CASE l \in held[p]
    BY <2>1 DEF LockInv, Exclusive
  <2>2. CASE l = Head(plan[p])
    BY <2>2 DEF Acquire, IsFree, Obstructs
  <2>3. CASE l \in old
    BY <1>4, <2>3 DEF IsFree, Obstructs
  <2> QED  BY <1>3, <1>5, <2>1, <2>2, <2>3
<1> QED  BY <1>7, <1>8, <1>9, OneProcess

\* A transaction ends.
LEMMA EndOfProcessKeeps ==
    ASSUME LockInv, NEW p \in Processes, End(p)
    PROVE  LockInv'
<1>1. ProcessInv("idle", <<>>, {})
  BY DEF ProcessInv
<1>2. /\ kind' = [kind EXCEPT ![p] = "idle"] /\ plan' = [plan EXCEPT ![p] = <<>>]
      /\ held' = [held EXCEPT ![p] = {}]
  BY DEF End
<1> QED  BY <1>1, <1>2, OneProcess

\* The invariant holds at first, and every step keeps it.
LEMMA LockInitKeeps == LockInit => LockInv
<1> SUFFICES ASSUME LockInit PROVE LockInv
  OBVIOUS
<1>1. \A p \in Processes : kind[p] = "idle" /\ plan[p] = <<>> /\ held[p] = {}
  BY DEF LockInit
<1>2. ProcessInv("idle", <<>>, {})
  BY DEF ProcessInv
<1>3. /\ DOMAIN kind = Processes /\ kind = [p \in Processes |-> kind[p]]
      /\ plan = [p \in Processes |-> plan[p]] /\ held = [p \in Processes |-> held[p]]
  BY DEF LockInit
<1>4. Exclusive
  BY <1>1 DEF Exclusive
<1> QED  BY <1>1, <1>2, <1>3, <1>4 DEF LockInv

\* Every step keeps the invariant.
LEMMA LockStepKeeps == LockInv /\ [LockNext]_lockVars => LockInv'
<1> SUFFICES ASSUME LockInv, [LockNext]_lockVars PROVE LockInv'
  OBVIOUS
<1>1. CASE UNCHANGED lockVars
  BY <1>1 DEF lockVars, LockInv, Exclusive
<1>2. ASSUME NEW p \in Processes, NEW s \in CorrelatePlans, Start(p, "correlate", s)
      PROVE  LockInv'
  BY <1>2, StartKeeps, CorrelateStarts
<1>3. ASSUME NEW p \in Processes, NEW s \in TransitionPlans, Start(p, "transition", s)
      PROVE  LockInv'
  BY <1>3, StartKeeps, TransitionStarts
<1>4. ASSUME NEW p \in Processes, NEW s \in ResultPlans, Start(p, "result", s)
      PROVE  LockInv'
  BY <1>4, StartKeeps, ResultStarts
<1>5. ASSUME NEW p \in Processes, NEW s \in SeedPlans, Start(p, "seed", s)
      PROVE  LockInv'
  BY <1>5, StartKeeps, SeedStarts
<1>6. ASSUME NEW p \in Processes, Commit(p) \/ Rollback(p)
      PROVE  LockInv'
  BY <1>6, EndOfProcessKeeps DEF Commit, Rollback
<1>7. CASE LockNext
  BY <1>2, <1>3, <1>4, <1>5, <1>6, <1>7, ClaimRowsKeeps, AcquireKeeps DEF LockNext
<1> QED  BY <1>1, <1>7

-----------------------------------------------------------------------------
(***************************************************************************)
(* Cycles.                                                                 *)
(***************************************************************************)

\* What a transaction that waits has to do with the one it waits for.
LEMMA WaitFacts ==
    ASSUME LockInv, NEW p \in Processes, NEW q \in Processes,
           WaitsFor(p, q)
    PROVE  /\ p # q /\ plan[p] # <<>> /\ kind[p] \in Kinds /\ kind[q] \in Kinds
           /\ Head(plan[p]) \in Allowed(kind[p])
           /\ held[p] \subseteq Allowed(kind[p]) /\ held[q] \subseteq Allowed(kind[q])
           /\ \E m \in held[q] : Conflict(Head(plan[p]), m)
<1>1. ProcessInv(kind[p], plan[p], held[p]) /\ ProcessInv(kind[q], plan[q], held[q])
  BY DEF LockInv
<1>2. p # q /\ plan[p] # <<>> /\ \E m \in held[q] : Conflict(Head(plan[p]), m)
  BY DEF WaitsFor, Obstructs
<1>3. Head(plan[p]) \in Allowed(kind[p])
  BY <1>1, <1>2, TailFacts DEF ProcessInv
<1> QED  BY <1>1, <1>2, <1>3 DEF ProcessInv

\* A lock on which somebody waits is not one of his own.
LEMMA NotMine ==
    ASSUME LockInv, NEW p \in Processes, NEW q \in Processes, WaitsFor(p, q),
           NEW i, Head(plan[p]) \in {Share(i), Update(i)}, Update(i) \in held[p]
    PROVE  FALSE
<1>1. PICK m \in held[q] : Conflict(Head(plan[p]), m)
  BY DEF WaitsFor, Obstructs
<1>2. Conflict(Update(i), m)
  BY <1>1, LockFacts DEF Conflict
<1>3. p # q
  BY DEF WaitsFor
<1> QED  BY <1>2, <1>3 DEF LockInv, Exclusive

\* Two transactions do not both have what one of them may change.
LEMMA OneOwner ==
    ASSUME LockInv, NEW p \in Processes, NEW q \in Processes, NEW r,
           Update(r) \in held[p], NEW m \in held[q], m.on = r
    PROVE  p = q
BY LockFacts DEF LockInv, Exclusive, Conflict

\* A group in which each waits for another of them, and no smaller one does.
Cycle(group) ==
    /\ group \in SUBSET Processes
    /\ Deadlocked(group)
    /\ \A smaller \in SUBSET group : Deadlocked(smaller) => smaller = group

\* In a cycle each has a lock, waits for one of them and makes one of them wait.
LEMMA CycleFacts ==
    ASSUME LockInv, NEW G, Cycle(G), NEW p \in G
    PROVE  /\ held[p] # {}
           /\ \E q \in G : WaitsFor(p, q)
           /\ \E q \in G : WaitsFor(q, p)
<1>1. \A r \in G : \E q \in G : WaitsFor(r, q)
  BY DEF Cycle, Deadlocked
<1>2. \E q \in G : WaitsFor(q, p)
  <2> SUFFICES ASSUME \A q \in G : ~WaitsFor(q, p) PROVE FALSE
    OBVIOUS
  <2>1. PICK q \in G : WaitsFor(p, q)
    BY <1>1
  <2>2. q \in G \ {p}
    BY <2>1 DEF WaitsFor
  <2>3. \A r \in G \ {p} : \E s \in G \ {p} : WaitsFor(r, s)
    BY <1>1
  <2>4. Deadlocked(G \ {p})
    BY <2>2, <2>3 DEF Deadlocked
  <2>5. G \ {p} = G
    BY <2>4 DEF Cycle
  <2> QED  BY <2>5
<1>3. held[p] # {}
  BY <1>2 DEF WaitsFor, Obstructs
<1> QED  BY <1>1, <1>2, <1>3

\* A seed in a cycle waits for a key, which only seeds have.
LEMMA SeedWaits ==
    ASSUME LockInv, NEW G, Cycle(G), NEW p \in G, kind[p] = "seed"
    PROVE  /\ Head(plan[p]).on \in KeyEntries
           /\ \A q \in Processes : WaitsFor(p, q) => kind[q] = "seed"
<1>1. p \in Processes /\ held[p] # {} /\ plan[p] # <<>>
  BY CycleFacts DEF WaitsFor, Cycle
<1>2. plan[p] \in Seq(KeyLocks)
  BY <1>1 DEF LockInv, ProcessInv, SeedAt
<1>3. Head(plan[p]) \in KeyLocks
  BY <1>1, <1>2, TailFacts
<1>4. Head(plan[p]).on \in KeyEntries
  BY <1>3, LockFacts DEF KeyLocks
<1>5. ASSUME NEW q \in Processes, WaitsFor(p, q) PROVE kind[q] = "seed"
  <2>1. PICK m \in held[q] : Conflict(Head(plan[p]), m) /\ m \in Allowed(kind[q])
    BY <1>1, <1>5, WaitFacts
  <2>2. m.on \in KeyEntries
    BY <1>4, <2>1 DEF Conflict
  <2> QED  BY <2>1, <2>2 DEF Allowed
<1> QED  BY <1>4, <1>5

\* No seed is in group G.
SeedFree(G) == \A q \in G : kind[q] # "seed"

\* A cycle with a seed is one of seeds.
LEMMA SeedsAlone ==
    ASSUME LockInv, NEW G, Cycle(G)
    PROVE  SeedFree(G) \/ \A q \in G : kind[q] = "seed"
<1> SUFFICES ASSUME ~SeedFree(G) PROVE \A q \in G : kind[q] = "seed"
  OBVIOUS
<1>1. PICK D : D = {q \in G : kind[q] = "seed"}
  OBVIOUS
<1>2. \A q \in D : \E r \in D : WaitsFor(q, r)
  <2> SUFFICES ASSUME NEW q \in D PROVE \E r \in D : WaitsFor(q, r)
    OBVIOUS
  <2>1. q \in G /\ kind[q] = "seed"
    BY <1>1
  <2>2. PICK r \in G : WaitsFor(q, r)
    BY <2>1, CycleFacts
  <2>3. r \in Processes
    BY DEF Cycle
  <2>4. kind[r] = "seed"
    BY <2>1, <2>2, <2>3, SeedWaits
  <2> QED  BY <1>1, <2>2, <2>4
<1>3. Deadlocked(D)
  BY <1>1, <1>2 DEF Deadlocked, SeedFree
<1>4. D = G
  BY <1>1, <1>3 DEF Cycle
<1> QED  BY <1>1, <1>4

\* In the others nobody waits for a tenant's row.
LEMMA NoSeeds ==
    ASSUME LockInv, NEW G, Cycle(G), SeedFree(G), NEW p \in G
    PROVE  Head(plan[p]) \notin TenantShares
<1> SUFFICES ASSUME NEW t \in TenantIds, Head(plan[p]) = Share(t) PROVE FALSE
  BY DEF TenantShares
<1>1. PICK q \in G : WaitsFor(p, q)
  BY CycleFacts
<1>2. p \in Processes /\ q \in Processes
  BY DEF Cycle
<1>3. PICK m \in held[q] : Conflict(Head(plan[p]), m) /\ m \in Allowed(kind[q])
  BY <1>1, <1>2, WaitFacts
<1>4. m.on = t /\ m.mode = "update"
  BY <1>3, LockFacts DEF Conflict
<1>5. kind[q] = "seed"
  BY <1>3, <1>4 DEF Allowed
<1> QED  BY <1>5 DEF SeedFree

\* A correlator in a cycle is before its incident.
LEMMA EarlyCorrelators ==
    ASSUME LockInv, NEW G, Cycle(G), SeedFree(G), NEW p \in G, kind[p] = "correlate"
    PROVE  \/ /\ \A l \in held[p] : l.on \in Alerts
              /\ Head(plan[p]) = Advisory
           \/ /\ \A l \in held[p] : l.on \in Alerts \cup {"advisory"}
              /\ Head(plan[p]).on \in IncidentRows
<1>1. PICK q \in G : WaitsFor(p, q)
  BY CycleFacts
<1>2. p \in Processes /\ q \in Processes
  BY DEF Cycle
<1>3. /\ plan[p] # <<>> /\ held[p] # {} /\ Head(plan[p]) \notin TenantShares
      /\ CorrelateAt(plan[p], held[p]) /\ plan[p] \in Seq(Allowed(kind[p]))
  BY <1>1, <1>2, CycleFacts, NoSeeds DEF WaitsFor, LockInv, ProcessInv
<1>4. Head(plan[p]) = plan[p][1] /\ Len(plan[p]) \in Nat /\ Len(plan[p]) >= 1
  BY <1>3, TailFacts
<1>5. CASE (\A l \in held[p] : l.on \in Alerts) /\ plan[p][1] = Advisory
  BY <1>4, <1>5
<1>6. CASE (\A l \in held[p] : l.on \in Alerts \cup {"advisory"}) /\ JoinsFrom(plan[p], 1)
  <2>1. \E i \in IncidentRows : plan[p][1] = Update(i)
    BY <1>3, <1>4, <1>6 DEF JoinsFrom
  <2> QED  BY <1>4, <1>6, <2>1, LockFacts
<1>7. CASE plan[p] \in Seq(EntryLocks(held[p]))
  <2>1. Head(plan[p]) \in EntryLocks(held[p])
    BY <1>3, <1>7, TailFacts
  <2>2. PICK i \in IncidentRows : Update(i) \in held[p] /\ Head(plan[p]) = Share(i)
    BY <1>3, <2>1 DEF EntryLocks
  <2> QED  BY <1>1, <1>2, <2>2, NotMine
<1> QED  BY <1>3, <1>5, <1>6, <1>7 DEF CorrelateAt

\* They are in no cycle: they are in the way of one another only, and take their
\* locks in one order.
LEMMA NoCorrelators ==
    ASSUME LockInv, NEW G, Cycle(G), SeedFree(G), NEW p \in G
    PROVE  kind[p] # "correlate"
<1>1. PICK D : D = {q \in G : kind[q] # "correlate"}
  OBVIOUS
<1>2. ASSUME NEW q \in G, NEW r \in G, WaitsFor(q, r), kind[r] = "correlate"
      PROVE  kind[q] = "correlate" /\ Head(plan[q]).on \in Alerts \cup {"advisory"}
  <2>1. q \in Processes /\ r \in Processes
    BY DEF Cycle
  <2>2. PICK m \in held[r] : Conflict(Head(plan[q]), m)
    BY <1>2, <2>1, WaitFacts
  <2>3. m.on \in Alerts \cup {"advisory"}
    BY <1>2, EarlyCorrelators
  <2>4. Head(plan[q]).on \in Alerts \cup {"advisory"} /\ Head(plan[q]) \in Allowed(kind[q])
    BY <1>2, <2>1, <2>2, <2>3, WaitFacts DEF Conflict
  <2> QED  BY <2>4 DEF Allowed
<1>3. D # {}
  <2> SUFFICES ASSUME \A q \in G : kind[q] = "correlate" PROVE FALSE
    BY <1>1
  <2>1. \A q \in G : Head(plan[q]).on \in Alerts \cup {"advisory"}
    BY <1>2, CycleFacts
  <2>2. \A q \in G : Head(plan[q]) = Advisory /\ \A l \in held[q] : l.on \in Alerts
    BY <2>1, EarlyCorrelators, ResourceFacts
  <2>3. PICK q \in G : WaitsFor(p, q)
    BY CycleFacts
  <2>4. PICK m \in held[q] : Conflict(Head(plan[p]), m)
    BY <2>3 DEF WaitsFor, Obstructs
  <2>5. m.on = "advisory" /\ m.on \in Alerts
    BY <2>2, <2>4, LockFacts DEF Conflict, Advisory
  <2> QED  BY <2>5, ResourceFacts
<1>4. \A q \in D : \E r \in D : WaitsFor(q, r)
  BY <1>1, <1>2, CycleFacts
<1>5. Deadlocked(D)
  BY <1>3, <1>4 DEF Deadlocked
<1>6. D = G
  BY <1>1, <1>5 DEF Cycle
<1> QED  BY <1>1, <1>6

\* A transition in a cycle has its incident and waits for one of its escalations.
LEMMA TransitionsInCycles ==
    ASSUME LockInv, NEW G, Cycle(G), SeedFree(G), NEW p \in G, kind[p] = "transition"
    PROVE  \E i \in IncidentRows : \E e \in EscalationRows :
              /\ Update(i) \in held[p] /\ held[p] \subseteq {Update(i)} \cup Own(i)
              /\ IncidentOf[e] = i /\ Head(plan[p]) = Update(e)
<1>1. PICK q \in G : WaitsFor(p, q)
  BY CycleFacts
<1>2. p \in Processes /\ q \in Processes
  BY DEF Cycle
<1>3. /\ plan[p] # <<>> /\ held[p] # {} /\ Head(plan[p]) \notin TenantShares
      /\ TransitionAt(plan[p], held[p])
  BY <1>1, <1>2, CycleFacts, NoSeeds DEF WaitsFor, LockInv, ProcessInv
<1>4. PICK i \in IncidentRows :
        Update(i) \in held[p] /\ held[p] \subseteq {Update(i)} \cup Own(i) /\ plan[p] \in Seq(Own(i))
  BY <1>3 DEF TransitionAt
<1>5. Head(plan[p]) \in Own(i)
  BY <1>3, <1>4, TailFacts
<1>6. Head(plan[p]) # Share(i)
  BY <1>1, <1>2, <1>4, NotMine
<1>7. PICK e \in EscalationRows : IncidentOf[e] = i /\ Head(plan[p]) = Update(e)
  BY <1>3, <1>5, <1>6 DEF Own
<1> QED  BY <1>4, <1>7

\* A transaction of the scheduler in a cycle waits for the incident of one of its
\* escalations.
LEMMA SchedulersInCycles ==
    ASSUME LockInv, NEW G, Cycle(G), SeedFree(G), NEW p \in G, kind[p] \in Scheduling
    PROVE  \E e \in EscalationRows :
              Update(e) \in held[p] /\ Head(plan[p]) = Share(IncidentOf[e])
<1>1. plan[p] # <<>> /\ held[p] # {} /\ Head(plan[p]) \notin TenantShares /\ p \in Processes
  BY CycleFacts, NoSeeds DEF WaitsFor, Cycle
<1>2. CASE kind[p] = "claim"
  <2>1. plan[p] \in Seq(BurialLocks(held[p]))
    BY <1>1, <1>2 DEF LockInv, ProcessInv, ClaimAt
  <2>2. Head(plan[p]) \in BurialLocks(held[p])
    BY <1>1, <2>1, TailFacts
  <2> QED  BY <1>1, <2>2 DEF BurialLocks
<1>3. CASE kind[p] = "result"
  <2>1. PICK e \in EscalationRows :
          Update(e) \in held[p] /\ plan[p] \in Seq(TenantShares \cup {Share(IncidentOf[e])})
    BY <1>1, <1>3 DEF LockInv, ProcessInv, ResultAt
  <2>2. Head(plan[p]) \in TenantShares \cup {Share(IncidentOf[e])}
    BY <1>1, <2>1, TailFacts
  <2> QED  BY <1>1, <2>1, <2>2
<1> QED  BY <1>2, <1>3 DEF Scheduling

\* Nothing else is in a cycle.
LEMMA KindsInCycles ==
    ASSUME LockInv, NEW G, Cycle(G), SeedFree(G), NEW p \in G
    PROVE  kind[p] = "transition" \/ kind[p] \in Scheduling
<1>1. p \in Processes /\ plan[p] # <<>>
  BY CycleFacts DEF Cycle, WaitsFor
<1>2. kind[p] \in Kinds \cup {"idle"} /\ kind[p] # "idle"
  BY <1>1 DEF LockInv, ProcessInv
<1> QED  BY <1>2, NoCorrelators DEF Kinds, SeedFree

\* An escalation is locked by its incident's transition or by the scheduler; an
\* incident's change by a correlator or the incident's transition.
LEMMA WhoHas ==
    ASSUME LockInv, NEW q \in Processes, NEW m \in held[q]
    PROVE  /\ m.on \in EscalationRows =>
                 m = Update(m.on) /\ (kind[q] = "transition" \/ kind[q] \in Scheduling)
           /\ m.on \in IncidentRows /\ m.mode = "update" =>
                 m = Update(m.on) /\ kind[q] \in {"correlate", "transition"}
           /\ kind[q] = "transition" =>
                 \E i \in IncidentRows : Update(i) \in held[q] /\ held[q] \subseteq {Update(i)} \cup Own(i)
<1>1. m \in Allowed(kind[q]) /\ m \in Locks
  BY DEF LockInv, ProcessInv, Allowed
<1>2. kind[q] = "transition" =>
        \E i \in IncidentRows : Update(i) \in held[q] /\ held[q] \subseteq {Update(i)} \cup Own(i)
  BY DEF LockInv, ProcessInv, TransitionAt
<1> QED  BY <1>1, <1>2, LockFacts DEF Allowed

\* A lock on an incident or an escalation that a transition of incident i has.
LEMMA OwnFacts ==
    ASSUME NEW i \in IncidentRows, NEW m \in {Update(i)} \cup Own(i)
    PROVE  /\ m.on \in EscalationRows => IncidentOf[m.on] = i
           /\ m.on \in IncidentRows => m.on = i
<1>1. \/ m \in {Update(i), Share(i)} \/ m \in TenantShares
      \/ \E e \in EscalationRows : IncidentOf[e] = i /\ m = Update(e)
  BY DEF Own
<1>2. m.on = i \/ m.on \in TenantIds \/ \E e \in EscalationRows : IncidentOf[e] = i /\ m.on = e
  BY <1>1, LockFacts DEF TenantShares
<1> QED  BY <1>2, ResourceFacts

\* In a cycle transitions wait for the scheduler.
LEMMA TransitionWaits ==
    ASSUME LockInv, NEW G, Cycle(G), SeedFree(G), NEW p \in G, kind[p] = "transition",
           NEW q \in Processes, WaitsFor(p, q)
    PROVE  kind[q] \in Scheduling
<1>1. PICK i \in IncidentRows, e \in EscalationRows :
        /\ Update(i) \in held[p] /\ IncidentOf[e] = i /\ Head(plan[p]) = Update(e)
  BY TransitionsInCycles
<1>2. p \in Processes /\ p # q
  BY DEF Cycle, WaitsFor
<1>3. PICK m \in held[q] : m.on = e
  BY <1>1, LockFacts DEF WaitsFor, Obstructs, Conflict
<1>4. kind[q] = "transition" \/ kind[q] \in Scheduling
  BY <1>3, WhoHas
<1>5. ASSUME kind[q] = "transition" PROVE FALSE
  <2>1. PICK j \in IncidentRows : Update(j) \in held[q] /\ held[q] \subseteq {Update(j)} \cup Own(j)
    BY <1>3, <1>5, WhoHas
  <2>2. j = i
    BY <1>1, <1>3, <2>1, OwnFacts
  <2>3. Update(i).on = i
    BY LockFacts
  <2> QED  BY <1>1, <1>2, <2>1, <2>2, <2>3, OneOwner
<1> QED  BY <1>4, <1>5

\* In a cycle the scheduler's transactions wait for transitions: an incident is
\* changed by one transaction at a time.
LEMMA SchedulerWaits ==
    ASSUME LockInv, NEW G, Cycle(G), SeedFree(G), NEW p \in G, kind[p] \in Scheduling,
           NEW q \in Processes, WaitsFor(p, q)
    PROVE  kind[q] = "transition"
<1>1. PICK e \in EscalationRows : Update(e) \in held[p] /\ Head(plan[p]) = Share(IncidentOf[e])
  BY SchedulersInCycles
<1>2. PICK i \in IncidentRows : i = IncidentOf[e]
  BY ResourceFacts
<1>3. ASSUME NEW r \in Processes, WaitsFor(p, r)
      PROVE  Update(i) \in held[r] /\ kind[r] \in {"correlate", "transition"}
  <2>1. PICK m \in held[r] : Conflict(Head(plan[p]), m)
    BY <1>3 DEF WaitsFor, Obstructs
  <2>2. m.on = i /\ m.mode = "update"
    BY <1>1, <1>2, <2>1, LockFacts DEF Conflict
  <2> QED  BY <2>2, WhoHas
<1>4. PICK r \in G : WaitsFor(p, r)
  BY CycleFacts
<1>5. r \in Processes /\ kind[r] = "transition"
  <2>1. r \in Processes
    BY DEF Cycle
  <2> QED  BY <1>3, <1>4, <2>1, NoCorrelators
<1>6. q = r
  <2>1. Update(i) \in held[q] /\ Update(i) \in held[r] /\ Update(i).on = i
    BY <1>3, <1>4, <1>5, LockFacts
  <2> QED  BY <1>5, <2>1, OneOwner
<1> QED  BY <1>5, <1>6

\* The scheduler waits for the transition that waits for it, unless a claim has
\* escalations of two incidents.
LEMMA PairOrSpan ==
    ASSUME LockInv, NEW G, Cycle(G), SeedFree(G), NEW p \in G, kind[p] = "transition",
           NEW q \in G, kind[q] \in Scheduling, WaitsFor(p, q)
    PROVE  WaitsFor(q, p) \/ SpansIncidents(q)
<1>1. PICK i \in IncidentRows, e \in EscalationRows :
        /\ Update(i) \in held[p] /\ IncidentOf[e] = i /\ Head(plan[p]) = Update(e)
  BY TransitionsInCycles
<1>2. PICK f \in EscalationRows : Update(f) \in held[q] /\ Head(plan[q]) = Share(IncidentOf[f])
  BY SchedulersInCycles
<1>3. p \in Processes /\ q \in Processes /\ p # q /\ plan[q] # <<>>
  BY CycleFacts DEF Cycle, WaitsFor
<1>4. Update(e) \in held[q]
  <2>1. PICK m \in held[q] : m.on = e
    BY <1>1, LockFacts DEF WaitsFor, Obstructs, Conflict
  <2> QED  BY <1>3, <2>1, WhoHas
<1>5. CASE IncidentOf[f] = i
  <2>1. Conflict(Head(plan[q]), Update(i))
    BY <1>2, <1>5, LockFacts DEF Conflict
  <2> QED  BY <1>1, <1>3, <2>1 DEF WaitsFor, Obstructs
<1>6. CASE IncidentOf[f] # i
  <2>1. e # f
    BY <1>1, <1>6
  <2>2. ASSUME kind[q] = "result" PROVE FALSE
    <3>1. PICK g \in EscalationRows : held[q] \subseteq {Update(g)} \cup (TenantShares \cup {Share(IncidentOf[g])})
      BY <1>3, <2>2 DEF LockInv, ProcessInv, ResultAt
    <3>2. \A r \in {e, f} : Update(r) \notin TenantShares /\ Update(r) # Share(IncidentOf[g])
      BY LockFacts DEF TenantShares
    <3>3. Update(e) = Update(g) /\ Update(f) = Update(g)
      BY <1>2, <1>4, <3>1, <3>2
    <3> QED  BY <2>1, <3>3, LockFacts
  <2>3. kind[q] = "claim"
    BY <2>2 DEF Scheduling
  <2> QED  BY <1>1, <1>2, <1>4, <1>6, <2>3 DEF SpansIncidents
<1> QED  BY <1>5, <1>6

\* Workers alone never wait for one another in a circle, and with operators and
\* seeds only as CyclesAlternate says: for any number of transactions at once, of
\* tenants and keys, and of incidents and escalations claimed together.
THEOREM AlternatingCycles == LockSpec => []CyclesAlternate
<1>1. LockInit => LockInv
  BY LockInitKeeps
<1>2. LockInv /\ [LockNext]_lockVars => LockInv'
  BY LockStepKeeps
<1>3. LockInv => LockTypeOK
  <2> SUFFICES ASSUME LockInv PROVE LockTypeOK
    OBVIOUS
  <2>1. \A k : Allowed(k) \subseteq Locks
    BY DEF Allowed
  <2>2. \A p \in Processes :
           kind[p] \in Kinds \cup {"idle"} /\ plan[p] \in Seq(Locks) /\ held[p] \subseteq Locks
    <3> SUFFICES ASSUME NEW p \in Processes
                 PROVE  kind[p] \in Kinds \cup {"idle"} /\ plan[p] \in Seq(Locks)
                        /\ held[p] \subseteq Locks
      OBVIOUS
    <3>1. /\ kind[p] \in Kinds \cup {"idle"} /\ plan[p] \in Seq(Allowed(kind[p]))
          /\ held[p] \subseteq Allowed(kind[p])
      BY DEF LockInv, ProcessInv
    <3>2. plan[p] \in Seq(Locks)
      BY <2>1, <3>1, SeqGrows
    <3> QED  BY <2>1, <3>1, <3>2
  <2>3. /\ kind \in [Processes -> Kinds \cup {"idle"}] /\ plan \in [Processes -> Seq(Locks)]
        /\ held \in [Processes -> SUBSET Locks]
    BY <2>2 DEF LockInv
  <2>4. \A p \in Processes : \A l \in held[p] : IsFree(p, l)
    BY DEF LockInv, Exclusive, IsFree, Obstructs
  <2> QED  BY <2>3, <2>4 DEF LockTypeOK
<1>4. ASSUME LockInv, NEW p \in Processes, InCycle(p)
      PROVE  /\ \A q \in Processes : WaitsFor(p, q) =>
                   \/ kind[p] = "transition" /\ kind[q] \in Scheduling
                   \/ kind[p] \in Scheduling /\ kind[q] = "transition"
                   \/ kind[p] = "seed" /\ kind[q] = "seed" /\ Head(plan[p]).on \in KeyEntries
             /\ \E q \in Processes :
                   /\ WaitsFor(p, q)
                   /\ WaitsFor(q, p) \/ SpansIncidents(p) \/ SpansIncidents(q) \/ kind[p] = "seed"
  <2>1. PICK G : Cycle(G) /\ p \in G
    BY <1>4 DEF InCycle, Cycle
  <2>2. G \subseteq Processes
    BY <2>1 DEF Cycle
  <2>3. PICK q \in G : WaitsFor(p, q)
    BY <1>4, <2>1, CycleFacts
  <2>4. CASE SeedFree(G) /\ kind[p] = "transition"
    <3>1. \A r \in Processes : WaitsFor(p, r) => kind[r] \in Scheduling
      BY <1>4, <2>1, <2>4, TransitionWaits
    <3>2. WaitsFor(q, p) \/ SpansIncidents(q)
      BY <1>4, <2>1, <2>2, <2>3, <2>4, <3>1, PairOrSpan
    <3> QED  BY <2>2, <2>3, <2>4, <3>1, <3>2
  <2>5. CASE SeedFree(G) /\ kind[p] \in Scheduling
    <3>1. \A r \in Processes : WaitsFor(p, r) => kind[r] = "transition"
      BY <1>4, <2>1, <2>5, SchedulerWaits
    <3>2. PICK t \in G : WaitsFor(t, p)
      BY <1>4, <2>1, CycleFacts
    <3>3. kind[t] = "transition"
      <4>1. ASSUME kind[t] \in Scheduling PROVE FALSE
        <5>1. kind[p] = "transition"
          BY <1>4, <2>1, <2>5, <3>2, <4>1, SchedulerWaits
        <5> QED  BY <2>5, <5>1 DEF Scheduling
      <4> QED  BY <1>4, <2>1, <2>5, <3>2, <4>1, KindsInCycles
    <3>4. WaitsFor(p, t) \/ SpansIncidents(p)
      BY <1>4, <2>1, <2>5, <3>2, <3>3, PairOrSpan
    <3> QED  BY <2>2, <2>3, <2>5, <3>1, <3>2, <3>4
  <2>6. CASE \A r \in G : kind[r] = "seed"
    <3>1. kind[p] = "seed"
      BY <2>1, <2>6
    <3>2. /\ Head(plan[p]).on \in KeyEntries
          /\ \A r \in Processes : WaitsFor(p, r) => kind[r] = "seed"
      BY <1>4, <2>1, <3>1, SeedWaits
    <3> QED  BY <2>2, <2>3, <3>1, <3>2
  <2>7. SeedFree(G) => kind[p] = "transition" \/ kind[p] \in Scheduling
    BY <1>4, <2>1, KindsInCycles
  <2> QED  BY <1>4, <2>1, <2>4, <2>5, <2>6, <2>7, SeedsAlone
<1>5. LockInv => CyclesAlternate
  BY <1>3, <1>4 DEF CyclesAlternate
<1> QED  BY <1>1, <1>2, <1>5, PTL DEF LockSpec
=============================================================================
