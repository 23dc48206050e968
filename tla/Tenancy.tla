------------------------------ MODULE Tenancy -------------------------------
(***************************************************************************)
(* cmd/seed, API keys and the default escalation policy: BootstrapTenant   *)
(* run again and by several processes while incidents are opened.          *)
(*                                                                         *)
(* The transaction of BootstrapTenant is split at its statements; what it  *)
(* writes is visible when it commits.  TenantByAPIKey and the INSERT ...   *)
(* SELECT that schedules an incident's escalations are one statement each. *)
(***************************************************************************)
EXTENDS Naturals, FiniteSets

CONSTANTS
    Slugs,      \* tenants
    ApiKeys,
    Targets,    \* values of NOTIFICATION_TARGET
    Seeders,    \* runs of cmd/seed
    Incidents,
    None        \* no key, no row

ASSUME TenancyConstants == None \notin Slugs \cup ApiKeys \cup Targets

VARIABLES
    tenant,    \* per tenant, its api_key_hash and the steps of its default policy
    seeding,   \* per seeder, its transaction
    schedule,  \* per incident, its tenant and the escalations it was opened with
    seeded     \* history: what the seeds committed so far asked for

vars == <<tenant, seeding, schedule, seeded>>

Seeds == [slug : Slugs, key : ApiKeys, target : Targets]

\* A step of the policy: its number and target.
Steps == [number : {0, 1}, target : Targets]

NoTenant == [key |-> None, steps |-> {}]

IdleSeeder == [phase |-> "idle", seed |-> None, steps |-> {}]

Init ==
    /\ tenant = [s \in Slugs |-> NoTenant]
    /\ seeding = [p \in Seeders |-> IdleSeeder]
    /\ schedule = [i \in Incidents |-> [slug |-> None, steps |-> {}]]
    /\ seeded = {}

-----------------------------------------------------------------------------
\* Seeder p has a row of tenants that is not committed.
Writing(p, slug) == seeding[p].phase # "idle" /\ seeding[p].seed.slug = slug

\* Faulty variant of KeyIsFree: only committed rows are compared.
KeyIsUnseen(seed) == \A s \in Slugs \ {seed.slug} : tenant[s].key # seed.key

\* api_key_hash is UNIQUE: an insertion waits for whoever is about to give the key
\* to a tenant, or to take it from one, and fails if another tenant has it.
KeyIsFree(seed) ==
    /\ \A s \in Slugs \ {seed.slug} : tenant[s].key # seed.key
    /\ \A p \in Seeders : seeding[p].phase # "idle" => seeding[p].seed.key # seed.key

\* INSERT INTO tenants ... ON CONFLICT (slug) DO UPDATE waits for the row.
UpsertTenant(p, seed) ==
    /\ seeding[p].phase = "idle"
    /\ \A o \in Seeders : ~Writing(o, seed.slug)
    /\ KeyIsFree(seed)
    /\ seeding' = [seeding EXCEPT ![p] = [phase |-> "upserted", seed |-> seed, steps |-> {}]]
    /\ UNCHANGED <<tenant, schedule, seeded>>

\* The upsert of the policy, which nobody else can hold, and DELETE and INSERT of
\* its steps.
ReplaceSteps(p) ==
    /\ seeding[p].phase = "upserted"
    /\ seeding' = [seeding EXCEPT ![p].phase = "replaced",
                                  ![p].steps = {[number |-> n, target |-> seeding[p].seed.target] :
                                                   n \in {0, 1}}]
    /\ UNCHANGED <<tenant, schedule, seeded>>

\* Faulty variant of CanCommit: the tenant is committed before its policy.
CanCommitEarly(p) == seeding[p].phase \in {"upserted", "replaced"}

CanCommit(p) == seeding[p].phase = "replaced"

CommitSeed(p) ==
    LET seed == seeding[p].seed
    IN  /\ CanCommit(p)
        /\ tenant' = [tenant EXCEPT ![seed.slug] = [key |-> seed.key, steps |-> seeding[p].steps]]
        /\ seeded' = seeded \cup {seed}
        /\ seeding' = [seeding EXCEPT ![p] = IdleSeeder]
        /\ UNCHANGED schedule

\* An error (also of the unique key), a deadlock, or the end of the process.
RollbackSeed(p) ==
    /\ seeding[p].phase # "idle"
    /\ seeding' = [seeding EXCEPT ![p] = IdleSeeder]
    /\ UNCHANGED <<tenant, schedule, seeded>>

-----------------------------------------------------------------------------
\* The answers TenantByAPIKey may give to APIKeyAuth and (Handler).ServeHTTP.
TenantByAPIKey(key) == {s \in Slugs : tenant[s].key = key}

\* An alert of the tenant opens an incident (CorrelateAlert, the create branch):
\* one escalation per step of the policy.
OpenIncident(i, s) ==
    /\ tenant[s].key # None
    /\ schedule[i].slug = None
    /\ schedule' = [schedule EXCEPT ![i] = [slug |-> s, steps |-> tenant[s].steps]]
    /\ UNCHANGED <<tenant, seeding, seeded>>

Next ==
    \/ \E p \in Seeders :
          \/ \E seed \in Seeds : UpsertTenant(p, seed)
          \/ ReplaceSteps(p)
          \/ CommitSeed(p)
          \/ RollbackSeed(p)
    \/ \E i \in Incidents, s \in Slugs : OpenIncident(i, s)

Spec == Init /\ [][Next]_vars

-----------------------------------------------------------------------------
(***************************************************************************)
(* Properties.                                                             *)
(***************************************************************************)

\* Every variable has its type; a tenant with a key has the two steps.
TypeOK ==
    /\ \A s \in Slugs :
          /\ tenant[s].key \in ApiKeys \cup {None}
          /\ tenant[s].steps \subseteq Steps
          /\ tenant[s].key # None => Cardinality(tenant[s].steps) = 2
    /\ \A p \in Seeders : seeding[p].phase \in {"idle", "upserted", "replaced"}
    /\ \A i \in Incidents : schedule[i].slug \in Slugs \cup {None}
    /\ seeded \subseteq Seeds

\* A key opens the data of one tenant only, also while seeds at the same time
\* exchange the keys of tenants: the look-up has at most one answer.
OneTenantPerKey == \A key \in ApiKeys : Cardinality(TenantByAPIKey(key)) <= 1

\* An incident opened while the policy is replaced has all of the old steps or
\* all of the new ones: never none, never some of each.  A tenant that can be
\* found by a key has its two steps.
PolicyIsWhole ==
    /\ TypeOK
    /\ \A i \in Incidents :
          schedule[i].slug # None =>
              \E seed \in seeded :
                  /\ seed.slug = schedule[i].slug
                  /\ schedule[i].steps = {[number |-> n, target |-> seed.target] : n \in {0, 1}}
=============================================================================
