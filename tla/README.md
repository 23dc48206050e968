# Verification of IncidentFlow

TLA+ models of IncidentFlow (`src/`), checked with TLC on small instances, and
theorems about them, proved with TLAPS for every value of the constants.
`PROJECT.json` lists the runs, the theorems, which lines of the source each
definition stands for, and the hazards the properties are aimed at.

    tlc -workers 4 -config MCCorrelation.cfg MCCorrelation    # a run
    tlapm CorrelationProofs.tla                               # a module of proofs

## 1. The system

IncidentFlow receives alerts over HTTP, groups those that belong together into
incidents, and notifies people step by step until somebody acknowledges the
incident. Three kinds of processes, any number of each, share a PostgreSQL
database and a NATS JetStream stream:

- **api** (`cmd/api`, `internal/httpapi`) takes alerts and the operators'
  requests;
- **worker** (`cmd/worker`, `internal/worker`) runs an outbox relay, a correlator
  and an escalation scheduler;
- **mcp** (`cmd/mcp`, `internal/mcpapi`) offers read-only tools, among them a
  summary of an incident written by rules or by a language model
  (`internal/ai`).

`cmd/migrate` and `cmd/seed` run at deployment, perhaps several at once.

The processes share no memory. All coordination is in transactions of
`internal/database`, in leases that end by the clock, and in the broker's
acknowledgements.

    client --POST /v1/alerts--> api --tx--> alerts + outbox_events
                                                 | claim under a lease
    stream ALERTS <--publish with message id-- relay
        | deliver, redeliver
    correlator --tx--> inbox_messages + incidents + incident_timeline
                                      + incident_escalations
                                                 | claim, lease + fencing token
    operator --ack/resolve--tx--> incidents     scheduler --HTTP--> target
                       (cancels the escalations)

### Inventory

| Component | State | Operations | What makes it correct | Module |
|---|---|---|---|---|
| Ingestion (`alerts.go`, `httpapi/server.go`) | `alerts`, `outbox_events` | POST /v1/alerts, `IngestAlert` | one alert and one event per idempotency key; true answers; a retry is not a conflict | Ingest |
| Outbox and relay (`workers.go`, `relay.go`) | `outbox_events` with its lease | `ClaimOutbox`, `publish`, `MarkOutboxPublished`, `MarkOutboxFailed` | an accepted event is not lost; a late relay does not disturb the next holder | Delivery |
| Bus (`nats.go`) | stream, consumer, deduplication window | `Publish`, `ensureTopology`, callback of `ConsumeAlerts` | full streams, poison, redelivery lose nothing and block nothing for ever | Delivery |
| Correlator (`correlator.go`, `incidents.go`) | `inbox_messages`, `incidents`, `incident_timeline` | `handle`, `CorrelateAlert` | each alert counts once; aggregates are exact; a storm is one incident | Correlation, Delivery |
| Transitions (`incidents.go`, `httpapi/server.go`) | `incidents.status`, `version` | `TransitionIncident` | the state machine, complete history, a version that vouches for what was read | Correlation, Escalation, Domain |
| Scheduler (`scheduler.go`, `workers.go`) | `incident_escalations` with lease and fencing token | `ClaimEscalations`, `process`, `CompleteEscalation`, `FailEscalation` | one outcome per escalation, none after the acknowledgement, late workers are harmless | Escalation |
| Notifier and sink (`notifier.go`, `server.go`) | `notification_deliveries` | `Notify`, `RecordNotification` | one payload per idempotency key | Escalation |
| Domain rules (`internal/domain`) | none | `Rank`, `MaxSeverity`, `CanTransition`, `Validate`, `NormalizedFingerprint` | order, state machine, a fingerprint that does not depend on the order of a map | Domain, Fingerprint |
| Queries (`incidents.go`, `httpapi/server.go`) | the client's cursor | `GetIncident`, `ListIncidents`, `Timeline` | paging shows everything once and ends | Correlation, Listing, Timeline |
| MCP tools and summaries (`mcpapi`, `ai`) | a call in progress | `get_incident_timeline`, `summarize_incident`, both summarizers | what a summary cites is evidence of the tenant's own incident; the two reads fit together | Timeline, Listing |
| Migrations (`migrate.go`, `cmd/migrate`) | `schema_migrations`, the schema | `Migrate` | each version once, in order, and a ledger that is true | Migrate |
| Bootstrap and API keys (`store.go`, `cmd/seed`) | `tenants`, `escalation_policy_steps` | `BootstrapTenant`, `TenantByAPIKey` | a key belongs to one tenant; incidents get whole policies | Tenancy |
| Locks (all of `internal/database`) | row, key and advisory locks | the transactions above | which can deadlock; all others get on by themselves | LockOrder |
| Times (`scheduler.go`, `notifier.go`, `config.go`) | `lease_until`, `due_at` | `retryDelay`, the bound of `WORKER_LEASE` | requests of a row overlap only after a slow claim; delays are kept; a row is settled by a known time | Timing |
| Webhook signatures, the rest of the configuration, HTTP plumbing | | | | not modelled, see 7 |

### What is hard here

- Every replica may stop between any two statements that reach the outside. The
  code relies on leases and on idempotent repetition, never on clean shutdown.
- A lease may end while its holder is alive. Every result can be late, for a row
  that was given to somebody else, retried, cancelled or buried meanwhile.
- Messages are delivered at least once, in any order, to several consumers.
  Alerts are therefore correlated out of order and sometimes by two workers at
  once.
- Operators work on the same rows as correlators and schedulers.
- Clients repeat requests whose answer they did not get.
- Readers use several statements, or several requests, and writers come in
  between.
- Deployments overlap: two builds migrate the same database at the same time.
- Go iterates maps in another order each time.

The full list, with the line at which each one bites, is `hazards` in
`PROJECT.json`.

## 2. Modules and their correspondence to the code

All SQL runs under READ COMMITTED. A transaction that takes its row locks in one
statement, and re-evaluates its WHERE clause after waiting, is one action. A
transaction that can wait in the middle is split at its waits. What happens
outside a transaction (a publish, an HTTP request, the time between claim and
result) is always separate steps.

A definition marked *faulty variant* in a comment is a plausible mistake in the
definition that follows it: a dropped guard, an off-by-one, a missing write. No
specification uses it. With the variant in place of the definition TLC refutes
the property paired with it in `mutants` of `PROJECT.json`; that is how we know
that the property can fail.

**Domain** has the pure rules: `Rank`, `MaxSeverity`, `CanTransition`.

**Ingest** models POST /v1/alerts. `handler[h]` is a request in progress at some
API server. `Receive` reads the clock; `InsertAlert` gets the unique key (tenant,
idempotency key) or waits while another transaction holds it; `CommitIngest`
stores alert and event, and its own answer may be lost; `FindDuplicate` is the
`ON CONFLICT DO NOTHING` path with the comparison of request hashes; `GiveUp` is
a refusal, a rollback or the end of the server. The request hash is taken as the
code takes it: after trimming (`padded`), before `occurred_at` gets its default.
The content of an alert is one value, and validity a set of values. The hash is
assumed free of collisions.

**Delivery** models the way from the outbox to the inbox. `outbox[a]` has the
columns that the relay reads, with the two moments it compares with `now()` as
Booleans; `relay[r][a]` is the goroutine of a claimed event; `wire` the publish
requests under way; `stream`, `pending` and `dedup` are the broker; `consumer[c]`
is the callback. The broker is external and modelled by what `nats.go` asks of
it: a work queue with `MaxBytes` and `DiscardNew`, a deduplication window that
ends (`DedupForgets`), at most `MaxAckPending` unacknowledged messages, and
redelivery without limit. A request may arrive after the relay stopped waiting
for it, and an answer may be lost after the message was stored. `CorrelateAlert`
is one step here; the next module takes it apart.

**Correlation** models `CorrelateAlert` and `TransitionIncident`. A correlation
can wait at three points and holds what it got until it commits: the unique key
of `inbox_messages` (`RecordInbox`), the advisory lock of tenant and fingerprint
(`LockFingerprint`), the row lock of the incident (`FindIncident`). `CommitOpened`
and `CommitJoined` publish its effects and end it; `Rollback` ends it at any
point. The update is computed from the row that the search read, as in the code,
so a missing lock would show as a lost update. The received alerts are data: every
assignment of fingerprints, times and severities is an initial state. `timeline`
has the entries these two transactions write. `escalation` stands for all rows of
an incident at once; since no scheduler is in this module, a row is never
`running` here. Escalation has the same transitions as the scheduler sees them;
the composition of the two is planned.

**Escalation** models the scheduler. `row[e]` is a row of `incident_escalations`
(`due` and the lease as facts about the clock); `job[w][e]` is the goroutine that
`runBatch` starts for a claimed row, with the values the claim returned;
`requests` and `received` are notifications sent and arrived. `ClaimEscalations`
is the single statement with its two parts: rows whose lease ended during their
last attempt are buried, rows that are due are leased. Since SKIP LOCKED lets a
claim skip any locked row, any selection within the LIMIT is possible. `StoreError`
is a failed transaction of a result, `Crash` the end of a worker process.

**EscalationContract** says what the scheduler promises without leases, tokens or
workers: at most `MaxTries` tries, one outcome, `sent` only if the target was
reached, `dead` only after the last try, `cancelled` only with all other open
escalations of the incident. `Escalation!Contract` is the refinement mapping.

**CorrelationContract** says what correlation promises without inbox, locks,
transactions or aggregate columns: an incident is a set of alerts with a status,
and an alert is placed in one step by looking at all incidents.
`Correlation!Contract` maps an incident to the alerts its timeline names.

**Timeline** models the audit trail. A transaction of an incident begins (that is
its `created_at`), locks the row, draws an id when it inserts, and is seen when it
commits; a failed one leaves a gap in the ids. A `call` is a tool: the timeline is
one statement, a summary reads the incident first and the timeline afterwards. The
language model is external and may answer anything; `Acceptable` is the check of
its citations, and the rule-based summarizer cites what it cites in the code.

**Listing** models `ListIncidents` and a client that goes through the pages with
the `last_seen_at` of the last row as cursor. Alerts and operators move incidents
meanwhile, up to `MaxTouch` of them. `client.cut` are the incidents that were left
out because a page ended between equal times.

**Migrate** models `Migrate` statement by statement, as nothing keeps two runs
apart. A body is opaque; the only thing said of it is whether a second execution
fails, because it creates relations. `files[p]` are the files of the build, `stored`
is the checksum column, `applied` the bodies committed so far. The initial
states have a new database, one with the old layout of the table, and a current
one. A run may fail at any statement, and the answer to a commit may be lost.

**Tenancy** models `BootstrapTenant` split at its statements, the unique index on
the key's hash, and the INSERT ... SELECT by which an incident gets its
escalations.

**LockOrder** has the locks only: each kind of transaction is the sequence of
locks its statements wait for, in that order, the implicit FOR KEY SHARE locks of
foreign keys and the entries of the unique index of `api_key_hash` included. A seed
locks its tenant's row, with it the index entry of the tenant's old key if that
changes, and then the entry of the new one (`SeedPlans`, `OldEntries`). A claim takes what is free (SKIP LOCKED), and the foreign
keys of the entries for buried rows come after all of it, at the end of the
statement. `Rollback` is a failure at any point, among them that PostgreSQL's deadlock
detector, which is external, ends the transaction.

**Fingerprint** models `Validate` and `NormalizedFingerprint`, with a step for each
label in any order, as Go's maps are iterated. A text is a value with a normal
form (trimmed, lower case) and a length that is too great or not. The digest is the
tuple that is hashed, taken for free of collisions, and a text as well: a given
fingerprint and a derived one are strings of one namespace, and a request may give
one that was derived from another.

**Timing** models a single row with an explicit clock in seconds: claims, whose lease
counts from the start of the statement and whose answer comes within `StoreTime`
(`Claim`, `NotifyBegins`), requests with their timeout, the delay of a retry with jitter and with a worker's clock
that differs from the database's, crashes. The lease is any that `Load` accepts
(`Admits`). `StoreTime` may be longer than the lease: the scheduler's store calls have
no deadline.

**DeliveryProofs, CorrelationProofs, EscalationProofs, IngestProofs,
TimelineProofs, MigrateProofs, TenancyProofs** and **TimingProofs** have the
theorems about the modules they are named after (section 5). IngestProofs also has
those about Fingerprint, the first part of the same handler, TimingProofs those
about Listing, whose cursor is a time, and TenancyProofs those about LockOrder,
in which the seeds of tenants take part. These proof modules extend both, so the
specifications of the three are `FingerprintSpec`, `ListingSpec` and `LockSpec`, where
the other modules say `Spec`. The modules **MC...** give constants their values for
TLC.

## 3. Runs

| Run | Instance | Distinct states | What it shows |
|---|---|---|---|
| ingest | 2 tenants, 1 key, 2 handlers, a valid and an invalid content, clock 0..1, up to 2 different answers | 325 062 | `OneAlertPerKey`, `EventPerAlert`, `ReceiptIsTrue`, `RetryIsRecognised` |
| delivery | 1 alert, a poison message, 2 relays, 1 consumer, a stream of one message | 45 426 | `NoAlertLost`, `AppliedOnce`, `LiveLeaseIsRespected`, the stream within its limit (`TypeOK`), `EveryAlertIsApplied` |
| correlation | 3 alerts, 2 fingerprints, times 0..2, window 1, 2 severities, 2 workers, 1 operator | 342 474 | `AlertCountedOnce`, `AggregatesAreExact`, `HistoryIsComplete`, `NoGapBeyondWindow`, `NoNeedlessSplit`, `VersionVouchesForState`, and the refinement `CorrelationIsAtomic` |
| escalation | 1 incident with 2 steps (2 and 1 attempts), 2 workers, batches of 2, 2 severities | 146 917 | `LeasesAreSound`, `SentByItsHolder`, `OnePayloadPerKey`, `ClosedIncidentIsQuiet`, `OutcomeRecordedOnce`, the refinement `KeepsContract`, `EveryRowSettles` |
| timeline | 2 incidents of 2 tenants, 2 writers, 1 caller, 3 entries, pages of 2, clock 0..1 | 395 012 | `ChangesAreInOrder`, `SummaryIsBacked`, `HistoryCoversState` |
| timeline_order | as timeline | violation | `TimelineIsChronological` is what two documents say; see 6 |
| listing | 3 incidents, pages of 1, times 0..2, all of them touched | 446 842 | `PagesAreExact`, `TraversalEnds` |
| migrate | 2 processes, 2 versions, 2 checksums, every build and old database | 31 258 | `LedgerIsTrue`, `SuccessIsVerified`, `EveryRunSucceeds` |
| tenancy | 2 tenants, 2 keys, 2 targets, 2 seeds at once, 2 incidents | 14 967 | `OneTenantPerKey`, `PolicyIsWhole` |
| lock_order | 3 transactions of any kind, 1 incident with 2 steps, 1 alert, 2 tenants, 2 keys | 241 781 | `CyclesAlternate`, `OthersGetOn` |
| fingerprint | 2 requests with any of 89 contents, up to 3 labels, given and derived fingerprints | 477 481 | `FingerprintIsStable`, `RefusalIsStable` |
| timing | 2 workers, 3 attempts, leases of 3 s (refused) and 10 s, store calls of up to 6 s, clocks that are up to 1 s ahead or behind | 3 777 384 | `OneSenderAtATime`, `BackoffIsKept`, `SettledInTime` |

Each module has a type invariant `TypeOK`, which also says what the tables' CHECK
clauses and the limits of the code say. In Delivery, Correlation and Escalation it
is a theorem of its own; in the other modules it is a conjunct of one of the
invariants above, and is proved with it.

All runs but *lock_order* say `CHECK_DEADLOCK FALSE`: under the bounds the system
comes to rest when every alert is applied, every row has its outcome, every run of
a tool has ended or the clock has reached its bound. In *lock_order* transactions
start for ever, and any of them may fail.

Why the bounds are enough for the cases that matter (the safety properties that
section 5 lists as proved do not depend on them):

- *ingest*: two requests at a time are what a unique key keeps apart. Two tenants
  show that keys do not meet; one step of the clock is what a retry without
  `occurred_at` must survive; two answers are an answer and its retry.
- *delivery*: a late relay and the current holder need two relays and two lease
  ids, which are used again once nobody remembers them. The stream holds one
  message, so that it is full most of the time; a second message of the same event
  appears when the deduplication window ends.
- *correlation*: times 0, 1, 2 with a window of 1 have pairs within and beyond the
  window and a middle alert that joins two sides, in each order of arrival; two
  fingerprints show that other locks are not in the way. Three alerts give three
  incidents at most, hence three ids.
- *escalation*: a row with a first and a last attempt beside a row with only one,
  in one batch or in two; a holder whose lease ran out beside the next one.
- *timeline*: three entries are one more than a page; two writers are needed for
  an order of ids that differs from the order of times.
- *listing*: pages of one have a boundary after each incident, and three times let
  incidents be equal, before and after.
- *migrate*: the first version creates relations, the second does not, so that
  the loser of a race is turned away by the schema or by the primary key.
- *lock_order*: the shortest cycle has two transactions; the third shows that it
  can make no longer one, but for seeds, and that it can come in between. Two steps
  let a claim or a transition want several rows; two tenants and two keys are what
  seeds need to exchange their keys. Cycles of four need four transactions
  and four escalations of two incidents, which is more than TLC can go through;
  for these `CyclesAlternate` rests on its proof.
- *fingerprint*: two of the label names differ in case only, one is blank and one
  too long; three labels are one more than the two that collide. One text is the
  fingerprint derived from another request, given in lower or in upper case.
- *timing*: 10 s is the shortest lease that `Load` accepts and a request may take 5 s;
  calls of the store of up to 6 s are just long enough for two requests to overlap.
  Three attempts have two different delays between them. The clock is bounded by the end of the row's life.

Symmetry is declared only for sets whose members are compared and never ordered,
and not in runs with a liveness property.

## 4. Fairness

*Scheduler* (`Escalation!Fairness`). Clocks advance: `due_at` and `lease_until`
pass. `process` ends, because `Notify` has a timeout of 7 s. `Run` polls until the
process ends, and the claim orders rows by due time, so a row that stays claimable
is taken in the end. All of it is weak fairness. Nothing is assumed of the target
(no request need ever arrive) nor against crashes: a worker may die in each
attempt, and the row still ends, because the claim counts the attempt before the
work starts and buries the row after the last one.

*Delivery* (`Delivery!Fairness`). The same weak fairness for clocks, polling and
calls with timeouts (5 s for a publish). In addition, strong fairness for what is
repeated without a limit: a claimed event is sent before its relay crashes again,
a publish that fits is accepted, an idle consumer gets each message, the
transaction of the correlator and an acknowledgement succeed. That is the meaning
of "transient" in the code's retries; without it a permanently failing database
or broker refutes any promise. Crashes may still occur infinitely often.

*Listing*: the client asks for the next page in the end (weak fairness of
`ReadPage`). Incidents may move all the time.

*Migrate*: a started run goes on and a failed one is started again (weak
fairness). `EveryRunSucceeds` is about behaviours in which failures end at some
time, and about builds that agree on the files they have in common.

*LockOrder*: PostgreSQL grants a lock that stays free, and a transaction that has all
its locks commits (weak fairness). No failure is assumed to come, neither a deadline
nor the deadlock detector. That is not enough for a transition to end while others
keep coming: the FOR KEY SHARE locks of foreign keys are compatible with each other
and pass by a waiting FOR UPDATE. `OthersGetOn` therefore is about behaviours in which
new transactions cease at some time, and from some time on no two are in progress that
can meet in a cycle (a transition and a transaction of the scheduler, or two seeds).
That the others end depends on the order in which they lock: with the incident before
its escalation in `CompleteEscalation` and `FailEscalation`, a result and a claim that
buries a row would block each other.

Ingest, Correlation, Timeline, Tenancy and Fingerprint state no liveness: what
happens after a failure there is up to the client or to redelivery, which is in
Delivery. Timing says by when a row is settled, which is an invariant.

## 5. Theorems

All proofs are inductive: an invariant `IInv` with `Init => IInv` and
`IInv /\ [Next]_vars => IInv'`, one lemma per action, and a theorem `Invariance`
that says so (`FInv`, `LInv` and `LockInv` for Fingerprint, Listing and LockOrder;
`TimeInv` beside `IInv` for Timing). Every one of them was checked with TLC on the
instance of the component's run as well. The theorems hold for any number of alerts, replicas,
incidents, operators, tenants, keys, attempts and versions, any times,
windows, page sizes and capacities, under the named assumptions of the modules
(`DeliveryConstants`, `CorrelationConstants`, `EscalationConstants`,
`IngestConstants`, `FingerprintConstants`, `TimelineConstants`, `ListingConstants`,
`MigrateConstants`, `TenancyConstants`, `LockOrderConstants`, `TimingConstants`):
positive batch sizes and limits, a NULL that is no value, severities among the
three known ones, finitely many incidents, escalations and labels of a request, at
least one worker, and that rows of different tables are different locks.
`config.Load`, the CHECK clauses of the schema and the kinds of things they are
guarantee them. Timing has no assumption that relates the times to each other;
`StoreTime` is any bound on the duration of the store calls.

**EscalationProofs**: `TypeCorrect`, `AcknowledgedIsQuiet`, `Fencing`,
`PendingIsFree` and `Claimability` (together `SoundLeases`), `SentIsDelivered`,
`StablePayload`, `Audited`, `Finality` (an action property), and `Refinement`: `Spec => Contract!Spec`. The
properties are not inductive alone, because they say nothing about where a job's
token and payload come from. `IInv` adds that the token of a row counts its
claims (`RowInv`), that every job stems from a claim with a token no greater than
the row's and carries its snapshot (`JobInv`), and that every request has the
snapshot's payload (`RequestInv`). A claim then makes a token that nobody has.

**DeliveryProofs**: `TypeCorrect`, `Durability` (`NoAlertLost`), `Idempotence`
(`AppliedOnce`), `LeaseRespect` (`LiveLeaseIsRespected`, an action property) and
`ExclusiveLease`. An outbox row is marked on the word of a relay, the relay believes
the broker, the broker its deduplication window, and a message leaves the stream
on the word of a consumer. `IInv` says that each of them is right: an event in the
window, or confirmed to a relay, is in the stream or the inbox (`PublisherInv`),
and a consumer that acknowledges has the event in the inbox (`ConsumerInv`).
`LiveLeaseIsRespected` says that the step that releases a live lease is a step of a
relay that knows its id; `ExclusiveLease` adds that no two relays know the same
id, as a claim draws one that nobody has, so that the relay is the holder.

**CorrelationProofs**: `TypeCorrect`, `Exactness`, `WindowChain`, `StormIsOne`,
`VersionTrust`, `Final` (an action property). The heart of `IInv` is `SearchInv`:
what a correlation found is still so when it commits. It follows from the locks
(`LockInv`, `TxInv`): no other correlation of the fingerprint is in progress, and
a transition needs the row lock. If none was found, a transition cannot create a
match, for it only moves incidents towards `resolved`. `NoGapBeyondWindow` is not
inductive: it speaks of the times of alerts only, and a later alert may fall
between two of them. `WindowInv` says it of every moment between first and last
seen. `Exactness` provides the alerts at the ends, from which the distance in
`NoNeedlessSplit` is measured when a new incident is opened.

`CountedOnce` (`AlertCountedOnce`) and `CompleteHistory` (`HistoryIsComplete`) are
about the entries of the timeline, which are counted and not merely collected. For
the first the committing correlation adds the only entry that names its alert, as
the inbox's key was free; for the second the update of an incident is computed from
the row as it still is. `HistoryInv` also ties the occurrence count to the entries
of the timeline; without it the number in the next entry would be unknown.

`Refinement` is `Spec => Contract!Spec` for CorrelationContract. Only the two
commits and a transition are steps of the contract, all others stutter. The
contract chooses the most recent incident that matches at the moment of the commit,
the code the one it found when it searched. `LatestInv` says they are the same: a
transition cannot make another incident match, and no other correlation of the
fingerprint can commit in between.

**IngestProofs**: `UniqueKey` (`OneAlertPerKey`), `AlertWithEvent`
(`EventPerAlert`), `TrueReceipts` (`ReceiptIsTrue`), `RetrySafe`
(`RetryIsRecognised`). Between INSERT and COMMIT the new row is known to its
transaction only, so nothing about `alerts` alone is inductive. `HandlerInv` and
`InsertedInv` say what the unique key and the fresh id are worth meanwhile: no
stored row and no other transaction has either. `AnswerInv` remembers the row each
answer was computed from, and `RowInv` that the hash of a row was taken of what
the row says. Both answers about a key then speak of the same row, and a conflict
means that the hashes, hence the requests, differ.

`StableFingerprint` (`FingerprintIsStable`) and `StableRefusal` (`RefusalIsStable`)
are about Fingerprint. Their invariant `FInv` says of each of the two loops what
does not depend on its order: what `Validate` has come by is valid as a set
(`ValidatingInv`), what it refuses has a reason among all labels (`RefusedInv`), and
the normalised map has each label come by under its key (`AcceptedInv`). Validity
says that no two keys become the same, so no label replaces another, and equal maps
are equal sets of pairs (`LabelsAreThePairs`). Nothing is assumed that would tell a
given fingerprint from a digest, so the theorem has the case in which a request gives
the digest of another (`Quotes`).

**TimelineProofs**: `OrderedTrail` (`ChangesAreInOrder`), `BackedSummary`
(`SummaryIsBacked`), `CoveringHistory` (`HistoryCoversState`). An id is drawn
before the commit, so ids and commits have different orders in general. `WriterInv`
and `LockInv` say that a transaction that changes an incident has it locked when it
draws its id, and its id is then greater than those of all changes committed so far
(`TrailInv`). For readers, `Seen`, `Paged` and `Backed` follow a call from
statement to statement: entries are never removed, and what is committed after the
incident was read has a greater version. What a page has is a set of lemmas
(`PageIsLimited`, `PageIsNotEmpty`, `PageIsFull`): no more than the limit, and
nothing is left out of it that is newer than any of it.

**MigrateProofs**: `TrueLedger` (`LedgerIsTrue`), `VerifiedSuccess`
(`SuccessIsVerified`). Nothing keeps two runs apart but the primary key. The rows of
the table are always those of a first part of the versions, the bodies committed
(`LedgerInv`). A run at version v has passed all before it (`Passed`); as bodies
are only added, the run that has the primary key of a version is about the next one,
and one run only comes so far (`OneCommits`). The checksum that `Passed` speaks of
is that of the body, not of the row: the row's can still be adopted by another
build.

**TenancyProofs**: `KeyOpensOneTenant` (`OneTenantPerKey`), `WholePolicy`
(`PolicyIsWhole`). `ApartInv` and `KeyInv` say what the unique index and the
tenant's row give a transaction until it commits: its tenant and its key for itself.
A commit shows all steps of one seed at once (`SeederInv`, `PolicyInv`), so the
single INSERT ... SELECT of an incident copies those of one seed.

`AlternatingCycles` (`CyclesAlternate`) is about LockOrder. `LockInv` says, for each
kind of transaction, which locks it has and which it still wants when it has come
so far (`CorrelateAt`, `TransitionAt`, `ClaimAt`, `ResultAt`, `SeedAt`), and that
what two of them have does not conflict. The rest is about a smallest group in
which each waits for another. Each makes another wait, so each has locks
(`CycleFacts`). A seed that has its tenant's row waits for a key, which only seeds have
(`SeedWaits`), so a group with a seed is one of seeds (`SeedsAlone`); in any other
nobody waits for a tenant's row (`NoSeeds`). There, correlators before their
incident are in the way of correlators only, and after it they wait for nobody who
waits; without them the group would still be one, and alone they take their
locks in one order (`NoCorrelators`). A transition that is left has its incident
and waits for an escalation of it, a transaction of the scheduler has escalations
and waits for the incident of one of them (`TransitionWaits`, `SchedulerWaits`); if
all it has are of one incident the two wait for each other (`PairOrSpan`).

**TimingProofs**: `OneSender` (`OneSenderAtATime`), `KeptBackoff` (`BackoffIsKept`),
`Punctual` (`SettledInTime`) and `TypeCorrect`. `LeaseInv` says that the lease of the
row's token counts from the start of its claim, and that the lease of a worker whose
token is not the row's any more has run out. A request of such a worker that still
goes on ends later than its lease, by at most its timeout after the answer to the
claim, so the answer was late. `OneSender` says how late: by more than what the
shortest lease leaves beside a request, whatever bound the store calls keep. `TokenInv` says
that tokens are not shared. A backoff is the due time of the row: `FailedInv` keeps
it from the failed attempt to the next claim, whose own time is the lease's end less
its length. For `SettledInTime` the bound is a sum over the attempts, the recursive
function `TimeFor`. That there is such a function is shown with a closed form of it
as the witness (`TimeForIs`), and that it grows with the attempts by way of a least
counterexample (`TimeForGrows`, `LeastNatural`). `TimeInv` then says that nothing the
row waits for, its due time, its lease or a worker that may still store a result,
comes later than the horizon of its attempt; each claim moves the horizon on by the
time of one attempt, and time does not pass a worker that is to poll.

`ExactPages` (`PagesAreExact`) is about Listing. The cursor only goes down, and
`last_seen_at` only goes up: what was shown stays at or above the cursor
(`ShownInv`), so no page has it again. Whatever is above the cursor and was to be
seen has been shown, was touched or cut off (`PassedInv`), since a page has the
greatest times of what is below the cursor, and all of it if it is not full.

### Only model-checked

- Liveness (`EveryAlertIsApplied`, `EveryRowSettles`, `TraversalEnds`,
  `EveryRunSucceeds`, `OthersGetOn`) and everything about ENABLED, which
  are out of the prover's reach.

Every invariant and every action property that a run checks is proved.

## 6. What was found

One disagreement between the code and its documents (run *timeline_order*):

- A timeline is not always chronological. `Timeline` orders by id, which is drawn
  when an entry is inserted (`incidents.go:248`), while `created_at` is the time at
  which the transaction began. A transaction that began first and waited for
  the incident's lock inserts later, and the entries are shown with decreasing
  times. `api/openapi.yaml:119` says "Chronological audit timeline.",
  `mcpapi/server.go:166` "in chronological order". What does hold is
  `ChangesAreInOrder`: the order is that of the changes.

Observations that contradict no document:

- Correlation depends on order. Alerts at 0, 20 and 10 minutes, correlated in this
  order with a window of 15, make two open incidents; in the order of their times
  they make one. `NoNeedlessSplit` and `CorrelationIsAtomic` state what does hold.
- `CompleteEscalation` and `FailEscalation` lock an escalation and then its
  incident (foreign key of the timeline entry), `TransitionIncident` the other way
  round. PostgreSQL ends such a deadlock by failing one transaction; Escalation
  contains the failure (`StoreError`), and its properties hold with it.
  `CyclesAlternate` shows that every cycle is one of transitions and transactions of
  the scheduler, or one of seeds only.
- Two seeds that exchange the keys of two tenants can wait for each other: each has
  its tenant's row and the entry of its old key and waits for the entry of its new
  one. PostgreSQL fails one of them (`RollbackSeed` in Tenancy), and the keys remain
  unique.
- A fingerprint that is given and one that is derived are strings of the same kind. A
  client that sends back, as `fingerprint`, the one shown on an incident puts its alert
  with the alerts from which that was derived, whatever service and title it names.
- `ClaimEscalations` has no deadline, and its lease counts from the start of the
  statement. A claim that buries a row of another incident may wait for a correlator,
  whose handler may take 20 s; a worker whose answer took more than 5 s with the
  shortest lease may still be sending when another one sends for the same row. The
  fencing token and the idempotency key are what keeps this harmless.
- Such cycles are not always pairs. Two claims can each have an escalation of two
  incidents and bury one of them: the first waits for incident 1, whose transition
  waits for an escalation that the second has; the second waits for incident 2,
  whose transition waits for an escalation that the first has. No two of the four
  wait for each other. Only claims over several incidents make it possible.
- A transition that waits for an incident's row can be passed by any number of
  transactions whose foreign keys refer to the incident (section 4).
- The cursor of `ListIncidents` is a time: of incidents with the same
  `last_seen_at` those behind a page's end are never shown. `PagesAreExact` holds
  but for these.
- Two builds with different files that find a version without checksum each write
  their own; the later one stays, and both succeed.
- The due time of a retry is computed with the worker's clock and compared with the
  database's, so a slow worker shortens the delay (`MaxSkew` in `BackoffIsKept`).

## 7. Not modelled

- `VerifyWebhook`: a check of one request that changes no state; `GiveUp` of Ingest
  contains every refusal.
- The times of the relay and of redelivery (`redeliveryDelay`): Delivery lets any
  time pass, which covers every delay. Timing has one row and no backlog. The time by
  which a row is settled counts every store call with `StoreTime`, a bound that the
  code does not set itself, and supposes that a worker polls within `Poll`.
- HTTP plumbing, logging, metrics, and the configuration other than `WORKER_LEASE`:
  no state of the system.
- Text: titles, descriptions, error messages and JSON; how a summary is worded.
- JetStream, PostgreSQL, the language model, the MCP protocol and the clients'
  HTTP libraries themselves.

## 8. Plan

Done in this order, the most important behaviour first: Escalation with its
contract, Delivery, Correlation, Ingest, the proofs of the first three; then
CorrelationContract, Timeline, Listing, Migrate, Tenancy, LockOrder, Fingerprint
and Timing; then the refinement of CorrelationContract and the proofs about Ingest,
Timeline, Migrate, Tenancy and Timing, and last those about Fingerprint, Listing,
LockOrder and the time by which a row is settled.

Next, models: **IncidentFlow**, Correlation and Escalation on one `incidents` table
and one timeline, with the scheduler's rows created and cancelled by the
transactions of Correlation; and an abstract specification of exactly-once
application that Delivery implements.
