------------------------------ MODULE Delivery ------------------------------
(***************************************************************************)
(* How an accepted alert reaches the correlator: the transactional outbox, *)
(* the relay replicas that publish it, the JetStream work queue and the    *)
(* durable consumer whose handler records every message in inbox_messages. *)
(*                                                                         *)
(* The broker is external: its actions model what the code of messaging    *)
(* and worker relies on (a stream that refuses messages when it is full,   *)
(* deduplication by message id within a window, redelivery until a message *)
(* is acknowledged or terminated).                                         *)
(*                                                                         *)
(* Time is abstracted to whether a moment has passed: available_at and     *)
(* lease_until of an outbox row, the deduplication window of a message id, *)
(* and AckWait or the delay of a negative acknowledgement.                 *)
(***************************************************************************)
EXTENDS Integers, FiniteSets

CONSTANTS
    Alerts,         \* alerts that may be ingested; also their event ids
    Poison,         \* messages of other publishers that fail EventEnvelope.Validate
    Relays,         \* worker replicas running an OutboxRelay
    Consumers,      \* worker replicas running a Correlator
    LeaseIds,       \* lease ids; one that nobody remembers stands for a new UUID
    Copies,         \* bound on the copies of one event known at the same time
    BatchSize,      \* OutboxRelay.batchSize
    StreamCapacity, \* MaxBytes of the stream, in messages
    MaxAckPending,  \* MaxAckPending of the durable consumer
    None            \* NULL, or nothing

ASSUME DeliveryConstants ==
    /\ Alerts \cap Poison = {}
    /\ None \notin LeaseIds \cup Alerts \cup Poison
    /\ BatchSize \in Nat \ {0}
    /\ StreamCapacity \in Nat \ {0}
    /\ MaxAckPending \in Nat \ {0}

VARIABLES
    outbox,    \* the table outbox_events
    relay,     \* per relay, the batch runBatch is publishing
    wire,      \* publish requests on their way to the broker
    stream,    \* the messages the stream holds
    pending,   \* those of them that are delivered and not yet due for redelivery
    dedup,     \* message ids within the deduplication window
    poisoned,  \* the poison messages published so far
    consumer,  \* per consumer, the message its callback is handling
    inbox,     \* the table inbox_messages
    applied    \* how often CorrelateAlert changed an incident for each alert

vars == <<outbox, relay, wire, stream, pending, dedup, poisoned, consumer, inbox, applied>>

Events == Alerts \cup Poison

Messages == [event : Events, copy : Copies]

OutboxRows == [status    : {"absent", "unpublished", "published"},
               available : BOOLEAN,
               lease     : LeaseIds \cup {None},
               expired   : BOOLEAN]

RelayJobs == [phase : {"idle", "claimed", "sending", "ok", "err"},
              lease : LeaseIds \cup {None}]

Publishes == [event : Alerts, lease : LeaseIds]

ConsumerJobs == [phase   : {"idle", "got", "done", "failed"},
                 message : Messages \cup {None}]

NoRelayJob == [phase |-> "idle", lease |-> None]
NoConsumerJob == [phase |-> "idle", message |-> None]

Init ==
    /\ outbox = [a \in Alerts |-> [status |-> "absent", available |-> FALSE,
                                   lease |-> None, expired |-> FALSE]]
    /\ relay = [r \in Relays |-> [a \in Alerts |-> NoRelayJob]]
    /\ wire = {}
    /\ stream = {}
    /\ pending = {}
    /\ dedup = {}
    /\ poisoned = {}
    /\ consumer = [c \in Consumers |-> NoConsumerJob]
    /\ inbox = {}
    /\ applied = [a \in Alerts |-> 0]

brokerVars == <<wire, stream, pending, dedup, poisoned>>
consumerVars == <<consumer, inbox, applied>>

-----------------------------------------------------------------------------
(***************************************************************************)
(* The outbox.                                                             *)
(***************************************************************************)

\* IngestAlert stores the alert and its event in one transaction.  The columns
\* available_at and lease_id default to now() and NULL.
IngestAlert(a) ==
    /\ outbox[a].status = "absent"
    /\ outbox' = [outbox EXCEPT ![a].status = "unpublished", ![a].available = TRUE]
    /\ UNCHANGED <<relay, brokerVars, consumerVars>>

\* available_at <= now() becomes true.
BecomesAvailable(a) ==
    /\ outbox[a].status = "unpublished" /\ ~outbox[a].available
    /\ outbox' = [outbox EXCEPT ![a].available = TRUE]
    /\ UNCHANGED <<relay, brokerVars, consumerVars>>

\* lease_until < now() becomes true.
LeaseExpires(a) ==
    /\ outbox[a].lease # None /\ ~outbox[a].expired
    /\ outbox' = [outbox EXCEPT ![a].expired = TRUE]
    /\ UNCHANGED <<relay, brokerVars, consumerVars>>

\* uuid.New(): an id that no row, no relay and no request mentions.
FreshLease(id) ==
    /\ \A a \in Alerts : outbox[a].lease # id /\ \A r \in Relays : relay[r][a].lease # id
    /\ \A p \in wire : p.lease # id

RelayIdle(r) == \A a \in Alerts : relay[r][a].phase = "idle"

\* candidates.
Unleased(a) ==
    /\ outbox[a].status = "unpublished"
    /\ outbox[a].available
    /\ outbox[a].lease = None \/ outbox[a].expired

ClaimRows(r, claimed) ==
    /\ RelayIdle(r)
    /\ Cardinality(claimed) <= BatchSize
    /\ \A a \in claimed : Unleased(a)
    /\ \E id \in LeaseIds :
          /\ FreshLease(id)
          /\ outbox' = [a \in Alerts |->
                          IF a \in claimed
                          THEN [outbox[a] EXCEPT !.lease = id, !.expired = FALSE]
                          ELSE outbox[a]]
          /\ relay' = [relay EXCEPT ![r] = [a \in Alerts |->
                          IF a \in claimed THEN [phase |-> "claimed", lease |-> id]
                                           ELSE NoRelayJob]]
    /\ UNCHANGED <<brokerVars, consumerVars>>

\* One statement; SKIP LOCKED makes any selection possible.
ClaimOutbox(r) == \E claimed \in (SUBSET Alerts) \ {{}} : ClaimRows(r, claimed)

\* publish: the request leaves; its answer may come, or the 5 seconds pass.
SendPublish(r, a) ==
    /\ relay[r][a].phase = "claimed"
    /\ relay' = [relay EXCEPT ![r][a].phase = "sending"]
    /\ wire' = wire \cup {[event |-> a, lease |-> relay[r][a].lease]}
    /\ UNCHANGED <<outbox, stream, pending, dedup, poisoned, consumerVars>>

PublishTimeout(r, a) ==
    /\ relay[r][a].phase = "sending"
    /\ relay' = [relay EXCEPT ![r][a].phase = "err"]
    /\ UNCHANGED <<outbox, brokerVars, consumerVars>>

\* Faulty variant of HoldsLease: the row is found by its id alone.
RowUnpublished(r, a) == outbox[a].status = "unpublished"

\* WHERE lease_id=$n AND published_at IS NULL.
HoldsLease(r, a) ==
    /\ outbox[a].lease = relay[r][a].lease
    /\ outbox[a].status = "unpublished"

\* Faulty variant of MarksPublished: the error of Publish is ignored.
MarksPublishedAnyway(phase) == phase \in {"ok", "err"}

\* Publish returned nil: the broker confirmed that it has the event.
MarksPublished(phase) == phase = "ok"

\* A row that is no longer held is ErrConflict, which is only logged.
MarkOutboxPublished(r, a) ==
    /\ MarksPublished(relay[r][a].phase)
    /\ relay' = [relay EXCEPT ![r][a] = NoRelayJob]
    /\ outbox' = IF HoldsLease(r, a)
                 THEN [outbox EXCEPT ![a].status = "published", ![a].lease = None,
                                     ![a].expired = FALSE]
                 ELSE outbox
    /\ UNCHANGED <<brokerVars, consumerVars>>

MarkOutboxFailed(r, a) ==
    /\ relay[r][a].phase = "err"
    /\ relay' = [relay EXCEPT ![r][a] = NoRelayJob]
    /\ outbox' = IF HoldsLease(r, a)
                 THEN [outbox EXCEPT ![a].available = FALSE, ![a].lease = None,
                                     ![a].expired = FALSE]
                 ELSE outbox
    /\ UNCHANGED <<brokerVars, consumerVars>>

\* The database cannot be reached: the error is logged, the lease runs out.
RelayStoreError(r, a) ==
    /\ relay[r][a].phase \in {"ok", "err"}
    /\ relay' = [relay EXCEPT ![r][a] = NoRelayJob]
    /\ UNCHANGED <<outbox, brokerVars, consumerVars>>

\* The worker process stops and a new one takes its place.
RelayCrash(r) ==
    /\ ~RelayIdle(r)
    /\ relay' = [relay EXCEPT ![r] = [a \in Alerts |-> NoRelayJob]]
    /\ UNCHANGED <<outbox, brokerVars, consumerVars>>

-----------------------------------------------------------------------------
(***************************************************************************)
(* The broker, as ensureTopology configures it.                            *)
(***************************************************************************)

\* A copy number the stream and the consumers do not mention.
FreshCopy(m) == m \notin stream /\ \A c \in Consumers : consumer[c].message # m

\* Faulty variant of Stored: MaxBytes is not set.
StoredUnlimited(m) == stream \cup {m}

\* The stream's content after it was asked to store m: DiscardNew refuses a
\* message that does not fit.
Stored(m) == IF Cardinality(stream) < StreamCapacity THEN stream \cup {m} ELSE stream

\* The answer to a publish request reaches the relay that waits for it, or not.
Answer(p, phase) ==
    \/ relay' = [r \in Relays |-> [a \in Alerts |->
                   IF a = p.event /\ relay[r][a] = [phase |-> "sending", lease |-> p.lease]
                   THEN [relay[r][a] EXCEPT !.phase = phase]
                   ELSE relay[r][a]]]
    \/ UNCHANGED relay

\* A request arrives, perhaps after the relay stopped waiting for its answer.
StreamStores(p) ==
    /\ p \in wire
    /\ p.event \notin dedup
    /\ \E copy \in Copies :
          LET m == [event |-> p.event, copy |-> copy]
          IN  /\ FreshCopy(m)
              /\ stream' = Stored(m)
              /\ pending' = pending \cap stream'
              /\ dedup' = IF m \in stream' THEN dedup \cup {p.event} ELSE dedup
              /\ Answer(p, IF m \in stream' THEN "ok" ELSE "err")
    /\ wire' = wire \ {p}
    /\ UNCHANGED <<outbox, poisoned, consumerVars>>

\* A message id within the window is confirmed and not stored again.
StreamDeduplicates(p) ==
    /\ p \in wire
    /\ p.event \in dedup
    /\ Answer(p, "ok")
    /\ wire' = wire \ {p}
    /\ UNCHANGED <<outbox, stream, pending, dedup, poisoned, consumerVars>>

PublishLost(p) ==
    /\ p \in wire
    /\ wire' = wire \ {p}
    /\ UNCHANGED <<outbox, relay, stream, pending, dedup, poisoned, consumerVars>>

\* The deduplication window of a message id ends.
DedupForgets(a) ==
    /\ a \in dedup
    /\ dedup' = dedup \ {a}
    /\ UNCHANGED <<outbox, relay, wire, stream, pending, poisoned, consumerVars>>

\* Somebody else publishes on alerts.received.v1 what is no valid envelope.
PublishPoison(x) ==
    /\ x \notin poisoned
    /\ Cardinality(stream) < StreamCapacity
    /\ \E copy \in Copies : stream' = stream \cup {[event |-> x, copy |-> copy]}
    /\ poisoned' = poisoned \cup {x}
    /\ UNCHANGED <<outbox, relay, wire, pending, dedup, consumerVars>>

Deliver(c, m) ==
    /\ consumer[c].phase = "idle"
    /\ m \in stream \ pending
    /\ Cardinality(pending) < MaxAckPending
    /\ pending' = pending \cup {m}
    /\ consumer' = [consumer EXCEPT ![c] = [phase |-> "got", message |-> m]]
    /\ UNCHANGED <<outbox, relay, wire, stream, dedup, poisoned, inbox, applied>>

\* AckWait, or the delay of a negative acknowledgement, has passed.
RedeliveryDue(m) ==
    /\ m \in pending
    /\ pending' = pending \ {m}
    /\ UNCHANGED <<outbox, relay, wire, stream, dedup, poisoned, consumerVars>>

-----------------------------------------------------------------------------
(***************************************************************************)
(* The callback of ConsumeAlerts and the correlator's handler.             *)
(***************************************************************************)

\* An acknowledged or terminated message leaves the work queue.
Remove(m) == stream' = stream \ {m} /\ pending' = pending \ {m}

\* Faulty variant of Discards: an invalid message is given back to the stream.
DiscardsNothing(m) == UNCHANGED <<stream, pending>>

\* TermWithReason.
Discards(m) == Remove(m)

\* Unmarshal or Validate fails.
DiscardPoison(c) ==
    /\ consumer[c].phase = "got"
    /\ consumer[c].message.event \in Poison
    /\ Discards(consumer[c].message)
    /\ consumer' = [consumer EXCEPT ![c] = NoConsumerJob]
    /\ UNCHANGED <<outbox, relay, wire, dedup, poisoned, inbox, applied>>

\* Faulty variant of FirstDelivery: the inbox is not consulted.
EveryDelivery(a) == TRUE

\* INSERT INTO inbox_messages ... ON CONFLICT DO NOTHING inserts a row.
FirstDelivery(a) == a \notin inbox

\* CorrelateAlert commits: the inbox row and the incident's change together,
\* or nothing at all for a duplicate.  The error of a commit whose answer was
\* lost counts as a failure of the handler.
Correlate(c, outcome) ==
    /\ consumer[c].phase = "got"
    /\ consumer[c].message.event \in Alerts
    /\ LET a == consumer[c].message.event
       IN  /\ applied' = IF FirstDelivery(a) THEN [applied EXCEPT ![a] = @ + 1] ELSE applied
           /\ inbox' = inbox \cup {a}
    /\ consumer' = [consumer EXCEPT ![c].phase = outcome]
    /\ UNCHANGED <<outbox, relay, brokerVars>>

\* The transaction is rolled back.
CorrelateFails(c) ==
    /\ consumer[c].phase = "got"
    /\ consumer[c].message.event \in Alerts
    /\ consumer' = [consumer EXCEPT ![c].phase = "failed"]
    /\ UNCHANGED <<outbox, relay, brokerVars, inbox, applied>>

\* The handler returned nil.
Acknowledges(phase) == phase = "done"

\* DoubleAck, also of a message that was redelivered meanwhile.
Acknowledge(c) ==
    /\ Acknowledges(consumer[c].phase)
    /\ Remove(consumer[c].message)
    /\ consumer' = [consumer EXCEPT ![c] = NoConsumerJob]
    /\ UNCHANGED <<outbox, relay, wire, dedup, poisoned, inbox, applied>>

\* NakWithDelay, or an acknowledgement that does not arrive: the message stays
\* pending until its redelivery is due.
GiveBack(c) ==
    /\ consumer[c].phase \in {"done", "failed"}
    /\ consumer' = [consumer EXCEPT ![c] = NoConsumerJob]
    /\ UNCHANGED <<outbox, relay, brokerVars, inbox, applied>>

ConsumerCrash(c) ==
    /\ consumer[c].phase # "idle"
    /\ consumer' = [consumer EXCEPT ![c] = NoConsumerJob]
    /\ UNCHANGED <<outbox, relay, brokerVars, inbox, applied>>

-----------------------------------------------------------------------------
RelayStep(r, a) ==
    \/ SendPublish(r, a)
    \/ PublishTimeout(r, a)
    \/ MarkOutboxPublished(r, a)
    \/ MarkOutboxFailed(r, a)
    \/ RelayStoreError(r, a)

ConsumerStep(c) ==
    \/ DiscardPoison(c)
    \/ \E outcome \in {"done", "failed"} : Correlate(c, outcome)
    \/ CorrelateFails(c)
    \/ Acknowledge(c)
    \/ GiveBack(c)

Next ==
    \/ \E a \in Alerts : IngestAlert(a) \/ BecomesAvailable(a) \/ LeaseExpires(a) \/ DedupForgets(a)
    \/ \E r \in Relays : ClaimOutbox(r)
    \/ \E r \in Relays, a \in Alerts : RelayStep(r, a)
    \/ \E r \in Relays : RelayCrash(r)
    \/ \E p \in wire : StreamStores(p) \/ StreamDeduplicates(p) \/ PublishLost(p)
    \/ \E x \in Poison : PublishPoison(x)
    \/ \E c \in Consumers, m \in stream : Deliver(c, m)
    \/ \E m \in pending : RedeliveryDue(m)
    \/ \E c \in Consumers : ConsumerStep(c) \/ ConsumerCrash(c)

Spec == Init /\ [][Next]_vars

(***************************************************************************)
(* Fairness.  Clocks advance; relays and consumers poll for ever and their *)
(* calls have timeouts, so each started piece of work ends somehow (weak   *)
(* fairness).  Failures are transient, and the broker does not starve a    *)
(* message: what is tried again and again (a publish that fits, a delivery *)
(* to an idle consumer, the handler's transaction, a termination)          *)
(* eventually goes through before the next crash (strong fairness).        *)
(* Workers may still crash infinitely often.                               *)
(***************************************************************************)
Accepts(a) ==
    \E p \in wire :
        /\ p.event = a
        /\ StreamDeduplicates(p) \/ (StreamStores(p) /\ stream' # stream)

Fairness ==
    /\ \A a \in Alerts :
          /\ WF_vars(BecomesAvailable(a))
          /\ WF_vars(LeaseExpires(a))
          /\ WF_vars(\E r \in Relays, claimed \in SUBSET Alerts :
                        a \in claimed /\ ClaimRows(r, claimed))
          /\ \A r \in Relays : WF_vars(RelayStep(r, a))
          /\ SF_vars(\E r \in Relays : SendPublish(r, a))
          /\ SF_vars(Accepts(a))
          /\ SF_vars(\E c \in Consumers :
                        consumer[c].message \in Messages
                        /\ consumer[c].message.event = a /\ Correlate(c, "done"))
    /\ \A m \in Messages :
          /\ WF_vars(RedeliveryDue(m))
          /\ SF_vars(m \in stream /\ \E c \in Consumers : Deliver(c, m))
    /\ \A c \in Consumers :
          /\ WF_vars(ConsumerStep(c))
          /\ SF_vars(Acknowledge(c))
          /\ SF_vars(DiscardPoison(c))

FairSpec == Spec /\ Fairness

-----------------------------------------------------------------------------
(***************************************************************************)
(* Properties.                                                             *)
(***************************************************************************)

\* Every variable has its type, and the stream never holds more than MaxBytes
\* allows.
TypeOK ==
    /\ outbox \in [Alerts -> OutboxRows]
    /\ relay \in [Relays -> [Alerts -> RelayJobs]]
    /\ wire \subseteq Publishes
    /\ stream \subseteq Messages
    /\ pending \subseteq stream
    /\ dedup \subseteq Alerts
    /\ poisoned \subseteq Poison
    /\ consumer \in [Consumers -> ConsumerJobs]
    /\ inbox \subseteq Alerts
    /\ applied \in [Alerts -> Nat]
    /\ Cardinality(stream) <= StreamCapacity

\* The event of an alert survives: in the stream, or already in the inbox.
Safe(a) == a \in inbox \/ \E m \in stream : m.event = a

\* No accepted alert is lost: until CorrelateAlert has applied it, its event is
\* in the outbox as unpublished or in the stream, whatever crashes, whatever
\* answers are lost and however full the stream is.
NoAlertLost ==
    \A a \in Alerts : outbox[a].status = "published" => Safe(a)

\* However often an event is published, deduplicated too late and redelivered,
\* CorrelateAlert, which is one step here, changes incidents for it once, and only
\* if it is in the inbox.
AppliedOnce ==
    \A a \in Alerts : applied[a] = IF a \in inbox THEN 1 ELSE 0

\* While the lease of an outbox row has not run out, only the relay that holds
\* it releases the row: the late result of an earlier holder does not (WHERE
\* lease_id=$n in MarkOutboxPublished and MarkOutboxFailed).
LiveLeaseIsRespected ==
    [][\A a \in Alerts :
          /\ outbox[a].lease # None
          /\ ~outbox[a].expired
          /\ outbox'[a].lease # outbox[a].lease
          => \E r \in Relays : /\ relay[r][a].lease = outbox[a].lease
                               /\ relay'[r][a].phase = "idle"]_vars

\* Every accepted alert is applied in the end, although the stream can be full,
\* poison messages can be in the way, and workers crash again and again.
EveryAlertIsApplied ==
    \A a \in Alerts : outbox[a].status = "unpublished" ~> a \in inbox
=============================================================================
