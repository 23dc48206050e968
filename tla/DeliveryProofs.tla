--------------------------- MODULE DeliveryProofs ---------------------------
(***************************************************************************)
(* Proofs about Delivery, for any number of alerts, replicas, copies and   *)
(* any capacity of the stream.  NoAlertLost is not inductive by itself: a  *)
(* row is marked published on the word of a relay, the relay believes the  *)
(* broker, the broker believes its deduplication window, and a message     *)
(* leaves the stream on the word of a consumer.  IInv adds that each of    *)
(* them is right.                                                          *)
(***************************************************************************)
EXTENDS Delivery, FiniteSetTheorems, TLAPS

\* What a relay that was told "ok", and the deduplication window, stand for.
PublisherInv ==
    /\ \A a \in dedup : Safe(a)
    /\ \A r \in Relays, a \in Alerts : relay[r][a].phase = "ok" => Safe(a)
    /\ \A r \in Relays, a \in Alerts : relay[r][a].phase # "idle" => relay[r][a].lease \in LeaseIds

\* What a consumer that is about to acknowledge stands for.
ConsumerInv ==
    \A c \in Consumers :
        /\ consumer[c].phase # "idle" => consumer[c].message \in Messages
        /\ consumer[c].phase \in {"done", "failed"} => consumer[c].message.event \in Alerts
        /\ consumer[c].phase = "done" => consumer[c].message.event \in inbox

IInv ==
    /\ TypeOK
    /\ IsFiniteSet(stream)
    /\ NoAlertLost
    /\ AppliedOnce
    /\ PublisherInv
    /\ ConsumerInv

\* An event stays safe when nothing is removed but what is in the inbox.
LEMMA SafeStays ==
    ASSUME NEW a, Safe(a), inbox \subseteq inbox',
           \A m \in stream : m.event = a => m \in stream' \/ a \in inbox'
    PROVE  Safe(a)'
BY DEF Safe

\* The empty system satisfies the inductive invariant.
LEMMA InitIInv == Init => IInv
<1> SUFFICES ASSUME Init PROVE IInv
  OBVIOUS
<1>1. IsFiniteSet({}) /\ Cardinality({}) = 0
  BY FS_EmptySet
<1>2. TypeOK /\ IsFiniteSet(stream)
  BY <1>1, DeliveryConstants DEF Init, TypeOK, OutboxRows, RelayJobs, ConsumerJobs,
                                 NoRelayJob, NoConsumerJob
<1>3. NoAlertLost /\ AppliedOnce /\ PublisherInv /\ ConsumerInv
  BY DEF Init, NoAlertLost, AppliedOnce, PublisherInv, ConsumerInv, NoRelayJob, NoConsumerJob
<1> QED
  BY <1>2, <1>3 DEF IInv

\* The steps of the outbox's side: the stream and the inbox do not change, and
\* a row becomes published only when a relay was told "ok".
LEMMA OutboxStep ==
    ASSUME IInv,
           UNCHANGED <<stream, pending, dedup, poisoned, consumer, inbox, applied>>,
           wire' \subseteq Publishes,
           outbox' \in [Alerts -> OutboxRows],
           relay' \in [Relays -> [Alerts -> RelayJobs]],
           \A a \in Alerts : outbox'[a].status = "published" =>
              \/ outbox[a].status = "published"
              \/ \E r \in Relays : relay[r][a].phase = "ok",
           \A r \in Relays, a \in Alerts :
              /\ relay'[r][a].phase = "ok" => relay[r][a].phase = "ok"
              /\ relay'[r][a].phase # "idle" => relay'[r][a].lease \in LeaseIds
    PROVE  IInv'
<1> USE DEF IInv
<1>1. TypeOK' /\ IsFiniteSet(stream)'
  BY DEF TypeOK
<1>2. \A a : Safe(a)' <=> Safe(a)
  BY DEF Safe
<1>3. NoAlertLost' /\ PublisherInv'
  BY <1>2 DEF NoAlertLost, PublisherInv
<1>4. AppliedOnce' /\ ConsumerInv'
  BY DEF AppliedOnce, ConsumerInv
<1> QED
  BY <1>1, <1>3, <1>4

\* Ingestion and the passage of time.
LEMMA RowStep ==
    ASSUME IInv, NEW a \in Alerts, IngestAlert(a) \/ BecomesAvailable(a) \/ LeaseExpires(a)
    PROVE  IInv'
<1>1. outbox' \in [Alerts -> OutboxRows]
  <2>1. ASSUME NEW o \in OutboxRows
        PROVE  /\ [o EXCEPT !.status = "unpublished", !.available = TRUE] \in OutboxRows
               /\ [o EXCEPT !.available = TRUE] \in OutboxRows
               /\ [o EXCEPT !.expired = TRUE] \in OutboxRows
    BY DEF OutboxRows
  <2>2. CASE IngestAlert(a)
    BY <2>1, <2>2 DEF IInv, TypeOK, IngestAlert
  <2>3. CASE BecomesAvailable(a)
    BY <2>1, <2>3 DEF IInv, TypeOK, BecomesAvailable
  <2>4. CASE LeaseExpires(a)
    BY <2>1, <2>4 DEF IInv, TypeOK, LeaseExpires
  <2> QED
    BY <2>2, <2>3, <2>4
<1>2. \A b \in Alerts : outbox'[b].status = "published" => outbox[b].status = "published"
  <2>1. CASE IngestAlert(a)
    BY <2>1 DEF IInv, TypeOK, OutboxRows, IngestAlert
  <2>2. CASE BecomesAvailable(a)
    BY <2>2 DEF IInv, TypeOK, OutboxRows, BecomesAvailable
  <2>3. CASE LeaseExpires(a)
    BY <2>3 DEF IInv, TypeOK, OutboxRows, LeaseExpires
  <2> QED
    BY <2>1, <2>2, <2>3
<1>3. UNCHANGED <<relay, wire, stream, pending, dedup, poisoned, consumer, inbox, applied>>
  BY DEF IngestAlert, BecomesAvailable, LeaseExpires, brokerVars, consumerVars
<1> QED
  BY <1>1, <1>2, <1>3, OutboxStep DEF IInv, TypeOK, PublisherInv

\* A claim changes leases only.
LEMMA ClaimStep ==
    ASSUME IInv, NEW r \in Relays, NEW claimed \in SUBSET Alerts, ClaimRows(r, claimed)
    PROVE  IInv'
<1>1. PICK id \in LeaseIds :
         /\ outbox' = [a \in Alerts |->
                         IF a \in claimed
                         THEN [outbox[a] EXCEPT !.lease = id, !.expired = FALSE]
                         ELSE outbox[a]]
         /\ relay' = [relay EXCEPT ![r] = [a \in Alerts |->
                         IF a \in claimed THEN [phase |-> "claimed", lease |-> id]
                                          ELSE NoRelayJob]]
  BY DEF ClaimRows
<1>2. ASSUME NEW o \in OutboxRows
      PROVE  /\ [o EXCEPT !.lease = id, !.expired = FALSE] \in OutboxRows
             /\ [o EXCEPT !.lease = id, !.expired = FALSE].status = o.status
  BY DEF OutboxRows
<1>3. outbox' \in [Alerts -> OutboxRows] /\ \A a \in Alerts : outbox'[a].status = outbox[a].status
  BY <1>1, <1>2 DEF IInv, TypeOK
<1>4. /\ NoRelayJob \in RelayJobs /\ NoRelayJob.phase = "idle"
      /\ [phase |-> "claimed", lease |-> id] \in RelayJobs
      /\ [phase |-> "claimed", lease |-> id].lease \in LeaseIds
  BY DEF NoRelayJob, RelayJobs
<1>5. /\ relay' \in [Relays -> [Alerts -> RelayJobs]]
      /\ \A q \in Relays, a \in Alerts :
            /\ relay'[q][a].phase = "ok" => relay[q][a].phase = "ok"
            /\ relay'[q][a].phase # "idle" => relay'[q][a].lease \in LeaseIds
  BY <1>1, <1>4 DEF IInv, TypeOK, PublisherInv
<1>6. UNCHANGED <<wire, stream, pending, dedup, poisoned, consumer, inbox, applied>>
  BY DEF ClaimRows, brokerVars, consumerVars
<1> QED
  BY <1>3, <1>5, <1>6, OutboxStep DEF IInv, TypeOK

\* Forgetting a job, or moving it to a phase other than "ok".
LEMMA RelayUpdate ==
    ASSUME relay \in [Relays -> [Alerts -> RelayJobs]], NEW r \in Relays, NEW a \in Alerts,
           relay[r][a].phase # "idle", PublisherInv,
           \/ relay' = [relay EXCEPT ![r][a] = NoRelayJob]
           \/ \E phase \in {"sending", "err"} : relay' = [relay EXCEPT ![r][a].phase = phase]
    PROVE  /\ relay' \in [Relays -> [Alerts -> RelayJobs]]
           /\ \A q \in Relays, b \in Alerts :
                 /\ relay'[q][b].phase = "ok" => relay[q][b].phase = "ok"
                 /\ relay'[q][b].phase # "idle" => relay'[q][b].lease \in LeaseIds
<1>1. NoRelayJob \in RelayJobs /\ NoRelayJob.phase = "idle"
  BY DEF NoRelayJob, RelayJobs
<1>2. ASSUME NEW j \in RelayJobs, NEW phase \in {"sending", "err"}
      PROVE  [j EXCEPT !.phase = phase] \in RelayJobs /\ [j EXCEPT !.phase = phase].phase = phase
             /\ [j EXCEPT !.phase = phase].lease = j.lease
  BY DEF RelayJobs
<1>3. CASE relay' = [relay EXCEPT ![r][a] = NoRelayJob]
  BY <1>1, <1>3 DEF PublisherInv
<1>4. ASSUME NEW phase \in {"sending", "err"}, relay' = [relay EXCEPT ![r][a].phase = phase]
      PROVE  /\ relay' \in [Relays -> [Alerts -> RelayJobs]]
             /\ \A q \in Relays, b \in Alerts :
                 /\ relay'[q][b].phase = "ok" => relay[q][b].phase = "ok"
                 /\ relay'[q][b].phase # "idle" => relay'[q][b].lease \in LeaseIds
  BY <1>2, <1>4 DEF PublisherInv
<1> QED
  BY <1>3, <1>4

\* The steps of publish.
LEMMA RelayStepStep ==
    ASSUME IInv, NEW r \in Relays, NEW a \in Alerts, RelayStep(r, a)
    PROVE  IInv'
<1> USE DEF IInv
<1>1. CASE SendPublish(r, a)
  <2>1. wire' \subseteq Publishes
    BY <1>1 DEF SendPublish, TypeOK, PublisherInv, Publishes
  <2> QED
    BY <1>1, <2>1, RelayUpdate, OutboxStep DEF SendPublish, TypeOK, consumerVars
<1>2. CASE PublishTimeout(r, a)
  BY <1>2, RelayUpdate, OutboxStep DEF PublishTimeout, TypeOK, brokerVars, consumerVars
<1>3. CASE MarkOutboxPublished(r, a)
  <2>1. /\ outbox' \in [Alerts -> OutboxRows]
        /\ \A b \in Alerts : outbox'[b].status = "published" => outbox[b].status = "published" \/ b = a
    <3>1. ASSUME NEW o \in OutboxRows
          PROVE  [o EXCEPT !.status = "published", !.lease = None, !.expired = FALSE] \in OutboxRows
      BY DEF OutboxRows
    <3>2. \/ outbox' = [outbox EXCEPT ![a] = [outbox[a] EXCEPT !.status = "published",
                                                              !.lease = None, !.expired = FALSE]]
          \/ outbox' = outbox
      BY <1>3 DEF MarkOutboxPublished
    <3> QED
      BY <3>1, <3>2, ZenonT(30) DEF TypeOK
  <2>2. relay[r][a].phase = "ok"
    BY <1>3 DEF MarkOutboxPublished, MarksPublished
  <2> QED
    BY <1>3, <2>1, <2>2, RelayUpdate, OutboxStep DEF MarkOutboxPublished, TypeOK, brokerVars, consumerVars
<1>4. CASE MarkOutboxFailed(r, a)
  <2>1. /\ outbox' \in [Alerts -> OutboxRows]
        /\ \A b \in Alerts : outbox'[b].status = "published" => outbox[b].status = "published"
    <3>1. ASSUME NEW o \in OutboxRows
          PROVE  /\ [o EXCEPT !.available = FALSE, !.lease = None, !.expired = FALSE] \in OutboxRows
                 /\ [o EXCEPT !.available = FALSE, !.lease = None, !.expired = FALSE].status = o.status
      BY DEF OutboxRows
    <3>2. \/ outbox' = [outbox EXCEPT ![a] = [outbox[a] EXCEPT !.available = FALSE,
                                                              !.lease = None, !.expired = FALSE]]
          \/ outbox' = outbox
      BY <1>4 DEF MarkOutboxFailed
    <3>3. CASE outbox' = outbox
      BY <3>3 DEF TypeOK
    <3>4. PICK o \in OutboxRows : o.status = outbox[a].status /\ (outbox' # outbox => outbox' = [outbox EXCEPT ![a] = o])
      BY <3>1, <3>2 DEF TypeOK
    <3> QED
      BY <3>3, <3>4 DEF TypeOK
  <2> QED
    BY <1>4, <2>1, RelayUpdate, OutboxStep DEF MarkOutboxFailed, TypeOK, brokerVars, consumerVars
<1>5. CASE RelayStoreError(r, a)
  BY <1>5, RelayUpdate, OutboxStep DEF RelayStoreError, TypeOK, brokerVars, consumerVars
<1> QED
  BY <1>1, <1>2, <1>3, <1>4, <1>5 DEF RelayStep

\* A relay that stops forgets its batch.
LEMMA RelayCrashStep ==
    ASSUME IInv, NEW r \in Relays, RelayCrash(r)
    PROVE  IInv'
<1> USE DEF IInv
<1>1. NoRelayJob \in RelayJobs /\ NoRelayJob.phase = "idle"
  BY DEF NoRelayJob, RelayJobs
<1>2. /\ relay' \in [Relays -> [Alerts -> RelayJobs]]
      /\ \A q \in Relays, b \in Alerts :
            /\ relay'[q][b].phase = "ok" => relay[q][b].phase = "ok"
            /\ relay'[q][b].phase # "idle" => relay'[q][b].lease \in LeaseIds
  BY <1>1 DEF RelayCrash, TypeOK, PublisherInv
<1>3. UNCHANGED <<outbox, wire, stream, pending, dedup, poisoned, consumer, inbox, applied>>
  BY DEF RelayCrash, brokerVars, consumerVars
<1> QED
  BY <1>2, <1>3, OutboxStep DEF TypeOK

\* The broker answers a publish request: whoever is told "ok" can rely on it.
LEMMA AnswerStep ==
    ASSUME IInv, NEW p \in Publishes, NEW phase \in {"ok", "err"}, Answer(p, phase)
    PROVE  /\ relay' \in [Relays -> [Alerts -> RelayJobs]]
           /\ \A r \in Relays, a \in Alerts :
                 /\ relay'[r][a].phase = "ok" =>
                       relay[r][a].phase = "ok" \/ (a = p.event /\ phase = "ok")
                 /\ relay'[r][a].phase # "idle" => relay'[r][a].lease \in LeaseIds
<1> USE DEF IInv
<1>1. ASSUME NEW j \in RelayJobs
      PROVE  /\ [j EXCEPT !.phase = phase] \in RelayJobs
             /\ [j EXCEPT !.phase = phase].phase = phase
             /\ [j EXCEPT !.phase = phase].lease = j.lease
  BY DEF RelayJobs
<1>2. CASE UNCHANGED relay
  BY <1>2 DEF TypeOK, PublisherInv
<1>3. CASE relay' = [r \in Relays |-> [a \in Alerts |->
                       IF a = p.event /\ relay[r][a] = [phase |-> "sending", lease |-> p.lease]
                       THEN [relay[r][a] EXCEPT !.phase = phase]
                       ELSE relay[r][a]]]
  <2>1. relay' \in [Relays -> [Alerts -> RelayJobs]]
    BY <1>1, <1>3 DEF TypeOK
  <2>2. ASSUME NEW r \in Relays, NEW a \in Alerts
        PROVE  /\ relay'[r][a].phase = "ok" =>
                     relay[r][a].phase = "ok" \/ (a = p.event /\ phase = "ok")
               /\ relay'[r][a].phase # "idle" => relay'[r][a].lease \in LeaseIds
    <3>1. relay[r][a] \in RelayJobs
      BY DEF TypeOK
    <3>2. CASE a = p.event /\ relay[r][a] = [phase |-> "sending", lease |-> p.lease]
      BY <1>1, <1>3, <3>1, <3>2 DEF Publishes
    <3>3. CASE ~(a = p.event /\ relay[r][a] = [phase |-> "sending", lease |-> p.lease])
      BY <1>3, <3>3 DEF PublisherInv
    <3> QED
      BY <3>2, <3>3
  <2> QED
    BY <2>1, <2>2
<1> QED
  BY <1>2, <1>3 DEF Answer

\* Storing keeps within the capacity and removes nothing.
LEMMA StoredFacts ==
    ASSUME IInv, NEW m \in Messages
    PROVE  /\ stream \subseteq Stored(m) /\ Stored(m) \subseteq Messages
           /\ IsFiniteSet(Stored(m)) /\ Cardinality(Stored(m)) <= StreamCapacity
<1>1. /\ IsFiniteSet(stream \cup {m})
      /\ Cardinality(stream) \in Nat
      /\ Cardinality(stream \cup {m}) <= Cardinality(stream) + 1
  BY FS_AddElement, FS_CardinalityType DEF IInv
<1>2. Cardinality(stream \cup {m}) \in Nat
  BY <1>1, FS_CardinalityType
<1> QED
  BY <1>1, <1>2, DeliveryConstants DEF Stored, IInv, TypeOK

\* A publish request is stored, refused, recognised or lost.
LEMMA PublishStep ==
    ASSUME IInv, NEW p \in wire, StreamStores(p) \/ StreamDeduplicates(p) \/ PublishLost(p)
    PROVE  IInv'
<1> USE DEF IInv
<1>1. p \in Publishes /\ p.event \in Alerts
  BY DEF TypeOK, Publishes
<1>2. CASE StreamStores(p)
  <2>1. PICK copy \in Copies :
           LET m == [event |-> p.event, copy |-> copy]
           IN  /\ stream' = Stored(m)
               /\ pending' = pending \cap stream'
               /\ dedup' = IF m \in stream' THEN dedup \cup {p.event} ELSE dedup
               /\ Answer(p, IF m \in stream' THEN "ok" ELSE "err")
    BY <1>2 DEF StreamStores
  <2> DEFINE m == [event |-> p.event, copy |-> copy]
  <2>2. m \in Messages /\ m.event = p.event
    BY <1>1 DEF Messages, Events
  <2>3. /\ stream \subseteq stream' /\ stream' \subseteq Messages
        /\ IsFiniteSet(stream') /\ Cardinality(stream') <= StreamCapacity
    BY <2>1, <2>2, StoredFacts
  <2>4. PICK phase \in {"ok", "err"} : Answer(p, phase) /\ (phase = "ok" => m \in stream')
    BY <2>1
  <2>5. UNCHANGED <<outbox, poisoned, consumer, inbox, applied>> /\ wire' = wire \ {p}
    BY <1>2 DEF StreamStores, consumerVars
  <2>6. \A a : Safe(a) => Safe(a)'
    BY <2>3, <2>5, SafeStays
  <2>7. m \in stream' => Safe(p.event)'
    BY <2>2 DEF Safe
  <2>8. /\ dedup' \subseteq Alerts /\ \A a \in dedup' : a \in dedup \/ (a = p.event /\ m \in stream')
        /\ pending' = pending \cap stream'
    BY <1>1, <2>1 DEF TypeOK
  <2> HIDE DEF m
  <2>9. TypeOK' /\ IsFiniteSet(stream)'
    BY <1>1, <2>3, <2>4, <2>5, <2>8, AnswerStep DEF TypeOK
  <2>10. PublisherInv'
    BY <1>1, <2>4, <2>6, <2>7, <2>8, AnswerStep DEF PublisherInv
  <2>11. NoAlertLost' /\ AppliedOnce' /\ ConsumerInv'
    BY <2>5, <2>6 DEF NoAlertLost, AppliedOnce, ConsumerInv
  <2> QED
    BY <2>9, <2>10, <2>11
<1>3. CASE StreamDeduplicates(p)
  <2>1. /\ p.event \in dedup /\ Answer(p, "ok") /\ wire' = wire \ {p}
        /\ UNCHANGED <<outbox, stream, pending, dedup, poisoned, consumer, inbox, applied>>
    BY <1>3 DEF StreamDeduplicates, consumerVars
  <2>2. \A a : Safe(a)' <=> Safe(a)
    BY <2>1 DEF Safe
  <2>3. TypeOK' /\ IsFiniteSet(stream)'
    BY <1>1, <2>1, AnswerStep DEF TypeOK
  <2>4. PublisherInv'
    BY <1>1, <2>1, <2>2, AnswerStep DEF PublisherInv
  <2>5. NoAlertLost' /\ AppliedOnce' /\ ConsumerInv'
    BY <2>1, <2>2 DEF NoAlertLost, AppliedOnce, ConsumerInv
  <2> QED
    BY <2>3, <2>4, <2>5
<1>4. CASE PublishLost(p)
  BY <1>4, OutboxStep DEF PublishLost, TypeOK, PublisherInv, consumerVars
<1> QED
  BY <1>2, <1>3, <1>4

\* Steps of the broker that keep every message.
LEMMA BrokerStep ==
    ASSUME IInv,
           \/ \E a \in Alerts : DedupForgets(a)
           \/ \E x \in Poison : PublishPoison(x)
           \/ \E m \in pending : RedeliveryDue(m)
           \/ \E c \in Consumers, m \in stream : Deliver(c, m)
    PROVE  IInv'
<1> USE DEF IInv
<1>1. CASE \E a \in Alerts : DedupForgets(a)
  <2>1. dedup' \subseteq dedup /\ UNCHANGED <<outbox, relay, wire, stream, pending, poisoned, consumer, inbox, applied>>
    BY <1>1 DEF DedupForgets, consumerVars
  <2>2. \A a : Safe(a)' <=> Safe(a)
    BY <2>1 DEF Safe
  <2> QED
    BY <2>1, <2>2 DEF TypeOK, NoAlertLost, AppliedOnce, PublisherInv, ConsumerInv
<1>2. CASE \E x \in Poison : PublishPoison(x)
  <2>1. PICK x \in Poison, copy \in Copies :
           /\ Cardinality(stream) < StreamCapacity
           /\ stream' = stream \cup {[event |-> x, copy |-> copy]}
           /\ poisoned' = poisoned \cup {x}
           /\ UNCHANGED <<outbox, relay, wire, pending, dedup, consumer, inbox, applied>>
    BY <1>2 DEF PublishPoison, consumerVars
  <2>2. [event |-> x, copy |-> copy] \in Messages
    BY DEF Messages, Events
  <2>3. stream' = Stored([event |-> x, copy |-> copy])
    BY <2>1 DEF Stored
  <2>4. /\ stream \subseteq stream' /\ stream' \subseteq Messages
        /\ IsFiniteSet(stream') /\ Cardinality(stream') <= StreamCapacity
    BY <2>2, <2>3, StoredFacts
  <2>5. \A a : Safe(a) => Safe(a)'
    BY <2>1, <2>4, SafeStays
  <2>6. TypeOK'
    BY <2>1, <2>4 DEF TypeOK
  <2> QED
    BY <2>1, <2>4, <2>5, <2>6 DEF NoAlertLost, AppliedOnce, PublisherInv, ConsumerInv
<1>3. CASE \E m \in pending : RedeliveryDue(m)
  <2>1. pending' \subseteq pending /\ UNCHANGED <<outbox, relay, wire, stream, dedup, poisoned, consumer, inbox, applied>>
    BY <1>3 DEF RedeliveryDue, consumerVars
  <2>2. \A a : Safe(a)' <=> Safe(a)
    BY <2>1 DEF Safe
  <2> QED
    BY <2>1, <2>2 DEF TypeOK, NoAlertLost, AppliedOnce, PublisherInv, ConsumerInv
<1>4. CASE \E c \in Consumers, m \in stream : Deliver(c, m)
  <2>1. PICK c \in Consumers, m \in stream :
           /\ pending' = pending \cup {m}
           /\ consumer' = [consumer EXCEPT ![c] = [phase |-> "got", message |-> m]]
           /\ UNCHANGED <<outbox, relay, wire, stream, dedup, poisoned, inbox, applied>>
    BY <1>4 DEF Deliver
  <2>2. /\ [phase |-> "got", message |-> m] \in ConsumerJobs /\ m \in Messages
        /\ [phase |-> "got", message |-> m].phase = "got"
        /\ [phase |-> "got", message |-> m].message = m
    BY DEF ConsumerJobs, TypeOK
  <2>3. \A a : Safe(a)' <=> Safe(a)
    BY <2>1 DEF Safe
  <2>4. TypeOK'
    BY <2>1, <2>2 DEF TypeOK
  <2>5. ConsumerInv'
    BY <2>1, <2>2 DEF ConsumerInv, TypeOK
  <2> QED
    BY <2>1, <2>3, <2>4, <2>5 DEF NoAlertLost, AppliedOnce, PublisherInv
<1> QED
  BY <1>1, <1>2, <1>3, <1>4

\* A message that is a poison message, or whose event is in the inbox, may
\* leave the stream; the consumer that removed it is idle again.
LEMMA RemovalStep ==
    ASSUME IInv, NEW c \in Consumers, NEW m \in Messages,
           m.event \in Poison \/ m.event \in inbox,
           stream' = stream \ {m}, pending' = pending \ {m},
           consumer' = [consumer EXCEPT ![c] = NoConsumerJob],
           UNCHANGED <<outbox, relay, wire, dedup, poisoned, inbox, applied>>
    PROVE  IInv'
<1> USE DEF IInv
<1>1. IsFiniteSet(stream') /\ Cardinality(stream') <= StreamCapacity
  <2>1. /\ IsFiniteSet(stream \ {m})
        /\ Cardinality(stream \ {m}) = IF m \in stream THEN Cardinality(stream) - 1 ELSE Cardinality(stream)
    BY FS_RemoveElement
  <2>2. Cardinality(stream) \in Nat
    BY FS_CardinalityType
  <2> QED
    BY <2>1, <2>2, DeliveryConstants DEF TypeOK
<1>2. NoConsumerJob \in ConsumerJobs /\ NoConsumerJob.phase = "idle"
  BY DEF NoConsumerJob, ConsumerJobs
<1>3. TypeOK'
  BY <1>1, <1>2 DEF TypeOK
<1>4. ASSUME NEW a \in Alerts, Safe(a) PROVE Safe(a)'
  BY <1>4, SafeStays, DeliveryConstants
<1>5. NoAlertLost' /\ PublisherInv'
  BY <1>4 DEF NoAlertLost, PublisherInv, TypeOK
<1>6. ConsumerInv' /\ AppliedOnce'
  BY <1>2 DEF ConsumerInv, AppliedOnce, TypeOK
<1> QED
  BY <1>1, <1>3, <1>5, <1>6

\* A consumer forgets its message, or its handler fails without a trace.
LEMMA ConsumerForgets ==
    ASSUME IInv, NEW c \in Consumers, NEW j \in ConsumerJobs,
           j.phase \in {"idle", "failed"},
           j.phase # "idle" => j.message \in Messages /\ j.message.event \in Alerts,
           consumer' = [consumer EXCEPT ![c] = j],
           UNCHANGED <<outbox, relay, wire, stream, pending, dedup, poisoned, inbox, applied>>
    PROVE  IInv'
<1> USE DEF IInv
<1>1. TypeOK'
  BY DEF TypeOK
<1>2. \A a : Safe(a)' <=> Safe(a)
  BY DEF Safe
<1>3. NoAlertLost' /\ PublisherInv' /\ AppliedOnce'
  BY <1>2 DEF NoAlertLost, PublisherInv, AppliedOnce
<1>4. ConsumerInv'
  BY DEF ConsumerInv, TypeOK
<1> QED
  BY <1>1, <1>3, <1>4

\* CorrelateAlert commits.
LEMMA CorrelateStep ==
    ASSUME IInv, NEW c \in Consumers, NEW outcome \in {"done", "failed"}, Correlate(c, outcome)
    PROVE  IInv'
<1> USE DEF IInv
<1> DEFINE a == consumer[c].message.event
<1>1. /\ a \in Alerts /\ consumer[c].message \in Messages
      /\ inbox' = inbox \cup {a}
      /\ applied' = IF a \notin inbox THEN [applied EXCEPT ![a] = @ + 1] ELSE applied
      /\ UNCHANGED <<outbox, relay, wire, stream, pending, dedup, poisoned>>
  BY DEF Correlate, FirstDelivery, ConsumerInv, brokerVars
<1>2. /\ consumer' \in [Consumers -> ConsumerJobs]
      /\ consumer'[c].phase = outcome /\ consumer'[c].message = consumer[c].message
      /\ \A d \in Consumers : d # c => consumer'[d] = consumer[d]
  <2>1. ASSUME NEW j \in ConsumerJobs
        PROVE  /\ [j EXCEPT !.phase = outcome] \in ConsumerJobs
               /\ [j EXCEPT !.phase = outcome].phase = outcome
               /\ [j EXCEPT !.phase = outcome].message = j.message
    BY DEF ConsumerJobs
  <2> QED
    BY <2>1 DEF Correlate, TypeOK
<1>3. TypeOK'
  <2>1. applied' \in [Alerts -> Nat]
    BY <1>1 DEF TypeOK
  <2> QED
    BY <1>1, <1>2, <2>1 DEF TypeOK
<1>4. \A b : Safe(b) => Safe(b)'
  BY <1>1 DEF Safe
<1>5. NoAlertLost' /\ PublisherInv'
  BY <1>1, <1>4 DEF NoAlertLost, PublisherInv
<1>6. AppliedOnce'
  BY <1>1 DEF AppliedOnce, TypeOK
<1>7. ConsumerInv'
  BY <1>1, <1>2 DEF ConsumerInv
<1> QED
  BY <1>1, <1>3, <1>5, <1>6, <1>7

\* The steps of the callback.
LEMMA ConsumerStepStep ==
    ASSUME IInv, NEW c \in Consumers, ConsumerStep(c) \/ ConsumerCrash(c)
    PROVE  IInv'
<1> USE DEF IInv
<1>1. NoConsumerJob \in ConsumerJobs /\ NoConsumerJob.phase = "idle"
  BY DEF NoConsumerJob, ConsumerJobs
<1>2. CASE DiscardPoison(c)
  BY <1>2, RemovalStep DEF DiscardPoison, Discards, Remove, ConsumerInv
<1>3. CASE \E outcome \in {"done", "failed"} : Correlate(c, outcome)
  BY <1>3, CorrelateStep
<1>4. CASE CorrelateFails(c)
  <2>1. PICK j \in ConsumerJobs :
           /\ consumer' = [consumer EXCEPT ![c] = j]
           /\ j.phase = "failed" /\ j.message = consumer[c].message
    <3>1. [consumer[c] EXCEPT !.phase = "failed"] \in ConsumerJobs
      BY DEF TypeOK, ConsumerJobs
    <3>2. /\ [consumer[c] EXCEPT !.phase = "failed"].phase = "failed"
          /\ [consumer[c] EXCEPT !.phase = "failed"].message = consumer[c].message
      BY DEF TypeOK, ConsumerJobs
    <3> QED
      BY <1>4, <3>1, <3>2 DEF CorrelateFails
  <2> QED
    BY <1>4, <2>1, ConsumerForgets DEF CorrelateFails, ConsumerInv, brokerVars
<1>5. CASE Acknowledge(c)
  BY <1>5, RemovalStep DEF Acknowledge, Acknowledges, Remove, ConsumerInv
<1>6. CASE GiveBack(c) \/ ConsumerCrash(c)
  BY <1>1, <1>6, ConsumerForgets DEF GiveBack, ConsumerCrash, brokerVars
<1> QED
  BY <1>2, <1>3, <1>4, <1>5, <1>6 DEF ConsumerStep

\* Every step preserves the inductive invariant.
LEMMA NextIInv == IInv /\ [Next]_vars => IInv'
<1> SUFFICES ASSUME IInv, [Next]_vars PROVE IInv'
  OBVIOUS
<1>1. CASE \E a \in Alerts : IngestAlert(a) \/ BecomesAvailable(a) \/ LeaseExpires(a)
  BY <1>1, RowStep
<1>2. CASE \E r \in Relays : ClaimOutbox(r)
  BY <1>2, ClaimStep DEF ClaimOutbox
<1>3. CASE \E r \in Relays, a \in Alerts : RelayStep(r, a)
  BY <1>3, RelayStepStep
<1>4. CASE \E r \in Relays : RelayCrash(r)
  BY <1>4, RelayCrashStep
<1>5. CASE \E p \in wire : StreamStores(p) \/ StreamDeduplicates(p) \/ PublishLost(p)
  BY <1>5, PublishStep
<1>6. CASE \/ \E a \in Alerts : DedupForgets(a)
           \/ \E x \in Poison : PublishPoison(x)
           \/ \E m \in pending : RedeliveryDue(m)
           \/ \E c \in Consumers, m \in stream : Deliver(c, m)
  BY <1>6, BrokerStep
<1>7. CASE \E c \in Consumers : ConsumerStep(c) \/ ConsumerCrash(c)
  BY <1>7, ConsumerStepStep
<1>8. CASE UNCHANGED vars
  BY <1>8 DEF vars, IInv, TypeOK, NoAlertLost, AppliedOnce, PublisherInv, ConsumerInv, Safe
<1> QED
  BY <1>1, <1>2, <1>3, <1>4, <1>5, <1>6, <1>7, <1>8 DEF Next

\* The inductive invariant holds in every reachable state.
THEOREM Invariance == Spec => []IInv
BY InitIInv, NextIInv, PTL DEF Spec

\* The types, and the stream's capacity, hold for all constants.
THEOREM TypeCorrect == Spec => []TypeOK
<1>1. IInv => TypeOK
  BY DEF IInv
<1> QED
  BY <1>1, Invariance, PTL

\* No alert that IngestAlert accepted is ever lost between the outbox, the
\* stream and the inbox.
THEOREM Durability == Spec => []NoAlertLost
<1>1. IInv => NoAlertLost
  BY DEF IInv
<1> QED
  BY <1>1, Invariance, PTL

\* No alert is applied twice, however often its event is delivered.
THEOREM Idempotence == Spec => []AppliedOnce
<1>1. IInv => AppliedOnce
  BY DEF IInv
<1> QED
  BY <1>1, Invariance, PTL

-----------------------------------------------------------------------------
(***************************************************************************)
(* Leases of the outbox.                                                   *)
(***************************************************************************)

\* A lease id is known to one relay at most: uuid.New() in ClaimOutbox.
LeaseHasOneHolder ==
    \A r, q \in Relays : \A a, b \in Alerts :
        relay[r][a].lease = relay[q][b].lease /\ relay[r][a].lease # None => r = q

\* A claim gives its relay a lease id nobody else knows.
LEMMA ClaimLease ==
    ASSUME IInv, LeaseHasOneHolder, NEW r \in Relays, NEW claimed, ClaimRows(r, claimed)
    PROVE  LeaseHasOneHolder'
<1>1. PICK id \in LeaseIds :
         /\ FreshLease(id)
         /\ relay' = [relay EXCEPT ![r] = [a \in Alerts |->
                         IF a \in claimed THEN [phase |-> "claimed", lease |-> id]
                                          ELSE NoRelayJob]]
  BY DEF ClaimRows
<1>2. \A q \in Relays, a \in Alerts : relay[q][a].lease # id
  BY <1>1 DEF FreshLease
<1>3. /\ \A q \in Relays : q # r => relay'[q] = relay[q]
      /\ \A a \in Alerts : relay'[r][a].lease \in {id, None}
  BY <1>1 DEF IInv, TypeOK, NoRelayJob
<1> QED
  BY <1>2, <1>3 DEF LeaseHasOneHolder

\* Every other step of the relay, of the broker and of the consumers leaves the
\* leases that relays know, or makes them forget some.
LEMMA OtherLease ==
    ASSUME IInv, [Next]_vars, \A r \in Relays : ~ClaimOutbox(r),
           NEW r \in Relays, NEW a \in Alerts
    PROVE  relay'[r][a].lease \in {relay[r][a].lease, None}
<1>1. relay \in [Relays -> [Alerts -> RelayJobs]] /\ relay[r][a] \in RelayJobs
  BY DEF IInv, TypeOK
<1>2. NoRelayJob.lease = None
  BY DEF NoRelayJob
<1>3. ASSUME NEW phase PROVE [relay[r][a] EXCEPT !.phase = phase].lease = relay[r][a].lease
  BY <1>1 DEF RelayJobs
<1>4. CASE \E q \in Relays, b \in Alerts : RelayStep(q, b)
  <2>1. PICK q \in Relays, b \in Alerts : RelayStep(q, b)
    BY <1>4
  <2>2. CASE q # r \/ b # a
    BY <1>1, <2>1, <2>2 DEF RelayStep, SendPublish, PublishTimeout, MarkOutboxPublished,
                            MarkOutboxFailed, RelayStoreError
  <2>3. CASE q = r /\ b = a
    <3>1. CASE SendPublish(r, a) \/ PublishTimeout(r, a)
      <4>1. PICK phase : relay' = [relay EXCEPT ![r][a].phase = phase]
        BY <3>1 DEF SendPublish, PublishTimeout
      <4>2. relay'[r][a] = [relay[r][a] EXCEPT !.phase = phase]
        BY <1>1, <4>1
      <4> QED
        BY <1>3, <4>2
    <3>2. CASE MarkOutboxPublished(r, a) \/ MarkOutboxFailed(r, a) \/ RelayStoreError(r, a)
      BY <1>1, <1>2, <3>2 DEF MarkOutboxPublished, MarkOutboxFailed, RelayStoreError
    <3> QED
      BY <2>1, <2>3, <3>1, <3>2 DEF RelayStep
  <2> QED
    BY <2>2, <2>3
<1>5. CASE \E q \in Relays : RelayCrash(q)
  BY <1>1, <1>2, <1>5 DEF RelayCrash
<1>6. CASE \E p \in wire : StreamStores(p) \/ StreamDeduplicates(p)
  <2>1. PICK p \in wire : \E phase : Answer(p, phase)
    BY <1>6 DEF StreamStores, StreamDeduplicates
  <2>2. PICK phase : Answer(p, phase)
    BY <2>1
  <2> QED
    BY <1>1, <1>3, <2>2 DEF Answer
<1>7. CASE UNCHANGED relay
  BY <1>7
<1> QED
  BY <1>4, <1>5, <1>6, <1>7
     DEF Next, vars, IngestAlert, BecomesAvailable, LeaseExpires, DedupForgets, PublishLost,
         PublishPoison, Deliver, RedeliveryDue, ConsumerStep, DiscardPoison, Correlate,
         CorrelateFails, Acknowledge, GiveBack, ConsumerCrash, brokerVars, consumerVars

\* No two relays ever believe to hold the same lease of the outbox.
THEOREM ExclusiveLease == Spec => []LeaseHasOneHolder
<1>1. Init => LeaseHasOneHolder
  BY DEF Init, LeaseHasOneHolder, NoRelayJob
<1>2. IInv /\ LeaseHasOneHolder /\ [Next]_vars => LeaseHasOneHolder'
  <2> SUFFICES ASSUME IInv, LeaseHasOneHolder, [Next]_vars PROVE LeaseHasOneHolder'
    OBVIOUS
  <2>1. CASE \E r \in Relays : ClaimOutbox(r)
    BY <2>1, ClaimLease DEF ClaimOutbox
  <2>2. CASE \A r \in Relays : ~ClaimOutbox(r)
    <3>1. \A r \in Relays, a \in Alerts : relay'[r][a].lease \in {relay[r][a].lease, None}
      BY <2>2, OtherLease
    <3> QED
      BY <3>1 DEF LeaseHasOneHolder
  <2> QED
    BY <2>1, <2>2
<1> QED
  BY <1>1, <1>2, Invariance, PTL DEF Spec

\* MarkOutboxPublished and MarkOutboxFailed release a row only for the relay
\* whose lease the row carries: a result that comes after the lease went to
\* another relay changes nothing.
THEOREM LeaseRespect == Spec => LiveLeaseIsRespected
<1>1. ASSUME IInv, [Next]_vars, NEW a \in Alerts,
             outbox[a].lease # None, ~outbox[a].expired, outbox'[a].lease # outbox[a].lease
      PROVE  \E r \in Relays : relay[r][a].lease = outbox[a].lease /\ relay'[r][a].phase = "idle"
  <2> USE <1>1
  <2>1. /\ outbox \in [Alerts -> OutboxRows] /\ outbox[a] \in OutboxRows
        /\ relay \in [Relays -> [Alerts -> RelayJobs]]
    BY DEF IInv, TypeOK
  <2>2. \A b \in Alerts : ~IngestAlert(b) /\ ~BecomesAvailable(b) /\ ~LeaseExpires(b)
    BY <2>1 DEF IngestAlert, BecomesAvailable, LeaseExpires, OutboxRows
  <2>3. \A r \in Relays : ~ClaimOutbox(r)
    BY <2>1 DEF ClaimOutbox, ClaimRows, Unleased
  <2>4. CASE \E r \in Relays, b \in Alerts : MarkOutboxPublished(r, b) \/ MarkOutboxFailed(r, b)
    <3>1. PICK r \in Relays, b \in Alerts : MarkOutboxPublished(r, b) \/ MarkOutboxFailed(r, b)
      BY <2>4
    <3>2. HoldsLease(r, b) /\ b = a
      BY <2>1, <3>1 DEF MarkOutboxPublished, MarkOutboxFailed
    <3>3. relay'[r][a] = NoRelayJob
      BY <2>1, <3>1, <3>2 DEF MarkOutboxPublished, MarkOutboxFailed
    <3> QED
      BY <3>2, <3>3 DEF HoldsLease, NoRelayJob
  <2>5. CASE UNCHANGED outbox
    BY <2>5
  <2> QED
    BY <2>2, <2>3, <2>4, <2>5
       DEF Next, vars, RelayStep, SendPublish, PublishTimeout, RelayStoreError, RelayCrash,
           StreamStores, StreamDeduplicates, PublishLost, DedupForgets, PublishPoison, Deliver,
           RedeliveryDue, ConsumerStep, DiscardPoison, Correlate, CorrelateFails, Acknowledge,
           GiveBack, ConsumerCrash, brokerVars, consumerVars
<1>2. ASSUME IInv, [Next]_vars
      PROVE  [\A a \in Alerts :
                 /\ outbox[a].lease # None
                 /\ ~outbox[a].expired
                 /\ outbox'[a].lease # outbox[a].lease
                 => \E r \in Relays : /\ relay[r][a].lease = outbox[a].lease
                                      /\ relay'[r][a].phase = "idle"]_vars
  BY <1>1, <1>2
<1> QED
  BY <1>2, Invariance, PTL DEF Spec, LiveLeaseIsRespected
=============================================================================
