---------------------------- MODULE IngestProofs ----------------------------
(***************************************************************************)
(* Proofs about Ingest, for any number of tenants, keys, handlers and      *)
(* alerts, any clock and any number of requests sent again; and about      *)
(* Fingerprint, the part of IngestAlert before its transaction.            *)
(*                                                                         *)
(* OneAlertPerKey is not inductive by itself: between the insertion and    *)
(* the commit the new row is known to its transaction only.  IInv adds     *)
(* what the unique key of alerts and uuid.New() make of such rows, and     *)
(* that each answer has the row it was computed from.                      *)
(***************************************************************************)
EXTENDS Ingest, Fingerprint, FiniteSetTheorems, TLAPS

(***************************************************************************)
(* The inductive invariant.                                                *)
(***************************************************************************)

\* A request in progress; one that has inserted its row has the key, and its id
\* is no other alert's.
HandlerInv ==
    \A h \in Handlers :
        /\ handler[h].phase # "idle" => handler[h].request \in Requests
        /\ handler[h].phase # "inserted" => handler[h].id = None
        /\ handler[h].phase = "inserted" =>
              /\ handler[h].id \in AlertIds
              /\ \A row \in alerts : row.id # handler[h].id
              /\ RowsFor(handler[h].request) = {}

\* Two uncommitted rows have different keys and different ids.
InsertedInv ==
    \A g, h \in Handlers :
        /\ g # h
        /\ handler[g].phase = "inserted"
        /\ handler[h].phase = "inserted"
        => /\ handler[g].id # handler[h].id
           /\ \/ handler[g].request.tenant # handler[h].request.tenant
              \/ handler[g].request.key # handler[h].request.key

\* A row's id is its own, and what its hash was taken of is what it says.
RowInv ==
    /\ \A row, other \in alerts : row.id = other.id => row = other
    /\ \A row \in alerts :
          /\ row.hash.content = row.content
          /\ row.hash.occurredAt # None => row.occurredAt = row.hash.occurredAt

HasKeyOf(row, r) == row.tenant = r.tenant /\ row.key = r.key

\* An answer is about the row with the key of its request.
AnswerInv ==
    \A answer \in answers : \E row \in alerts :
        /\ HasKeyOf(row, answer.request)
        /\ IF answer.status = "conflict"
           THEN row.hash # RequestHash(answer.request, 0)
           ELSE row.hash = RequestHash(answer.request, 0) /\ row.id = answer.id

RowsOf(id) == {row \in alerts : row.id = id}

OutboxInv == \A id \in AlertIds : outbox[id] = Cardinality(RowsOf(id))

IInv ==
    /\ TypeOK
    /\ HandlerInv
    /\ InsertedInv
    /\ RowInv
    /\ OneAlertPerKey
    /\ AnswerInv
    /\ OutboxInv

-----------------------------------------------------------------------------
(***************************************************************************)
(* Facts about the operators.                                              *)
(***************************************************************************)

HandlerRecords == [phase   : {"idle", "received", "inserted"},
                   request : Requests \cup {None},
                   now     : Times,
                   id      : AlertIds \cup {None}]

\* The fields of a request.
LEMMA RequestFields ==
    ASSUME NEW r \in Requests
    PROVE  /\ r.tenant \in Tenants /\ r.key \in Keys /\ r.content \in Contents
           /\ r.occurredAt \in Times \cup {None}
BY DEF Requests

\* The hash of a request is a hash, and says nothing of the time of its arrival
\* or of white space.
LEMMA HashFacts ==
    ASSUME NEW r \in Requests, NEW now
    PROVE  /\ RequestHash(r, now) \in Hashes
           /\ RequestHash(r, now) = RequestHash(r, 0)
           /\ RequestHash(r, now).content = r.content
           /\ RequestHash(r, now).occurredAt = r.occurredAt
<1>1. r.content \in Contents /\ r.occurredAt \in Times \cup {None}
  BY RequestFields
<1> QED  BY <1>1 DEF RequestHash, Hashes

\* The row a request is stored as.
LEMMA StoredRowFacts ==
    ASSUME NEW r \in Requests, NEW now \in Times, NEW id \in AlertIds
    PROVE  /\ StoredRow(r, now, id) \in AlertRows
           /\ StoredRow(r, now, id).id = id
           /\ HasKeyOf(StoredRow(r, now, id), r)
           /\ StoredRow(r, now, id).hash = RequestHash(r, 0)
           /\ StoredRow(r, now, id).hash.content = StoredRow(r, now, id).content
           /\ StoredRow(r, now, id).hash.occurredAt # None =>
                 StoredRow(r, now, id).occurredAt = StoredRow(r, now, id).hash.occurredAt
<1> DEFINE row == StoredRow(r, now, id)
           time == IF r.occurredAt = None THEN now ELSE r.occurredAt
<1>1. /\ r.tenant \in Tenants /\ r.key \in Keys /\ r.content \in Contents
      /\ time \in Times
  BY RequestFields
<1>2. /\ RequestHash(r, now) \in Hashes
      /\ RequestHash(r, now) = RequestHash(r, 0)
      /\ RequestHash(r, now).content = r.content
      /\ RequestHash(r, now).occurredAt = r.occurredAt
  BY HashFacts
<1>3. row = [tenant |-> r.tenant, key |-> r.key, id |-> id, content |-> r.content,
             occurredAt |-> time, hash |-> RequestHash(r, now)]
  BY DEF StoredRow
<1>4. /\ row.tenant = r.tenant /\ row.key = r.key /\ row.id = id /\ row.content = r.content
      /\ row.occurredAt = time /\ row.hash = RequestHash(r, now)
  BY <1>3
<1>5. row \in AlertRows
  BY <1>1, <1>2, <1>3 DEF AlertRows
<1> QED  BY <1>2, <1>4, <1>5 DEF HasKeyOf

\* A handler without a request.
LEMMA IdleFacts ==
    /\ IdleHandler \in HandlerRecords
    /\ IdleHandler.phase = "idle"
    /\ IdleHandler.id = None
BY IngestConstants DEF IdleHandler, HandlerRecords, Times

-----------------------------------------------------------------------------
(***************************************************************************)
(* Every step keeps the invariant.                                         *)
(***************************************************************************)

\* The tables are empty and nobody is at work.
LEMMA InitKeeps == Init => IInv
<1> SUFFICES ASSUME Init PROVE IInv
  OBVIOUS
<1>1. clock = 0 /\ alerts = {} /\ answers = {} /\ outbox = [id \in AlertIds |-> 0]
      /\ handler = [h \in Handlers |-> IdleHandler]
  BY DEF Init
<1>2. TypeOK
  BY <1>1, IdleFacts, IngestConstants DEF TypeOK, HandlerRecords, Times
<1>3. \A h \in Handlers : handler[h].phase = "idle" /\ handler[h].id = None
  BY <1>1, IdleFacts
<1>4. HandlerInv /\ InsertedInv
  BY <1>3 DEF HandlerInv, InsertedInv
<1>5. RowInv /\ OneAlertPerKey /\ AnswerInv
  BY <1>1 DEF RowInv, OneAlertPerKey, AnswerInv
<1>6. \A id \in AlertIds : RowsOf(id) = {}
  BY <1>1 DEF RowsOf
<1>7. OutboxInv
  BY <1>1, <1>6, FS_EmptySet DEF OutboxInv
<1> QED  BY <1>2, <1>4, <1>5, <1>7 DEF IInv

\* Steps that change neither alerts nor the outbox: what has to be shown is about
\* handlers and answers.
LEMMA TablesUnchanged ==
    ASSUME IInv, alerts' = alerts, outbox' = outbox, clock' \in Times,
           handler' \in [Handlers -> HandlerRecords], HandlerInv', InsertedInv',
           answers' \subseteq Answers, AnswerInv'
    PROVE  IInv'
<1>1. TypeOK'
  BY DEF IInv, TypeOK, HandlerRecords
<1>2. RowInv' /\ OneAlertPerKey'
  BY DEF IInv, RowInv, OneAlertPerKey
<1>3. OutboxInv'
  BY DEF IInv, OutboxInv, RowsOf
<1> QED  BY <1>1, <1>2, <1>3 DEF IInv

\* A handler that has no inserted row after the step disturbs nobody.
LEMMA OneHandler ==
    ASSUME IInv, alerts' = alerts, NEW h \in Handlers, NEW new \in HandlerRecords,
           handler' = [handler EXCEPT ![h] = new],
           new.phase # "inserted", new.id = None,
           new.phase # "idle" => new.request \in Requests
    PROVE  /\ handler' \in [Handlers -> HandlerRecords]
           /\ HandlerInv'
           /\ InsertedInv'
<1>1. handler \in [Handlers -> HandlerRecords]
  BY DEF IInv, TypeOK, HandlerRecords
<1>2. handler'[h] = new /\ \A g \in Handlers : g # h => handler'[g] = handler[g]
  BY <1>1
<1>3. handler' \in [Handlers -> HandlerRecords]
  BY <1>1
<1>4. HandlerInv'
  BY <1>2 DEF IInv, HandlerInv, RowsFor
<1>5. InsertedInv'
  BY <1>2 DEF IInv, InsertedInv
<1> QED  BY <1>3, <1>4, <1>5

\* The passage of time.
LEMMA TickKeeps ==
    ASSUME IInv, Tick
    PROVE  IInv'
<1> USE DEF Tick
<1>1. clock' \in Times
  BY IngestConstants DEF IInv, TypeOK, Times
<1>2. handler' \in [Handlers -> HandlerRecords] /\ HandlerInv' /\ InsertedInv'
  BY DEF IInv, TypeOK, HandlerRecords, HandlerInv, InsertedInv, RowsFor
<1>3. answers' \subseteq Answers /\ AnswerInv'
  BY DEF IInv, TypeOK, AnswerInv
<1> QED  BY <1>1, <1>2, <1>3, TablesUnchanged

\* A request arrives.
LEMMA ReceiveKeeps ==
    ASSUME IInv, NEW h \in Handlers, NEW r \in Requests, Receive(h, r)
    PROVE  IInv'
<1> DEFINE new == [phase |-> "received", request |-> r, now |-> clock, id |-> None]
<1>1. new \in HandlerRecords /\ new.phase = "received" /\ new.id = None /\ new.request = r
  BY DEF HandlerRecords, IInv, TypeOK
<1>2. handler' = [handler EXCEPT ![h] = new] /\ UNCHANGED <<clock, alerts, outbox, answers>>
  BY DEF Receive
<1> HIDE DEF new
<1>3. handler' \in [Handlers -> HandlerRecords] /\ HandlerInv' /\ InsertedInv'
  BY <1>1, <1>2, OneHandler
<1>4. clock' \in Times /\ answers' \subseteq Answers /\ AnswerInv'
  BY <1>2 DEF IInv, TypeOK, AnswerInv
<1> QED  BY <1>2, <1>3, <1>4, TablesUnchanged

\* A request ends without a trace.
LEMMA GiveUpKeeps ==
    ASSUME IInv, NEW h \in Handlers, GiveUp(h)
    PROVE  IInv'
<1>1. handler' = [handler EXCEPT ![h] = IdleHandler] /\ UNCHANGED <<clock, alerts, outbox, answers>>
  BY DEF GiveUp
<1>2. handler' \in [Handlers -> HandlerRecords] /\ HandlerInv' /\ InsertedInv'
  BY <1>1, IdleFacts, OneHandler
<1>3. clock' \in Times /\ answers' \subseteq Answers /\ AnswerInv'
  BY <1>1 DEF IInv, TypeOK, AnswerInv
<1> QED  BY <1>1, <1>2, <1>3, TablesUnchanged

\* The insertion into alerts gets the unique key.
LEMMA InsertAlertKeeps ==
    ASSUME IInv, NEW h \in Handlers, InsertAlert(h)
    PROVE  IInv'
<1>1. PICK id \in AlertIds :
         FreshId(id) /\ handler' = [handler EXCEPT ![h].phase = "inserted", ![h].id = id]
  BY DEF InsertAlert
<1>2. /\ handler[h].phase = "received"
      /\ RowsFor(handler[h].request) = {}
      /\ \A g \in Handlers : ~InsertedBy(handler[h].request, g)
      /\ UNCHANGED <<clock, alerts, outbox, answers>>
  BY DEF InsertAlert
<1>3. handler \in [Handlers -> HandlerRecords] /\ handler[h] \in HandlerRecords
      /\ handler[h].request \in Requests
  BY <1>2 DEF IInv, TypeOK, HandlerRecords, HandlerInv
<1>4. /\ handler'[h].phase = "inserted" /\ handler'[h].id = id
      /\ handler'[h].request = handler[h].request
      /\ \A g \in Handlers : g # h => handler'[g] = handler[g]
      /\ handler' \in [Handlers -> HandlerRecords]
  BY <1>1, <1>3 DEF HandlerRecords
<1>5. HandlerInv'
  <2> SUFFICES ASSUME NEW g \in Handlers
               PROVE  /\ handler'[g].phase # "idle" => handler'[g].request \in Requests
                      /\ handler'[g].phase # "inserted" => handler'[g].id = None
                      /\ handler'[g].phase = "inserted" =>
                            /\ handler'[g].id \in AlertIds
                            /\ \A row \in alerts : row.id # handler'[g].id
                            /\ {row \in alerts : /\ row.tenant = handler'[g].request.tenant
                                                 /\ row.key = handler'[g].request.key} = {}
    BY <1>2 DEF HandlerInv, RowsFor
  <2>1. CASE g = h
    BY <1>1, <1>2, <1>3, <1>4, <2>1 DEF FreshId, RowsFor
  <2>2. CASE g # h
    BY <1>4, <2>2 DEF IInv, HandlerInv, RowsFor
  <2> QED  BY <2>1, <2>2
<1>6. InsertedInv'
  <2>1. \A g \in Handlers : g # h /\ handler[g].phase = "inserted" =>
           /\ handler[g].id # id
           /\ \/ handler[g].request.tenant # handler[h].request.tenant
              \/ handler[g].request.key # handler[h].request.key
    BY <1>1, <1>2 DEF FreshId, InsertedBy
  <2> QED  BY <1>4, <2>1 DEF IInv, InsertedInv
<1>7. clock' \in Times /\ answers' \subseteq Answers /\ AnswerInv'
  BY <1>2 DEF IInv, TypeOK, AnswerInv
<1> QED  BY <1>2, <1>4, <1>5, <1>6, <1>7, TablesUnchanged

\* The key is taken: the stored hash decides between "duplicate" and "conflict".
LEMMA FindDuplicateKeeps ==
    ASSUME IInv, NEW h \in Handlers, FindDuplicate(h)
    PROVE  IInv'
<1>r. PICK r : r = handler[h].request
  OBVIOUS
<1>1. PICK row \in RowsFor(r) :
         answers' = answers \cup
           {IF SameRequest(row, r, handler[h].now)
            THEN [request |-> r, status |-> "duplicate", id |-> row.id]
            ELSE [request |-> r, status |-> "conflict", id |-> None]}
  BY <1>r DEF FindDuplicate
<1>2. /\ handler[h].phase = "received"
      /\ handler' = [handler EXCEPT ![h] = IdleHandler]
      /\ UNCHANGED <<clock, alerts, outbox>>
  BY DEF FindDuplicate
<1>3. r \in Requests /\ row \in alerts /\ HasKeyOf(row, r) /\ row.id \in AlertIds
  BY <1>r, <1>1, <1>2 DEF IInv, HandlerInv, TypeOK, RowsFor, HasKeyOf, AlertRows
<1>4. SameRequest(row, r, handler[h].now) <=> row.hash = RequestHash(r, 0)
  BY <1>3, HashFacts DEF SameRequest
<1>5. PICK new : /\ answers' = answers \cup {new}
                 /\ new \in Answers /\ new.request = r
                 /\ IF new.status = "conflict"
                    THEN row.hash # RequestHash(r, 0)
                    ELSE row.hash = RequestHash(r, 0) /\ row.id = new.id
  <2>1. CASE SameRequest(row, r, handler[h].now)
    <3> DEFINE n == [request |-> r, status |-> "duplicate", id |-> row.id]
    <3>1. n \in Answers /\ n.request = r /\ n.status = "duplicate" /\ n.id = row.id
      BY <1>3 DEF Answers, Statuses
    <3>2. answers' = answers \cup {n}
      BY <1>1, <2>1
    <3> HIDE DEF n
    <3> QED  BY <1>4, <2>1, <3>1, <3>2
  <2>2. CASE ~SameRequest(row, r, handler[h].now)
    <3> DEFINE n == [request |-> r, status |-> "conflict", id |-> None]
    <3>1. n \in Answers /\ n.request = r /\ n.status = "conflict"
      BY <1>3 DEF Answers, Statuses
    <3>2. answers' = answers \cup {n}
      BY <1>1, <2>2
    <3> HIDE DEF n
    <3> QED  BY <1>4, <2>2, <3>1, <3>2
  <2> QED  BY <2>1, <2>2
<1>6. answers' \subseteq Answers
  BY <1>5 DEF IInv, TypeOK
<1>7. AnswerInv'
  <2> SUFFICES ASSUME NEW answer \in answers'
               PROVE  \E o \in alerts :
                         /\ HasKeyOf(o, answer.request)
                         /\ IF answer.status = "conflict"
                            THEN o.hash # RequestHash(answer.request, 0)
                            ELSE o.hash = RequestHash(answer.request, 0) /\ o.id = answer.id
    BY <1>2 DEF AnswerInv
  <2>1. CASE answer \in answers
    BY <2>1 DEF IInv, AnswerInv
  <2>2. CASE answer = new
    BY <1>3, <1>5, <2>2
  <2> QED  BY <1>5, <2>1, <2>2
<1>8. handler' \in [Handlers -> HandlerRecords] /\ HandlerInv' /\ InsertedInv'
  BY <1>2, IdleFacts, OneHandler
<1>9. clock' \in Times
  BY <1>2 DEF IInv, TypeOK
<1> QED  BY <1>2, <1>6, <1>7, <1>8, <1>9, TablesUnchanged

\* The commit: the row becomes visible together with its event.
LEMMA CommitIngestKeeps ==
    ASSUME IInv, NEW h \in Handlers, NEW answered \in BOOLEAN, CommitIngest(h, answered)
    PROVE  IInv'
<1>r. PICK r : r = handler[h].request
  OBVIOUS
<1>i. PICK id : id = handler[h].id
  OBVIOUS
<1>w. PICK row : row = StoredRow(r, handler[h].now, id)
  OBVIOUS
<1>a. PICK new : new = [request |-> r, status |-> "accepted", id |-> id]
  OBVIOUS
<1>1. /\ handler[h].phase = "inserted"
      /\ alerts' = alerts \cup {row}
      /\ outbox' = [outbox EXCEPT ![id] = @ + 1]
      /\ answers' = IF answered THEN answers \cup {new} ELSE answers
      /\ handler' = [handler EXCEPT ![h] = IdleHandler]
      /\ clock' = clock
  BY <1>r, <1>i, <1>w, <1>a DEF CommitIngest, WithEvent
<1>2. /\ r \in Requests /\ id \in AlertIds /\ handler[h].now \in Times
      /\ \A o \in alerts : o.id # id
      /\ \A o \in alerts : ~HasKeyOf(o, r)
  BY <1>r, <1>i, <1>1 DEF IInv, TypeOK, HandlerInv, RowsFor, HasKeyOf
<1>3. /\ row \in AlertRows /\ row.id = id /\ HasKeyOf(row, r)
      /\ row.hash = RequestHash(r, 0)
      /\ row.hash.content = row.content
      /\ row.hash.occurredAt # None => row.occurredAt = row.hash.occurredAt
  BY <1>w, <1>2, StoredRowFacts
<1>4. new \in Answers /\ new.request = r /\ new.status = "accepted" /\ new.id = id
  BY <1>a, <1>2 DEF Answers, Statuses
<1>5. /\ handler \in [Handlers -> HandlerRecords]
      /\ handler' \in [Handlers -> HandlerRecords]
      /\ handler'[h].phase = "idle" /\ handler'[h].id = None
      /\ \A g \in Handlers : g # h => handler'[g] = handler[g]
  BY <1>1, IdleFacts DEF IInv, TypeOK, HandlerRecords
<1>6. TypeOK'
  <2>1. outbox' \in [AlertIds -> Nat]
    BY <1>1, <1>2 DEF IInv, TypeOK
  <2>2. alerts' \subseteq AlertRows /\ answers' \subseteq Answers
    BY <1>1, <1>3, <1>4 DEF IInv, TypeOK
  <2> QED  BY <1>1, <1>5, <2>1, <2>2 DEF IInv, TypeOK, HandlerRecords
<1>7. HandlerInv'
  <2> SUFFICES ASSUME NEW g \in Handlers, g # h
               PROVE  /\ handler[g].phase # "idle" => handler[g].request \in Requests
                      /\ handler[g].phase # "inserted" => handler[g].id = None
                      /\ handler[g].phase = "inserted" =>
                            /\ handler[g].id \in AlertIds
                            /\ \A o \in alerts' : o.id # handler[g].id
                            /\ \A o \in alerts' : ~HasKeyOf(o, handler[g].request)
    BY <1>5 DEF HandlerInv, RowsFor, HasKeyOf
  <2>1. handler[g].phase = "inserted" =>
           /\ handler[g].id # id
           /\ \/ handler[g].request.tenant # r.tenant
              \/ handler[g].request.key # r.key
    BY <1>r, <1>i, <1>1 DEF IInv, InsertedInv
  <2>2. handler[g].phase = "inserted" => row.id # handler[g].id /\ ~HasKeyOf(row, handler[g].request)
    BY <1>3, <2>1 DEF HasKeyOf
  <2>3. handler[g].phase = "inserted" =>
           \A o \in alerts : o.id # handler[g].id /\ ~HasKeyOf(o, handler[g].request)
    BY DEF IInv, HandlerInv, RowsFor, HasKeyOf
  <2> QED  BY <1>1, <2>2, <2>3 DEF IInv, HandlerInv
<1>8. InsertedInv'
  BY <1>5 DEF IInv, InsertedInv
<1>9. RowInv'
  <2>1. \A o, other \in alerts' : o.id = other.id => o = other
    BY <1>1, <1>2, <1>3 DEF IInv, RowInv
  <2>2. \A o \in alerts' :
           /\ o.hash.content = o.content
           /\ o.hash.occurredAt # None => o.occurredAt = o.hash.occurredAt
    BY <1>1, <1>3 DEF IInv, RowInv
  <2> QED  BY <2>1, <2>2 DEF RowInv
<1>10. OneAlertPerKey'
  <2>1. \A o \in alerts : ~(o.tenant = row.tenant /\ o.key = row.key)
    BY <1>2, <1>3 DEF HasKeyOf
  <2> QED  BY <1>1, <2>1 DEF IInv, OneAlertPerKey
<1>11. AnswerInv'
  <2> SUFFICES ASSUME NEW answer \in answers'
               PROVE  \E o \in alerts' :
                         /\ HasKeyOf(o, answer.request)
                         /\ IF answer.status = "conflict"
                            THEN o.hash # RequestHash(answer.request, 0)
                            ELSE o.hash = RequestHash(answer.request, 0) /\ o.id = answer.id
    BY DEF AnswerInv
  <2>1. CASE answer \in answers
    BY <1>1, <2>1 DEF IInv, AnswerInv
  <2>2. CASE answer = new
    BY <1>1, <1>3, <1>4, <2>2
  <2> QED  BY <1>1, <2>1, <2>2
<1>12. OutboxInv'
  <2> SUFFICES ASSUME NEW j \in AlertIds
               PROVE  outbox'[j] = Cardinality({o \in alerts' : o.id = j})
    BY DEF OutboxInv, RowsOf
  <2>1. outbox[j] = Cardinality(RowsOf(j)) /\ outbox \in [AlertIds -> Nat]
    BY DEF IInv, OutboxInv, TypeOK
  <2>2. CASE j = id
    <3>1. RowsOf(j) = {} /\ {o \in alerts' : o.id = j} = {row}
      BY <1>1, <1>2, <1>3, <2>2 DEF RowsOf
    <3>2. outbox[j] = 0 /\ Cardinality({row}) = 1
      BY <2>1, <3>1, FS_EmptySet, FS_Singleton
    <3>3. outbox'[j] = 1
      BY <1>1, <2>1, <2>2, <3>2
    <3> QED  BY <3>1, <3>2, <3>3
  <2>3. CASE j # id
    <3>1. {o \in alerts' : o.id = j} = RowsOf(j)
      BY <1>1, <1>3, <2>3 DEF RowsOf
    <3>2. outbox'[j] = outbox[j]
      BY <1>1, <2>1, <2>3
    <3> QED  BY <2>1, <3>1, <3>2
  <2> QED  BY <2>2, <2>3
<1> QED  BY <1>6, <1>7, <1>8, <1>9, <1>10, <1>11, <1>12 DEF IInv

\* A step that changes nothing.
LEMMA StutterKeeps ==
    ASSUME IInv, UNCHANGED vars
    PROVE  IInv'
<1> USE DEF vars
<1>1. handler' \in [Handlers -> HandlerRecords] /\ HandlerInv' /\ InsertedInv'
  BY DEF IInv, TypeOK, HandlerRecords, HandlerInv, InsertedInv, RowsFor
<1>2. clock' \in Times /\ answers' \subseteq Answers /\ AnswerInv'
  BY DEF IInv, TypeOK, AnswerInv
<1> QED  BY <1>1, <1>2, TablesUnchanged

-----------------------------------------------------------------------------
(***************************************************************************)
(* Theorems.                                                               *)
(***************************************************************************)

\* Every behaviour of clients and API servers keeps the inductive invariant.
THEOREM Invariance == Spec => []IInv
<1>1. IInv /\ [Next]_vars => IInv'
  <2> SUFFICES ASSUME IInv, [Next]_vars PROVE IInv'
    OBVIOUS
  <2>1. CASE Tick
    BY <2>1, TickKeeps
  <2>2. CASE \E h \in Handlers, r \in Requests : Receive(h, r)
    BY <2>2, ReceiveKeeps
  <2>3. CASE \E h \in Handlers : GiveUp(h)
    BY <2>3, GiveUpKeeps
  <2>4. CASE \E h \in Handlers : InsertAlert(h)
    BY <2>4, InsertAlertKeeps
  <2>5. CASE \E h \in Handlers : FindDuplicate(h)
    BY <2>5, FindDuplicateKeeps
  <2>6. CASE \E h \in Handlers, answered \in BOOLEAN : CommitIngest(h, answered)
    BY <2>6, CommitIngestKeeps
  <2>7. CASE UNCHANGED vars
    BY <2>7, StutterKeeps
  <2> QED  BY <2>1, <2>2, <2>3, <2>4, <2>5, <2>6, <2>7 DEF Next
<1> QED  BY <1>1, InitKeeps, PTL DEF Spec

\* At most one alert is stored per tenant and Idempotency-Key, however many
\* requests with the key are handled at the same time.
THEOREM UniqueKey == Spec => []OneAlertPerKey
<1>1. IInv => OneAlertPerKey
  BY DEF IInv
<1> QED  BY <1>1, Invariance, PTL

\* IngestAlert stores an alert and one event for it, or neither, and no column
\* of a stored row is NULL.
THEOREM AlertWithEvent == Spec => []EventPerAlert
<1>1. ASSUME IInv PROVE EventPerAlert
  BY <1>1 DEF IInv, OutboxInv, RowsOf, EventPerAlert
<1> QED  BY <1>1, Invariance, PTL

\* The alert named in an "accepted" or "duplicate" answer is stored, with the
\* key and the content of the client's request.
THEOREM TrueReceipts == Spec => []ReceiptIsTrue
<1>1. ASSUME IInv PROVE ReceiptIsTrue
  <2> SUFFICES ASSUME NEW answer \in answers, answer.status # "conflict"
               PROVE  \E row \in alerts :
                         /\ row.id = answer.id
                         /\ row.tenant = answer.request.tenant
                         /\ row.key = answer.request.key
                         /\ row.content = answer.request.content
                         /\ answer.request.occurredAt # None =>
                               row.occurredAt = answer.request.occurredAt
    BY DEF ReceiptIsTrue
  <2>1. answer.request \in Requests
    BY <1>1 DEF IInv, TypeOK, Answers
  <2>2. PICK row \in alerts :
           /\ HasKeyOf(row, answer.request)
           /\ row.hash = RequestHash(answer.request, 0) /\ row.id = answer.id
    BY <1>1 DEF IInv, AnswerInv
  <2>3. /\ row.hash.content = answer.request.content
        /\ row.hash.occurredAt = answer.request.occurredAt
    BY <2>1, <2>2, HashFacts
  <2>4. /\ row.hash.content = row.content
        /\ row.hash.occurredAt # None => row.occurredAt = row.hash.occurredAt
    BY <1>1 DEF IInv, RowInv
  <2> QED  BY <2>2, <2>3, <2>4 DEF HasKeyOf
<1> QED  BY <1>1, Invariance, PTL

\* A client that sends the same request again is never told that its key belongs
\* to another alert, whatever time has passed and whatever white space changed around
\* the three fields that IngestAlert trims.
THEOREM RetrySafe == Spec => []RetryIsRecognised
<1>1. ASSUME IInv PROVE RetryIsRecognised
  <2> SUFFICES ASSUME NEW answer \in answers, NEW earlier \in answers,
                      answer.status = "conflict", earlier.status # "conflict",
                      answer.request.tenant = earlier.request.tenant,
                      answer.request.key = earlier.request.key,
                      answer.request.content = earlier.request.content,
                      answer.request.occurredAt = earlier.request.occurredAt
               PROVE  FALSE
    BY DEF RetryIsRecognised
  <2>1. PICK row \in alerts :
           HasKeyOf(row, answer.request) /\ row.hash # RequestHash(answer.request, 0)
    BY <1>1 DEF IInv, AnswerInv
  <2>2. PICK other \in alerts :
           HasKeyOf(other, earlier.request) /\ other.hash = RequestHash(earlier.request, 0)
    BY <1>1 DEF IInv, AnswerInv
  <2>3. row = other
    BY <1>1, <2>1, <2>2 DEF IInv, OneAlertPerKey, HasKeyOf
  <2>4. RequestHash(answer.request, 0) = RequestHash(earlier.request, 0)
    BY DEF RequestHash
  <2> QED  BY <2>1, <2>2, <2>3, <2>4
<1> QED  BY <1>1, Invariance, PTL

-----------------------------------------------------------------------------
(***************************************************************************)
(* Fingerprint: what IngestAlert does with the input before its            *)
(* transaction, for any texts, any normal form of them, any inputs and any *)
(* number of requests.                                                     *)
(*                                                                         *)
(* The argument: the loop over the labels refuses in every order or in     *)
(* none, because what it looks for is said of all labels together; and the *)
(* normalised keys of an accepted request are different, so that in the    *)
(* second loop no label replaces another.                                  *)
(***************************************************************************)
\* What Validate looks for, said of all labels at once.
LabelsAreValid(in, keys) ==
    /\ \A k \in keys : Normal[k] # Blank /\ {k, in.labels[k]} \cap Oversized = {}
    /\ \A k, l \in keys : Normal[k] = Normal[l] => k = l

InputIsValid(in) == FieldsAreValid(in) /\ LabelsAreValid(in, DOMAIN in.labels)

Normals(keys) == {Normal[k] : k \in keys}

\* The labels a loop has come by.
Past(a) == LabelKeys(a) \ todo[a]

FTypes ==
    /\ input \in [Alerts -> Inputs]
    /\ phase \in [Alerts -> {"fields", "validating", "accepted", "done", "refused"}]
    /\ todo \in [Alerts -> SUBSET Texts]
    /\ seen \in [Alerts -> SUBSET Texts]
    /\ DOMAIN labels = Alerts
    /\ DOMAIN result = Alerts
    /\ \A a \in Alerts : todo[a] \subseteq LabelKeys(a)

\* Until a request is accepted nothing is normalised.
EarlyInv(a) ==
    /\ phase[a] \in {"fields", "validating", "refused"} => labels[a] = NoLabels
    /\ phase[a] = "fields" => seen[a] = {}

\* What Validate has seen is valid.
ValidatingInv(a) ==
    phase[a] = "validating" =>
        /\ FieldsAreValid(input[a])
        /\ seen[a] = Normals(Past(a))
        /\ LabelsAreValid(input[a], Past(a))

\* What is accepted is valid, and each label that NormalizedFingerprint has come by
\* is under its normalised key.
AcceptedInv(a) ==
    phase[a] \in {"accepted", "done"} =>
        /\ InputIsValid(input[a])
        /\ labels[a] \in [Normals(Past(a)) -> Texts]
        /\ \A k \in Past(a) : labels[a][Normal[k]] = Normal[input[a].labels[k]]

DoneInv(a) ==
    /\ phase[a] = "done" => todo[a] = {} /\ result[a] = Fingerprint(a)
    /\ phase[a] # "done" => result[a] = Blank

\* What is refused has a reason that is there in any order.
RefusedInv(a) == phase[a] = "refused" => ~InputIsValid(input[a])

RequestInv(a) ==
    EarlyInv(a) /\ ValidatingInv(a) /\ AcceptedInv(a) /\ DoneInv(a) /\ RefusedInv(a)

FInv == FTypes /\ \A a \in Alerts : RequestInv(a)

\* The constants, and a request's keys.
LEMMA TextFacts ==
    /\ Blank \in Texts /\ Normal \in [Texts -> Texts]
    /\ \A t \in Texts : Normal[t] = Blank <=> t = Blank
    /\ \A in \in Inputs :
          /\ in.fingerprint \in Texts /\ in.service \in Texts /\ in.title \in Texts
          /\ DOMAIN in.labels \subseteq Texts /\ IsFiniteSet(DOMAIN in.labels)
          /\ \A k \in DOMAIN in.labels : in.labels[k] \in Texts
BY FingerprintConstants

\* A step of one request leaves the others alone.
LEMMA OtherRequests ==
    ASSUME FInv, NEW a \in Alerts, RequestInv(a)', FTypes', input' = input,
           \A b \in Alerts : b # a =>
               /\ phase'[b] = phase[b] /\ todo'[b] = todo[b] /\ seen'[b] = seen[b]
               /\ labels'[b] = labels[b] /\ result'[b] = result[b]
    PROVE  FInv'
<1>1. ASSUME NEW b \in Alerts, b # a PROVE RequestInv(b)'
  <2>1. /\ input' = input /\ phase'[b] = phase[b] /\ todo'[b] = todo[b] /\ seen'[b] = seen[b]
        /\ labels'[b] = labels[b] /\ result'[b] = result[b]
    BY <1>1
  <2>2. Past(b)' = Past(b)
    BY <2>1 DEF Past, LabelKeys
  <2>3. EarlyInv(b)' /\ RefusedInv(b)' /\ ValidatingInv(b)' /\ AcceptedInv(b)'
    BY <2>1, <2>2 DEF FInv, RequestInv, EarlyInv, RefusedInv, ValidatingInv, AcceptedInv
  <2>4. Fingerprint(b)' = Fingerprint(b)
    BY <2>1 DEF Fingerprint
  <2>5. DoneInv(b)'
    BY <2>1, <2>4 DEF FInv, RequestInv, DoneInv
  <2> QED  BY <2>3, <2>5 DEF RequestInv
<1> QED  BY <1>1 DEF FInv

\* A request begins with nothing seen.
LEMMA FInitKeeps ==
    ASSUME FingerprintInit
    PROVE  FInv
<1>1. FTypes
  BY DEF FingerprintInit, FTypes
<1>2. ASSUME NEW a \in Alerts PROVE RequestInv(a)
  <2>1. phase[a] = "fields" /\ labels[a] = NoLabels /\ result[a] = Blank /\ seen[a] = {}
    BY DEF FingerprintInit
  <2> QED  BY <2>1 DEF RequestInv, EarlyInv, ValidatingInv, AcceptedInv, DoneInv, RefusedInv
<1> QED  BY <1>1, <1>2 DEF FInv

\* Refusals.
LEMMA RefuseKeeps ==
    ASSUME FInv, NEW a \in Alerts, Refuse(a), phase[a] \in {"fields", "validating"},
           ~InputIsValid(input[a])
    PROVE  FInv'
<1>1. /\ phase'[a] = "refused" /\ UNCHANGED <<input, todo, seen, labels, result>>
      /\ \A b \in Alerts : b # a => phase'[b] = phase[b]
      /\ phase' \in [Alerts -> {"fields", "validating", "accepted", "done", "refused"}]
  BY DEF Refuse, FInv, FTypes
<1>2. FTypes'
  BY <1>1 DEF FInv, FTypes, LabelKeys
<1>3. labels[a] = NoLabels /\ result[a] = Blank
  BY DEF FInv, RequestInv, EarlyInv, DoneInv
<1>4. RequestInv(a)'
  BY <1>1, <1>3 DEF RequestInv, EarlyInv, ValidatingInv, AcceptedInv, DoneInv, RefusedInv, NoLabels
<1> QED  BY <1>1, <1>2, <1>4, OtherRequests

\* The loop of Validate begins.
LEMMA CheckFieldsKeeps ==
    ASSUME FInv, NEW a \in Alerts, CheckFields(a)
    PROVE  FInv'
<1>1. /\ phase'[a] = "validating" /\ todo'[a] = LabelKeys(a) /\ FieldsAreValid(input[a])
      /\ seen'[a] = {}
      /\ UNCHANGED <<input, seen, labels, result>> /\ phase[a] = "fields"
      /\ \A b \in Alerts : b # a => phase'[b] = phase[b] /\ todo'[b] = todo[b]
  BY DEF CheckFields, FInv, FTypes, RequestInv, EarlyInv
<1>2. LabelKeys(a) \subseteq Texts
  BY TextFacts DEF LabelKeys, FInv, FTypes
<1>3. FTypes'
  BY <1>1, <1>2 DEF FInv, FTypes, LabelKeys, CheckFields
<1>4. Past(a)' = {}
  BY <1>1 DEF Past, LabelKeys
<1>5. LabelsAreValid(input[a], {})' /\ Normals({})' = {}
  BY DEF LabelsAreValid, Normals
<1>6. labels[a] = NoLabels /\ result[a] = Blank
  BY <1>1 DEF FInv, RequestInv, EarlyInv, DoneInv
<1>7. FieldsAreValid(input[a])' /\ NoLabels' = NoLabels
  BY <1>1 DEF FieldsAreValid, NoLabels
<1>8. RequestInv(a)'
  BY <1>1, <1>4, <1>5, <1>6, <1>7
     DEF RequestInv, EarlyInv, ValidatingInv, AcceptedInv, DoneInv, RefusedInv
<1> QED  BY <1>1, <1>3, <1>8, OtherRequests

\* A label that differs from all before it after normalisation.
LEMMA CheckLabelKeeps ==
    ASSUME FInv, NEW a \in Alerts, NEW key \in LabelKeys(a),
           CheckLabel(a, key)
    PROVE  FInv'
<1>1. /\ phase[a] = "validating" /\ key \in todo[a]
      /\ LabelIsValid(key, input[a].labels[key], seen[a])
      /\ seen'[a] = seen[a] \cup {Normal[key]} /\ todo'[a] = todo[a] \ {key}
      /\ UNCHANGED <<input, phase, labels, result>>
      /\ \A b \in Alerts : b # a => seen'[b] = seen[b] /\ todo'[b] = todo[b]
  BY DEF CheckLabel, FInv, FTypes
<1>2. key \in Texts /\ Normal[key] \in Texts
  BY TextFacts DEF LabelKeys, FInv, FTypes
<1>3. FTypes'
  BY <1>1, <1>2 DEF FInv, FTypes, LabelKeys, CheckLabel
<1>4. Past(a)' = Past(a) \cup {key} /\ key \notin Past(a)
  BY <1>1 DEF Past, LabelKeys
<1>5. /\ FieldsAreValid(input[a]) /\ seen[a] = Normals(Past(a))
      /\ LabelsAreValid(input[a], Past(a)) /\ labels[a] = NoLabels /\ result[a] = Blank
  BY <1>1 DEF FInv, RequestInv, ValidatingInv, EarlyInv, DoneInv
<1>6. seen'[a] = Normals(Past(a)')
  BY <1>1, <1>4, <1>5 DEF Normals
<1>7. LabelsAreValid(input[a], Past(a)')
  <2>1. Normal[key] # Blank /\ {key, input[a].labels[key]} \cap Oversized = {}
        /\ \A k \in Past(a) : Normal[k] # Normal[key]
    BY <1>1, <1>5 DEF LabelIsValid, Normals
  <2> QED  BY <1>4, <1>5, <2>1 DEF LabelsAreValid
<1>8. FieldsAreValid(input[a])' /\ NoLabels' = NoLabels
  BY <1>1, <1>5 DEF FieldsAreValid, NoLabels
<1>9. RequestInv(a)'
  BY <1>1, <1>5, <1>6, <1>7, <1>8
     DEF RequestInv, EarlyInv, ValidatingInv, AcceptedInv, DoneInv, RefusedInv
<1> QED  BY <1>1, <1>3, <1>9, OtherRequests

\* A label is refused for a reason that the request has in any order: the key that
\* was seen is that of another label.
LEMMA RefuseLabelKeeps ==
    ASSUME FInv, NEW a \in Alerts, NEW key \in LabelKeys(a), RefuseLabel(a, key)
    PROVE  FInv'
<1>1. /\ phase[a] = "validating" /\ key \in todo[a] /\ Refuse(a)
      /\ ~LabelIsValid(key, input[a].labels[key], seen[a])
  BY DEF RefuseLabel
<1>2. seen[a] = Normals(Past(a)) /\ Past(a) \subseteq LabelKeys(a) /\ key \notin Past(a)
  BY <1>1 DEF FInv, RequestInv, ValidatingInv, Past
<1>3. ~LabelsAreValid(input[a], DOMAIN input[a].labels)
  BY <1>1, <1>2 DEF LabelIsValid, LabelsAreValid, Normals, LabelKeys
<1> QED  BY <1>1, <1>3, RefuseKeeps DEF InputIsValid

\* All labels are seen, and NormalizedFingerprint begins.
LEMMA AcceptKeeps ==
    ASSUME FInv, NEW a \in Alerts, Accept(a)
    PROVE  FInv'
<1>1. /\ phase[a] = "validating" /\ todo[a] = {}
      /\ phase'[a] = "accepted" /\ todo'[a] = LabelKeys(a)
      /\ UNCHANGED <<input, seen, labels, result>>
      /\ \A b \in Alerts : b # a => phase'[b] = phase[b] /\ todo'[b] = todo[b]
  BY DEF Accept, FInv, FTypes
<1>2. LabelKeys(a) \subseteq Texts
  BY TextFacts DEF LabelKeys, FInv, FTypes
<1>3. FTypes'
  BY <1>1, <1>2 DEF FInv, FTypes, LabelKeys, Accept
<1>4. Past(a) = DOMAIN input[a].labels /\ Past(a)' = {}
  BY <1>1 DEF Past, LabelKeys
<1>5. InputIsValid(input[a]) /\ labels[a] = NoLabels /\ result[a] = Blank
  BY <1>1, <1>4 DEF FInv, RequestInv, ValidatingInv, EarlyInv, DoneInv, InputIsValid
<1>6. InputIsValid(input[a])'
  BY <1>1, <1>5 DEF InputIsValid, LabelsAreValid, FieldsAreValid
<1>7. labels[a] \in [Normals({}) -> Texts]
  BY <1>5 DEF NoLabels, Normals
<1>8. RequestInv(a)'
  BY <1>1, <1>4, <1>5, <1>6, <1>7
     DEF RequestInv, EarlyInv, ValidatingInv, AcceptedInv, DoneInv, RefusedInv
<1> QED  BY <1>1, <1>3, <1>8, OtherRequests

\* A label is written under a key that no other label of the request has.
LEMMA NormalizeLabelKeeps ==
    ASSUME FInv, NEW a \in Alerts, NEW key \in LabelKeys(a),
           NormalizeLabel(a, key)
    PROVE  FInv'
<1>1. PICK k0 : k0 = Normal[key]
  OBVIOUS
<1>2. PICK v0 : v0 = Normal[input[a].labels[key]]
  OBVIOUS
<1>3. /\ phase[a] = "accepted" /\ key \in todo[a] /\ todo'[a] = todo[a] \ {key}
      /\ labels'[a] = [k \in DOMAIN labels[a] \cup {k0} |-> IF k = k0 THEN v0 ELSE labels[a][k]]
      /\ UNCHANGED <<input, phase, seen, result>>
      /\ \A b \in Alerts : b # a => labels'[b] = labels[b] /\ todo'[b] = todo[b]
  BY <1>1, <1>2 DEF NormalizeLabel, Entry, FInv, FTypes
<1>4. key \in Texts /\ k0 \in Texts /\ v0 \in Texts
  BY <1>1, <1>2, TextFacts DEF LabelKeys, FInv, FTypes
<1>5. FTypes'
  BY <1>3, <1>4 DEF FInv, FTypes, LabelKeys, NormalizeLabel
<1>6. Past(a)' = Past(a) \cup {key} /\ key \notin Past(a) /\ Past(a) \subseteq LabelKeys(a)
  BY <1>3 DEF Past, LabelKeys
<1>7. /\ InputIsValid(input[a]) /\ labels[a] \in [Normals(Past(a)) -> Texts]
      /\ \A k \in Past(a) : labels[a][Normal[k]] = Normal[input[a].labels[k]]
      /\ result[a] = Blank
  BY <1>3 DEF FInv, RequestInv, AcceptedInv, DoneInv
<1>8. \A k \in Past(a) : Normal[k] # k0
  BY <1>1, <1>6, <1>7 DEF InputIsValid, LabelsAreValid, LabelKeys
<1>9. Normals(Past(a)') = Normals(Past(a)) \cup {k0}
  BY <1>1, <1>6 DEF Normals
<1>10. labels'[a] \in [Normals(Past(a)') -> Texts]
  <2>1. DOMAIN labels[a] = Normals(Past(a))
    BY <1>7
  <2> QED  BY <1>3, <1>4, <1>7, <1>9, <2>1
<1>11. ASSUME NEW k \in Past(a)' PROVE labels'[a][Normal[k]] = Normal[input[a].labels[k]]
  <2>1. CASE k = key
    BY <1>1, <1>2, <1>3, <2>1
  <2>2. CASE k # key
    <3>1. k \in Past(a) /\ Normal[k] # k0 /\ Normal[k] \in DOMAIN labels[a]
      BY <1>6, <1>7, <1>8, <1>11, <2>2 DEF Normals
    <3> QED  BY <1>3, <1>7, <3>1
  <2> QED  BY <2>1, <2>2
<1>12. InputIsValid(input[a])'
  BY <1>3, <1>7 DEF InputIsValid, LabelsAreValid, FieldsAreValid
<1>13. RequestInv(a)'
  BY <1>3, <1>7, <1>10, <1>11, <1>12
     DEF RequestInv, EarlyInv, ValidatingInv, AcceptedInv, DoneInv, RefusedInv
<1> QED  BY <1>3, <1>5, <1>13, OtherRequests

\* The fingerprint is computed.
LEMMA FinishKeeps ==
    ASSUME FInv, NEW a \in Alerts, Finish(a)
    PROVE  FInv'
<1>1. /\ phase[a] = "accepted" /\ todo[a] = {} /\ phase'[a] = "done"
      /\ result'[a] = Fingerprint(a)
      /\ UNCHANGED <<input, todo, seen, labels>>
      /\ \A b \in Alerts : b # a => phase'[b] = phase[b] /\ result'[b] = result[b]
  BY DEF Finish, FInv, FTypes
<1>2. FTypes'
  BY <1>1 DEF FInv, FTypes, LabelKeys, Finish
<1>3. Fingerprint(a)' = Fingerprint(a) /\ Past(a)' = Past(a)
  BY <1>1 DEF Fingerprint, Past, LabelKeys
<1>4. InputIsValid(input[a])' /\ AcceptedInv(a)'
  BY <1>1, <1>3 DEF FInv, RequestInv, AcceptedInv, InputIsValid, LabelsAreValid, FieldsAreValid
<1>5. RequestInv(a)'
  BY <1>1, <1>3, <1>4 DEF RequestInv, EarlyInv, ValidatingInv, DoneInv, RefusedInv
<1> QED  BY <1>1, <1>2, <1>5, OtherRequests

\* Every step of Validate and NormalizedFingerprint keeps the invariant.
LEMMA FStepKeeps ==
    ASSUME FInv, [FingerprintNext]_fingerprintVars
    PROVE  FInv'
<1>1. CASE UNCHANGED fingerprintVars
  <2>1. UNCHANGED <<input, phase, todo, seen, labels, result>>
    BY <1>1 DEF fingerprintVars
  <2>2. FTypes'
    BY <2>1 DEF FInv, FTypes, LabelKeys
  <2>3. ASSUME NEW a \in Alerts PROVE RequestInv(a)'
    <3>1. Past(a)' = Past(a) /\ Fingerprint(a)' = Fingerprint(a)
      BY <2>1 DEF Past, LabelKeys, Fingerprint
    <3> QED  BY <2>1, <3>1 DEF FInv, RequestInv, EarlyInv, ValidatingInv, AcceptedInv, DoneInv,
                               RefusedInv, InputIsValid, LabelsAreValid, FieldsAreValid
  <2> QED  BY <2>2, <2>3 DEF FInv
<1>2. ASSUME NEW a \in Alerts, RefuseFields(a) PROVE FInv'
  BY <1>2, RefuseKeeps DEF RefuseFields, InputIsValid
<1>3. CASE FingerprintNext
  BY <1>2, <1>3, CheckFieldsKeeps, CheckLabelKeeps, RefuseLabelKeeps, AcceptKeeps,
     NormalizeLabelKeeps, FinishKeeps DEF FingerprintNext
<1> QED  BY <1>1, <1>3

\* The invariant holds while requests are validated, in any order of their labels.
THEOREM FInvariance == FingerprintSpec => []FInv
<1>1. FingerprintInit => FInv
  BY FInitKeeps
<1>2. FInv /\ [FingerprintNext]_fingerprintVars => FInv'
  BY FStepKeeps
<1> QED  BY <1>1, <1>2, PTL DEF FingerprintSpec

\* Keys that differ after normalisation are as many as before.
LEMMA NormalsCount ==
    ASSUME NEW keys, IsFiniteSet(keys), \A k, l \in keys : Normal[k] = Normal[l] => k = l
    PROVE  Cardinality(Normals(keys)) = Cardinality(keys)
<1>1. PICK f : f = [k \in keys |-> Normal[k]]
  OBVIOUS
<1>2. f \in Bijection(keys, Normals(keys))
  <2>1. f \in [keys -> Normals(keys)] /\ \A k \in keys : f[k] = Normal[k]
    BY <1>1 DEF Normals
  <2>2. \A k, l \in keys : f[k] = f[l] => k = l
    BY <2>1
  <2>3. \A n \in Normals(keys) : \E k \in keys : f[k] = n
    BY <2>1 DEF Normals
  <2> QED  BY <2>1, <2>2, <2>3 DEF Bijection, Injection, Surjection, IsInjective
<1>3. ExistsBijection(keys, Normals(keys))
  BY <1>2 DEF ExistsBijection
<1> QED  BY <1>3, FS_Bijection

\* Whether Validate refuses a request does not depend on the order in which it
\* comes by the labels, and what it accepts has no label without name, too long,
\* or named like another.
THEOREM StableRefusal == FingerprintSpec => []RefusalIsStable
<1>1. FInv => RefusalIsStable
  <2> SUFFICES ASSUME FInv PROVE RefusalIsStable
    OBVIOUS
  <2>1. ASSUME NEW a \in Alerts
        PROVE  /\ todo[a] \subseteq LabelKeys(a) /\ seen[a] \subseteq Texts
               /\ DOMAIN labels[a] \subseteq Normals(LabelKeys(a))
    <3>1. todo[a] \subseteq LabelKeys(a) /\ seen[a] \subseteq Texts
      BY DEF FInv, FTypes
    <3>2. RequestInv(a) /\ phase[a] \in {"fields", "validating", "accepted", "done", "refused"}
      BY DEF FInv, FTypes
    <3>3. DOMAIN labels[a] \subseteq Normals(LabelKeys(a))
      <4>1. CASE phase[a] \in {"accepted", "done"}
        BY <3>2, <4>1 DEF RequestInv, AcceptedInv, Normals, Past
      <4>2. CASE phase[a] \notin {"accepted", "done"}
        BY <3>2, <4>2 DEF RequestInv, EarlyInv, NoLabels
      <4> QED  BY <4>1, <4>2
    <3> QED  BY <3>1, <3>3
  <2>2. FingerprintTypeOK
    BY <2>1 DEF FingerprintTypeOK, FInv, FTypes, Normals
  <2>3. ASSUME NEW a \in Alerts, NEW b \in Alerts, input[a] = input[b]
        PROVE  ~(phase[a] = "refused" /\ phase[b] \in {"accepted", "done"})
    BY <2>3 DEF FInv, RequestInv, RefusedInv, AcceptedInv
  <2>4. ASSUME NEW a \in Alerts, phase[a] \in {"accepted", "done"}
        PROVE  /\ Blank \notin LabelKeys(a)
               /\ \A k \in LabelKeys(a) : {k, input[a].labels[k]} \cap Oversized = {}
               /\ Cardinality(Normals(LabelKeys(a))) = Cardinality(LabelKeys(a))
    <3>1. LabelsAreValid(input[a], LabelKeys(a))
      BY <2>4 DEF FInv, RequestInv, AcceptedInv, InputIsValid, LabelKeys
    <3>2. input[a] \in Inputs /\ LabelKeys(a) \subseteq Texts /\ IsFiniteSet(LabelKeys(a))
      BY TextFacts DEF FInv, FTypes, LabelKeys
    <3>3. Blank \notin LabelKeys(a)
      BY <3>1, <3>2, TextFacts DEF LabelsAreValid
    <3>4. Cardinality(Normals(LabelKeys(a))) = Cardinality(LabelKeys(a))
      BY <3>1, <3>2, NormalsCount DEF LabelsAreValid
    <3> QED  BY <3>1, <3>3, <3>4 DEF LabelsAreValid
  <2> QED  BY <2>2, <2>3, <2>4 DEF RefusalIsStable, Normals
<1> QED  BY <1>1, FInvariance, PTL

\* The entries NormalizedFingerprint has written in the end are the pairs of
\* normalised names and values of the request.
LEMMA LabelsAreThePairs ==
    ASSUME FInv, NEW a \in Alerts, phase[a] = "done"
    PROVE  {<<n, labels[a][n]>> : n \in DOMAIN labels[a]} = Pairs(input[a])
<1>1. Past(a) = DOMAIN input[a].labels
  BY DEF FInv, RequestInv, DoneInv, Past, LabelKeys
<1>2. /\ labels[a] \in [Normals(DOMAIN input[a].labels) -> Texts]
      /\ \A k \in DOMAIN input[a].labels : labels[a][Normal[k]] = Normal[input[a].labels[k]]
  BY <1>1 DEF FInv, RequestInv, AcceptedInv
<1>3. DOMAIN labels[a] = Normals(DOMAIN input[a].labels)
  BY <1>2
<1> QED  BY <1>2, <1>3 DEF Pairs, Normals

\* Requests get the same fingerprint exactly if they are about the same problem or
\* one gives the digest derived from the other, in whatever order Go's maps are
\* iterated, for any texts, digests among them, and any number of labels.
THEOREM StableFingerprint == FingerprintSpec => []FingerprintIsStable
<1>1. FInv => FingerprintIsStable
  <2> SUFFICES ASSUME FInv, NEW a \in Alerts, NEW b \in Alerts,
                      phase[a] = "done", phase[b] = "done"
               PROVE  result[a] = result[b] <=>
                         \/ SameProblem(input[a], input[b])
                         \/ Quotes(input[a], input[b])
                         \/ Quotes(input[b], input[a])
    BY DEF FingerprintIsStable
  <2> DEFINE Derived(in) == Digest(Normal[in.service], Normal[in.title], Pairs(in))
  <2>1. ASSUME NEW c \in {a, b}
        PROVE  result[c] = IF input[c].fingerprint # Blank THEN Normal[input[c].fingerprint]
                           ELSE Derived(input[c])
    <3>1. result[c] = Fingerprint(c)
      BY <2>1 DEF FInv, RequestInv, DoneInv
    <3>2. {<<n, labels[c][n]>> : n \in DOMAIN labels[c]} = Pairs(input[c])
      BY <2>1, LabelsAreThePairs
    <3> QED  BY <3>1, <3>2 DEF Fingerprint
  <2>2. /\ input[a].fingerprint \in Texts /\ input[b].fingerprint \in Texts
        /\ \A t \in Texts : Normal[t] = Blank <=> t = Blank
    BY TextFacts DEF FInv, FTypes
  <2>3. Derived(input[a]) = Derived(input[b]) <=>
           /\ Normal[input[a].service] = Normal[input[b].service]
           /\ Normal[input[a].title] = Normal[input[b].title]
           /\ Pairs(input[a]) = Pairs(input[b])
    BY DEF Digest
  <2> HIDE DEF Derived
  <2>4. SameProblem(input[a], input[b]) <=>
           /\ Normal[input[a].fingerprint] = Normal[input[b].fingerprint]
           /\ input[a].fingerprint = Blank => Derived(input[a]) = Derived(input[b])
    BY <2>3 DEF SameProblem
  <2>5. \A in, other : Quotes(in, other) <=>
           /\ other.fingerprint = Blank /\ in.fingerprint # Blank
           /\ Normal[in.fingerprint] = Derived(other)
    BY DEF Quotes, Derived
  <2>6. CASE input[a].fingerprint # Blank /\ input[b].fingerprint # Blank
    BY <2>1, <2>4, <2>5, <2>6
  <2>7. CASE input[a].fingerprint = Blank /\ input[b].fingerprint = Blank
    BY <2>1, <2>4, <2>5, <2>7
  <2>8. CASE input[a].fingerprint # Blank /\ input[b].fingerprint = Blank
    BY <2>1, <2>2, <2>4, <2>5, <2>8
  <2>9. CASE input[a].fingerprint = Blank /\ input[b].fingerprint # Blank
    BY <2>1, <2>2, <2>4, <2>5, <2>9
  <2> QED  BY <2>6, <2>7, <2>8, <2>9
<1> QED  BY <1>1, FInvariance, PTL
=============================================================================
