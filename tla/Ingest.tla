------------------------------- MODULE Ingest -------------------------------
(***************************************************************************)
(* POST /v1/alerts: how a request with an Idempotency-Key becomes at most  *)
(* one alert and one event in the outbox, while clients send it again      *)
(* after lost answers and several API servers handle it at the same time.  *)
(*                                                                         *)
(* The transaction of IngestAlert is split where it can wait for another:  *)
(* at the insertion into alerts, whose unique key is the pair of tenant    *)
(* and idempotency key.                                                    *)
(***************************************************************************)
EXTENDS Naturals, FiniteSets

CONSTANTS
    Tenants,
    Keys,       \* values of the header Idempotency-Key
    Contents,   \* what an alert says, but for white space and occurred_at
    Invalid,    \* the contents that AlertInput.Validate refuses
    AlertIds,   \* values uuid.New() may return
    Handlers,   \* requests in progress at the API servers
    MaxTime,    \* bound of the clock
    MaxAnswers, \* bound: no request arrives after so many different answers
    None        \* NULL, or nothing

ASSUME IngestConstants ==
    /\ Invalid \subseteq Contents
    /\ MaxTime \in Nat
    /\ MaxAnswers \in Nat
    /\ None \notin Tenants \cup Keys \cup Contents \cup AlertIds \cup (0 .. MaxTime)

VARIABLES
    clock,    \* Server.clock
    alerts,   \* the table alerts
    outbox,   \* per alert, the number of its rows in outbox_events
    handler,  \* per request in progress, what it asks for and how far it is
    answers   \* the answers given so far, delivered to the client or not

vars == <<clock, alerts, outbox, handler, answers>>

Times == 0 .. MaxTime

\* A request as it is sent; occurredAt is None where the body leaves it out.
\* padded: white space around external_id, service or title.
Requests == [tenant : Tenants, key : Keys, content : Contents,
             occurredAt : Times \cup {None}, padded : BOOLEAN]

\* A request_hash is one for equal encodings of the request only.
Hashes == [content : Contents, occurredAt : Times \cup {None}, padded : BOOLEAN]

AlertRows == [tenant : Tenants, key : Keys, id : AlertIds, content : Contents,
              occurredAt : Times, hash : Hashes]

Statuses == {"accepted", "duplicate", "conflict"}

Answers == [request : Requests, status : Statuses, id : AlertIds \cup {None}]

IdleHandler == [phase |-> "idle", request |-> None, now |-> 0, id |-> None]

Init ==
    /\ clock = 0
    /\ alerts = {}
    /\ outbox = [id \in AlertIds |-> 0]
    /\ handler = [h \in Handlers |-> IdleHandler]
    /\ answers = {}

-----------------------------------------------------------------------------
\* Faulty variant of RequestHash: the default of occurred_at is filled in first.
RequestHashOfStored(r, now) ==
    [content |-> r.content,
     occurredAt |-> IF r.occurredAt = None THEN now ELSE r.occurredAt,
     padded |-> FALSE]

\* The hash is taken after the fields are trimmed and before occurred_at gets
\* its default.
RequestHash(r, now) ==
    [content |-> r.content, occurredAt |-> r.occurredAt, padded |-> FALSE]

StoredRow(r, now, id) ==
    [tenant     |-> r.tenant,
     key        |-> r.key,
     id         |-> id,
     content    |-> r.content,
     occurredAt |-> IF r.occurredAt = None THEN now ELSE r.occurredAt,
     hash       |-> RequestHash(r, now)]

\* The committed row with the key of a request.
RowsFor(r) == {row \in alerts : row.tenant = r.tenant /\ row.key = r.key}

\* Faulty variant of InsertedBy: no unique key makes insertions wait.
InsertedByNobody(r, h) == FALSE

\* Handler h holds an uncommitted row with the key of the request.
InsertedBy(r, h) ==
    /\ handler[h].phase = "inserted"
    /\ handler[h].request.tenant = r.tenant
    /\ handler[h].request.key = r.key

FreshId(id) ==
    /\ \A row \in alerts : row.id # id
    /\ \A h \in Handlers : handler[h].id # id

Tick ==
    /\ clock < MaxTime
    /\ clock' = clock + 1
    /\ UNCHANGED <<alerts, outbox, handler, answers>>

\* A request arrives: a first one, or one sent again for any reason.
Receive(h, r) ==
    /\ handler[h].phase = "idle"
    /\ Cardinality(answers) < MaxAnswers
    /\ handler' = [handler EXCEPT ![h] = [phase |-> "received", request |-> r,
                                          now |-> clock, id |-> None]]
    /\ UNCHANGED <<clock, alerts, outbox, answers>>

\* The request ends without a trace: it is refused (API key, size, signature,
\* JSON, Validate), or the transaction fails and is rolled back, or the server
\* stops.
GiveUp(h) ==
    /\ handler[h].phase # "idle"
    /\ handler' = [handler EXCEPT ![h] = IdleHandler]
    /\ UNCHANGED <<clock, alerts, outbox, answers>>

\* The INSERT gets the unique key.
InsertAlert(h) ==
    /\ handler[h].phase = "received"
    /\ handler[h].request.content \notin Invalid
    /\ RowsFor(handler[h].request) = {}
    /\ \A g \in Handlers : ~InsertedBy(handler[h].request, g)
    /\ \E id \in AlertIds :
          /\ FreshId(id)
          /\ handler' = [handler EXCEPT ![h].phase = "inserted", ![h].id = id]
    /\ UNCHANGED <<clock, alerts, outbox, answers>>

\* Faulty variant of SameRequest: the key alone identifies the request.
SameKey(row, r, now) == TRUE

SameRequest(row, r, now) == row.hash = RequestHash(r, now)

\* ON CONFLICT DO NOTHING: the committed row with the key is compared.
FindDuplicate(h) ==
    /\ handler[h].phase = "received"
    /\ handler[h].request.content \notin Invalid
    /\ LET r == handler[h].request
       IN  \E row \in RowsFor(r) :
             answers' = answers \cup
               {IF SameRequest(row, r, handler[h].now)
                THEN [request |-> r, status |-> "duplicate", id |-> row.id]
                ELSE [request |-> r, status |-> "conflict", id |-> None]}
    /\ handler' = [handler EXCEPT ![h] = IdleHandler]
    /\ UNCHANGED <<clock, alerts, outbox>>

\* Faulty variant of WithEvent: the event is left to a second transaction.
WithoutEvent(id) == outbox

WithEvent(id) == [outbox EXCEPT ![id] = @ + 1]

\* The event is inserted and the transaction commits.  Where the commit's own
\* answer is lost (answered = FALSE) the client sees an error.
CommitIngest(h, answered) ==
    /\ handler[h].phase = "inserted"
    /\ LET r == handler[h].request
           id == handler[h].id
       IN  /\ alerts' = alerts \cup {StoredRow(r, handler[h].now, id)}
           /\ outbox' = WithEvent(id)
           /\ answers' = IF answered
                         THEN answers \cup {[request |-> r, status |-> "accepted", id |-> id]}
                         ELSE answers
    /\ handler' = [handler EXCEPT ![h] = IdleHandler]
    /\ UNCHANGED clock

Next ==
    \/ Tick
    \/ \E h \in Handlers :
          \/ \E r \in Requests : Receive(h, r)
          \/ GiveUp(h)
          \/ InsertAlert(h)
          \/ FindDuplicate(h)
          \/ \E answered \in BOOLEAN : CommitIngest(h, answered)

Spec == Init /\ [][Next]_vars

-----------------------------------------------------------------------------
(***************************************************************************)
(* Properties.                                                             *)
(***************************************************************************)

\* Every variable has its type; the columns of alerts are NOT NULL, also where
\* the request leaves occurred_at out.
TypeOK ==
    /\ clock \in Times
    /\ alerts \subseteq AlertRows
    /\ outbox \in [AlertIds -> Nat]
    /\ handler \in [Handlers -> [phase   : {"idle", "received", "inserted"},
                                 request : Requests \cup {None},
                                 now     : Times,
                                 id      : AlertIds \cup {None}]]
    /\ answers \subseteq Answers

\* One alert per idempotency key: of all requests with a key, at the same time
\* or one after the other, at most one is stored.  Equal keys of two tenants do
\* not meet.
OneAlertPerKey ==
    \A row, other \in alerts :
        row.tenant = other.tenant /\ row.key = other.key => row = other

\* The alert and its event are stored together: each alert has one row in the
\* outbox, also when its insertion was tried twice or its answer was lost, and
\* no event is without its alert.  No column of a stored row is NULL.
EventPerAlert ==
    /\ TypeOK
    /\ \A id \in AlertIds :
          outbox[id] = Cardinality({row \in alerts : row.id = id})

\* A client that is told "accepted" or "duplicate" can rely on it: the alert it
\* is given is stored under its own tenant and key and says what it sent.
ReceiptIsTrue ==
    \A answer \in answers :
        answer.status # "conflict" =>
            \E row \in alerts :
                /\ row.id = answer.id
                /\ row.tenant = answer.request.tenant
                /\ row.key = answer.request.key
                /\ row.content = answer.request.content
                /\ answer.request.occurredAt # None => row.occurredAt = answer.request.occurredAt

\* A request that is sent again, later and with other white space around its
\* external_id, service or title, is recognised: a conflict is answered only if the
\* key was used for another alert.
RetryIsRecognised ==
    \A answer, earlier \in answers :
        /\ answer.status = "conflict"
        /\ earlier.status # "conflict"
        /\ answer.request.tenant = earlier.request.tenant
        /\ answer.request.key = earlier.request.key
        => \/ answer.request.content # earlier.request.content
           \/ answer.request.occurredAt # earlier.request.occurredAt
=============================================================================
