--------------------------- MODULE TimelineProofs ---------------------------
(***************************************************************************)
(* Proofs about Timeline, for any number of incidents, transactions and    *)
(* calls, and any page size.                                               *)
(*                                                                         *)
(* The argument: the id of a change is drawn, and its version computed,    *)
(* while the transaction has the incident's row; nobody else can commit a  *)
(* change of that incident before it, so later versions have later ids.    *)
(* What a reader has seen stays in the table, and what is committed after  *)
(* the reader has seen the incident has a greater version.                 *)
(***************************************************************************)
EXTENDS Timeline, FiniteSetTheorems, TLAPS

(***************************************************************************)
(* Pages.                                                                  *)
(***************************************************************************)

\* No two rows share an id.
Distinct(rows) == \A e, f \in rows : e.id = f.id => e = f

\* A set of natural numbers that is not empty has a least element.
LEMMA LeastNatural ==
    ASSUME NEW S \in SUBSET Nat, S # {}
    PROVE  \E m \in S : \A n \in S : m <= n
<1> DEFINE R == {ss \in Nat \X Nat : ss[1] < ss[2]}
<1>1. IsWellFoundedOn(R, Nat)
  BY NatLessThanWellFounded DEF OpToRel
<1> HIDE DEF R
<1>2. PICK m \in S : \A n \in S : ~(<<n, m>> \in R)
  BY <1>1, WFMin
<1>3. \A n \in S : ~(n < m)
  BY <1>2 DEF R
<1> QED  BY <1>3

\* The parts of an entry.
LEMMA EntryFacts ==
    ASSUME NEW e \in Entries
    PROVE  e.id \in Ids /\ e.id \in Nat /\ e.incident \in Incidents /\ e.at \in Times /\ e.version \in Nat
BY TimelineConstants DEF Entries, Ids

\* Some rows have an oldest and a newest row.
LEMMA Extremes ==
    ASSUME NEW rows \in SUBSET Entries, rows # {}
    PROVE  /\ \E m \in rows : \A e \in rows : m.id <= e.id
           /\ \E m \in rows : \A e \in rows : e.id <= m.id
<1>1. \A e \in rows : e.id \in Nat /\ e.id <= MaxEntries /\ MaxEntries \in Nat
  BY TimelineConstants, EntryFacts DEF Ids
<1>2. PICK S : S = {e.id : e \in rows}
  OBVIOUS
<1>3. PICK T : T = {MaxEntries - e.id : e \in rows}
  OBVIOUS
<1>4. S \in SUBSET Nat /\ S # {} /\ T \in SUBSET Nat /\ T # {}
  BY <1>1, <1>2, <1>3
<1>5. \E m \in rows : \A e \in rows : m.id <= e.id
  <2>1. PICK k \in S : \A n \in S : k <= n
    BY <1>4, LeastNatural
  <2> QED  BY <1>2, <2>1
<1>6. \E m \in rows : \A e \in rows : e.id <= m.id
  <2>1. PICK k \in T : \A n \in T : k <= n
    BY <1>4, LeastNatural
  <2>2. PICK m \in rows : k = MaxEntries - m.id
    BY <1>3
  <2>3. \A e \in rows : MaxEntries - m.id <= MaxEntries - e.id
    BY <1>3, <2>1, <2>2
  <2> QED  BY <1>1, <2>3
<1> QED  BY <1>5, <1>6

\* Rows with ids of their own are finitely many, and as many as their ids.
LEMMA Countable ==
    ASSUME NEW rows \in SUBSET Entries, Distinct(rows)
    PROVE  IsFiniteSet(rows) /\ Cardinality(IdsOf(rows)) = Cardinality(rows)
<1>1. IdsOf(rows) \in SUBSET Ids
  BY EntryFacts DEF IdsOf
<1>2. IsFiniteSet(Ids)
  BY FS_Interval, TimelineConstants DEF Ids
<1>3. IsFiniteSet(IdsOf(rows))
  BY <1>1, <1>2, FS_Subset
<1>4. PICK f : f = [e \in rows |-> e.id]
  OBVIOUS
<1>5. f \in [rows -> IdsOf(rows)]
  BY <1>4 DEF IdsOf
<1>6. f \in Injection(rows, IdsOf(rows))
  BY <1>4, <1>5 DEF Injection, IsInjective, Distinct
<1>7. f \in Surjection(rows, IdsOf(rows))
  BY <1>4, <1>5 DEF Surjection, IdsOf
<1>8. IsFiniteSet(rows)
  BY <1>3, <1>6, FS_Injection
<1>9. Cardinality(IdsOf(rows)) = Cardinality(rows)
  BY <1>3, <1>6, <1>7, FS_Injection
<1> QED  BY <1>8, <1>9

\* The rows after one: finitely many, and fewer after a later one.
LEMMA AfterFacts ==
    ASSUME NEW rows \in SUBSET Entries, Distinct(rows), NEW e \in rows
    PROVE  /\ IsFiniteSet({f \in rows : f.id > e.id})
           /\ Cardinality({f \in rows : f.id > e.id}) \in Nat
           /\ \A g \in rows : g.id <= e.id =>
                 Cardinality({f \in rows : f.id > e.id}) <= Cardinality({f \in rows : f.id > g.id})
<1>1. IsFiniteSet(rows)
  BY Countable
<1>2. \A g \in rows : /\ IsFiniteSet({f \in rows : f.id > g.id})
                      /\ Cardinality({f \in rows : f.id > g.id}) \in Nat
  <2>1. ASSUME NEW g \in rows
        PROVE  IsFiniteSet({f \in rows : f.id > g.id})
    BY <1>1, FS_Subset
  <2> QED  BY <2>1, FS_CardinalityType
<1>3. ASSUME NEW g \in rows, g.id <= e.id
      PROVE  Cardinality({f \in rows : f.id > e.id}) <= Cardinality({f \in rows : f.id > g.id})
  <2>1. \A f \in rows : f.id \in Nat
    BY EntryFacts
  <2>2. {f \in rows : f.id > e.id} \in SUBSET {f \in rows : f.id > g.id}
    BY <1>3, <2>1
  <2> QED  BY <1>2, <2>2, FS_Subset
<1> QED  BY <1>2, <1>3

\* A page has at most as many rows as the limit says: all of it but its oldest
\* row come after that one.
LEMMA PageIsLimited ==
    ASSUME NEW rows \in SUBSET Entries, Distinct(rows), NEW limit \in Nat \ {0}
    PROVE  /\ IsFiniteSet(Newest(rows, limit))
           /\ Cardinality(Newest(rows, limit)) \in Nat
           /\ Cardinality(Newest(rows, limit)) <= limit
<1>1. IsFiniteSet(rows) /\ Newest(rows, limit) \in SUBSET rows
  BY Countable DEF Newest
<1>2. IsFiniteSet(Newest(rows, limit))
  BY <1>1, FS_Subset
<1>3. Cardinality(Newest(rows, limit)) \in Nat
  BY <1>2, FS_CardinalityType
<1>4. CASE Newest(rows, limit) = {}
  BY <1>4, FS_EmptySet
<1>5. CASE Newest(rows, limit) # {}
  <2>1. PICK m \in Newest(rows, limit) : \A e \in Newest(rows, limit) : m.id <= e.id
    BY <1>1, <1>5, Extremes
  <2>2. PICK later : later = {f \in rows : f.id > m.id}
    OBVIOUS
  <2>3. IsFiniteSet(later) /\ Cardinality(later) \in Nat /\ Cardinality(later) < limit
    BY <1>1, <2>1, <2>2, AfterFacts DEF Newest
  <2>4. \A e \in Newest(rows, limit) : e = m \/ e \in later
    BY <1>1, <2>1, <2>2, EntryFacts DEF Distinct
  <2>5. Newest(rows, limit) \in SUBSET (later \cup {m})
    BY <2>4
  <2>6. /\ IsFiniteSet(later \cup {m})
        /\ Cardinality(later \cup {m}) = IF m \in later THEN Cardinality(later)
                                                       ELSE Cardinality(later) + 1
    BY <2>3, FS_AddElement
  <2>7. PICK size \in Nat : size = Cardinality(later \cup {m})
    BY <2>6, FS_CardinalityType
  <2>8. PICK after \in Nat : after = Cardinality(later)
    BY <2>3
  <2>9. size <= after + 1 /\ after < limit
    BY <2>3, <2>6, <2>7, <2>8
  <2>10. Cardinality(Newest(rows, limit)) <= size
    BY <2>5, <2>6, <2>7, FS_Subset
  <2> QED  BY <1>2, <1>3, <2>9, <2>10
<1> QED  BY <1>2, <1>3, <1>4, <1>5

\* The newest row is on the page.
LEMMA PageIsNotEmpty ==
    ASSUME NEW rows \in SUBSET Entries, Distinct(rows), NEW limit \in Nat \ {0}, rows # {}
    PROVE  Newest(rows, limit) # {}
<1>1. PICK m \in rows : \A e \in rows : e.id <= m.id
  BY Extremes
<1>2. {f \in rows : f.id > m.id} = {}
  BY <1>1, EntryFacts
<1>3. Cardinality({f \in rows : f.id > m.id}) = 0
  BY <1>2, FS_EmptySet
<1> QED  BY <1>1, <1>3 DEF Newest

\* A row that is not on the page is older than all of a full page: the newest of
\* the rows left out has as many rows after it as the limit says.
LEMMA PageIsFull ==
    ASSUME NEW rows \in SUBSET Entries, Distinct(rows), NEW limit \in Nat \ {0},
           NEW e \in rows, e \notin Newest(rows, limit)
    PROVE  /\ Cardinality(Newest(rows, limit)) = limit
           /\ \A f \in Newest(rows, limit) : e.id < f.id
<1>1. ASSUME NEW f \in Newest(rows, limit), ~(e.id < f.id) PROVE FALSE
  <2>1. f \in rows /\ Cardinality({g \in rows : g.id > f.id}) < limit
    BY <1>1 DEF Newest
  <2>2. f.id <= e.id
    BY <1>1, <2>1, EntryFacts
  <2>3. /\ Cardinality({g \in rows : g.id > e.id}) <= Cardinality({g \in rows : g.id > f.id})
        /\ Cardinality({g \in rows : g.id > e.id}) \in Nat
        /\ Cardinality({g \in rows : g.id > f.id}) \in Nat
    BY <2>1, <2>2, AfterFacts
  <2>4. ~(Cardinality({g \in rows : g.id > e.id}) < limit)
    BY DEF Newest
  <2> QED  BY <2>1, <2>3, <2>4
<1>2. PICK out : out = rows \ Newest(rows, limit)
  OBVIOUS
<1>3. PICK m \in out : \A g \in out : g.id <= m.id
  <2>1. out \in SUBSET Entries /\ out # {}
    BY <1>2
  <2> QED  BY <2>1, Extremes
<1>4. m \in rows /\ ~(Cardinality({g \in rows : g.id > m.id}) < limit)
  BY <1>2 DEF Newest
<1>5. PICK later : later = {g \in rows : g.id > m.id}
  OBVIOUS
<1>6. later \in SUBSET Newest(rows, limit)
  BY <1>2, <1>3, <1>5, EntryFacts
<1>7. /\ IsFiniteSet(Newest(rows, limit))
      /\ Cardinality(Newest(rows, limit)) \in Nat
      /\ Cardinality(Newest(rows, limit)) <= limit
  BY PageIsLimited
<1>8. Cardinality(later) <= Cardinality(Newest(rows, limit)) /\ Cardinality(later) \in Nat
  BY <1>4, <1>5, <1>6, <1>7, FS_Subset, AfterFacts
<1>9. Cardinality(Newest(rows, limit)) = limit
  BY <1>4, <1>5, <1>7, <1>8
<1> QED  BY <1>1, <1>9

-----------------------------------------------------------------------------
(***************************************************************************)
(* The inductive invariant.                                                *)
(***************************************************************************)

Transactions == [phase : {"idle", "begun", "locked", "waiting", "inserted"},
                 kind : Kinds \cup {"none"}, incident : Incidents \cup {"none"}, at : Times,
                 id : 0 .. MaxEntries, version : Nat]

Calls == [phase : {"idle", "incident", "timeline", "summary", "answered", "failed"},
          tool : Tools \cup {"none"}, tenant : Tenants \cup {"none"},
          incident : Incidents \cup {"none"}, version : Nat, timeline : SUBSET Entries,
          evidence : SUBSET Ids]

Types ==
    /\ clock \in Times
    /\ nextId \in 1 .. MaxEntries + 1
    /\ version \in [Incidents -> Nat]
    /\ entries \subseteq Entries
    /\ tx \in [Writers -> Transactions]
    /\ call \in [Callers -> Calls]

\* The transaction has drawn an id.
Numbered(w) == tx[w].phase \in {"waiting", "inserted"}

\* An id is drawn once: rows and transactions have ids of their own.
IdInv ==
    /\ Distinct(entries)
    /\ \A e \in entries : e.id < nextId
    /\ \A w \in Writers : tx[w].id < nextId
    /\ \A w \in Writers : Numbered(w) =>
          tx[w].id # 0 /\ \A e \in entries : e.id # tx[w].id
    /\ \A w, o \in Writers : w # o /\ Numbered(w) /\ Numbered(o) => tx[w].id # tx[o].id

\* A transaction that has the row of an incident FOR UPDATE, or its advisory lock.
Holds(w) == tx[w].kind \in Changing /\ tx[w].phase \in {"locked", "inserted"}

\* What a transaction has done so far.  One that holds the incident has computed
\* the version that follows, and its id is greater than those of all changes.
WriterInv ==
    \A w \in Writers :
        /\ tx[w].phase # "idle" => tx[w].kind \in Kinds /\ tx[w].incident \in Incidents
        /\ tx[w].phase = "locked" => tx[w].kind \in Changing
        /\ tx[w].phase = "waiting" => tx[w].kind = "schedule"
        /\ tx[w].kind = "schedule" => tx[w].version = 0
        /\ Holds(w) => tx[w].version = version[tx[w].incident] + 1
        /\ Holds(w) /\ tx[w].phase = "inserted" =>
              \A e \in entries :
                  e.incident = tx[w].incident /\ e.version > 0 => e.id < tx[w].id

\* One transaction at a time holds an incident.
LockInv ==
    \A w, o \in Writers :
        Holds(w) /\ Holds(o) /\ tx[w].incident = tx[o].incident => w = o

\* The trail has one entry per version, in the order of the ids.
TrailInv ==
    /\ \A e \in entries : e.version <= version[e.incident]
    /\ \A e, f \in entries :
          e.incident = f.incident /\ e.version > 0 /\ f.version > 0 =>
              (e.id < f.id <=> e.version < f.version)
    /\ \A i \in Incidents : \A v \in 1 .. version[i] :
          \E e \in entries : e.incident = i /\ e.version = v

\* What the database has promised never to take back.
DataInv == IdInv /\ WriterInv /\ LockInv /\ TrailInv

\* A call of summarize_incident has found its incident.
Found(k) ==
    k.tool = "summarize_incident" /\ k.phase \in {"timeline", "summary", "answered"}

\* A call that has a timeline.
HasTimeline(k) == k.phase \in {"summary", "answered"}

\* What a call has seen.
Seen(k) ==
    /\ k.phase # "idle" => k.incident \in Incidents /\ k.tenant \in Tenants
    /\ k.phase \in {"incident", "summary"} => k.tool = "summarize_incident"
    /\ k.tool # "summarize_incident" => k.version = 0
    /\ Found(k) => Owner[k.incident] = k.tenant /\ k.version \in 1 .. version[k.incident]

\* The timeline of a call: rows of the incident, at least one, and all up to the
\* version seen or the newest of them.
Paged(k) ==
    /\ k.timeline \subseteq entries
    /\ Cardinality(k.timeline) <= Limit
    /\ HasTimeline(k) => \A e \in k.timeline : e.incident = k.incident
    /\ HasTimeline(k) /\ Found(k) => k.timeline # {}
    /\ HasTimeline(k) => \A e \in entries :
          e.incident = k.incident /\ e.version \in 1 .. k.version =>
              \/ e \in k.timeline
              \/ Cardinality(k.timeline) = Limit /\ \A f \in k.timeline : e.id < f.id

\* The evidence of an answer.
Backed(k) ==
    Found(k) /\ k.phase = "answered" =>
        k.evidence # {} /\ k.evidence \subseteq IdsOf(k.timeline)

CallInv == \A c \in Callers : Seen(call[c]) /\ Paged(call[c]) /\ Backed(call[c])

IInv ==
    /\ Types
    /\ DataInv
    /\ CallInv

-----------------------------------------------------------------------------
(***************************************************************************)
(* Facts.                                                                  *)
(***************************************************************************)

\* The parts of a transaction, and of the database.
LEMMA WriterFacts ==
    ASSUME IInv, NEW w \in Writers
    PROVE  /\ tx \in [Writers -> Transactions] /\ tx[w] \in Transactions
           /\ tx[w].phase \in {"idle", "begun", "locked", "waiting", "inserted"}
           /\ tx[w].kind \in Kinds \cup {"none"} /\ tx[w].at \in Times
           /\ tx[w].id \in 0 .. MaxEntries /\ tx[w].version \in Nat
           /\ tx[w].phase # "idle" =>
                 /\ tx[w].kind \in Kinds /\ tx[w].incident \in Incidents
                 /\ version[tx[w].incident] \in Nat
           /\ nextId \in Nat /\ nextId >= 1 /\ MaxEntries \in Nat
<1>1. tx \in [Writers -> Transactions] /\ tx[w] \in Transactions
  BY DEF IInv, Types
<1>2. /\ tx[w].phase \in {"idle", "begun", "locked", "waiting", "inserted"}
      /\ tx[w].kind \in Kinds \cup {"none"} /\ tx[w].at \in Times
      /\ tx[w].id \in 0 .. MaxEntries /\ tx[w].version \in Nat
  BY <1>1 DEF Transactions
<1>3. tx[w].phase # "idle" => tx[w].kind \in Kinds /\ tx[w].incident \in Incidents
  BY DEF IInv, DataInv, WriterInv
<1>4. nextId \in Nat /\ nextId >= 1 /\ MaxEntries \in Nat /\ version \in [Incidents -> Nat]
  BY TimelineConstants DEF IInv, Types
<1> QED  BY <1>1, <1>2, <1>3, <1>4

\* What the other transactions and the rows allow a transaction to become, where
\* n is the next id.
Fits(w, t, n) ==
    /\ t.id < n
    /\ t.phase \in {"waiting", "inserted"} =>
          /\ t.id # 0
          /\ \A e \in entries : e.id # t.id
          /\ \A o \in Writers : o # w /\ Numbered(o) => tx[o].id # t.id
    /\ t.phase # "idle" => t.kind \in Kinds /\ t.incident \in Incidents
    /\ t.phase = "locked" => t.kind \in Changing
    /\ t.phase = "waiting" => t.kind = "schedule"
    /\ t.kind = "schedule" => t.version = 0
    /\ t.kind \in Changing /\ t.phase \in {"locked", "inserted"} =>
          /\ t.version = version[t.incident] + 1
          /\ \A o \in Writers : o # w /\ Holds(o) => tx[o].incident # t.incident
    /\ t.kind \in Changing /\ t.phase = "inserted" =>
          \A e \in entries : e.incident = t.incident /\ e.version > 0 => e.id < t.id

\* A step of one transaction that commits nothing.
LEMMA WriteStep ==
    ASSUME IInv, NEW w \in Writers, NEW t \in Transactions, tx' = [tx EXCEPT ![w] = t],
           NEW n \in 1 .. MaxEntries + 1, nextId' = n, nextId <= n, Fits(w, t, n),
           UNCHANGED <<clock, version, entries, call>>
    PROVE  IInv'
<1>1. /\ tx' \in [Writers -> Transactions] /\ tx'[w] = t
      /\ \A o \in Writers : o # w => tx'[o] = tx[o]
  BY DEF IInv, Types
<1>2. nextId \in Nat /\ n \in Nat /\ MaxEntries \in Nat
  BY WriterFacts
<1>3. Types'
  BY <1>1 DEF IInv, Types
<1>4. IdInv'
  <2>1. \A e \in entries : e.id < n
    <3>1. \A e \in entries : e.id < nextId /\ e.id \in Nat
      BY EntryFacts DEF IInv, Types, DataInv, IdInv
    <3> QED  BY <1>2, <3>1
  <2>2. \A o \in Writers : tx'[o].id < n
    <3>1. \A o \in Writers : tx[o].id < nextId /\ tx[o].id \in Nat
      BY WriterFacts DEF IInv, DataInv, IdInv
    <3> QED  BY <1>1, <1>2, <3>1 DEF Fits
  <2>3. \A o \in Writers : Numbered(o)' => tx'[o].id # 0 /\ \A e \in entries : e.id # tx'[o].id
    BY <1>1 DEF Fits, Numbered, IInv, DataInv, IdInv
  <2>4. \A o, q \in Writers : o # q /\ Numbered(o)' /\ Numbered(q)' => tx'[o].id # tx'[q].id
    BY <1>1 DEF Fits, Numbered, IInv, DataInv, IdInv
  <2> QED  BY <2>1, <2>2, <2>3, <2>4 DEF IInv, DataInv, IdInv
<1>5. WriterInv'
  BY <1>1 DEF Fits, Holds, IInv, DataInv, WriterInv
<1>6. LockInv'
  BY <1>1 DEF Fits, Holds, IInv, DataInv, LockInv
<1>7. TrailInv'
  BY DEF IInv, DataInv, TrailInv
<1>8. CallInv'
  BY DEF IInv, CallInv, Seen, Paged, Backed, Found, HasTimeline, IdsOf
<1> QED  BY <1>3, <1>4, <1>5, <1>6, <1>7, <1>8 DEF IInv, DataInv

\* Initially there is nothing.
LEMMA InitKeeps == Init => IInv
<1> SUFFICES ASSUME Init PROVE IInv
  OBVIOUS
<1>1. 0 \in Times /\ 1 \in 1 .. MaxEntries + 1 /\ 0 \in 0 .. MaxEntries /\ Limit \in Nat
  BY TimelineConstants DEF Times
<1>2. NoTx \in Transactions
  BY <1>1 DEF NoTx, Transactions
<1>3. NoCall \in Calls
  BY DEF NoCall, Calls
<1>4. Types
  BY <1>1, <1>2, <1>3 DEF Types, Init
<1>5. \A w \in Writers : tx[w].phase = "idle" /\ tx[w].id = 0 /\ tx[w].kind = "none"
  BY DEF Init, NoTx
<1>6. entries = {} /\ nextId = 1 /\ version = [i \in Incidents |-> 0]
  BY DEF Init
<1>7. IdInv
  BY <1>5, <1>6 DEF IdInv, Distinct, Numbered
<1>8. WriterInv /\ LockInv
  BY <1>5, <1>6 DEF WriterInv, LockInv, Holds
<1>9. TrailInv
  BY <1>6 DEF TrailInv
<1>10. \A c \in Callers : /\ call[c].phase = "idle" /\ call[c].tool = "none" /\ call[c].version = 0
                          /\ call[c].timeline = {}
  BY DEF Init, NoCall
<1>11. CallInv
  <2>1. Cardinality({}) = 0 /\ 0 <= Limit
    BY <1>1, FS_EmptySet
  <2>2. ASSUME NEW c \in Callers
        PROVE  Seen(call[c]) /\ Paged(call[c]) /\ Backed(call[c])
    <3>1. ~Found(call[c]) /\ ~HasTimeline(call[c])
      BY <1>10 DEF Found, HasTimeline
    <3>2. Cardinality(call[c].timeline) <= Limit
      BY <1>10, <2>1
    <3> QED  BY <1>10, <3>1, <3>2 DEF Seen, Paged, Backed
  <2> QED  BY <2>2 DEF CallInv
<1> QED  BY <1>4, <1>7, <1>8, <1>9, <1>11 DEF IInv, DataInv

-----------------------------------------------------------------------------
(***************************************************************************)
(* The steps of the writers.                                               *)
(***************************************************************************)

\* Time passes.
LEMMA TickKeeps ==
    ASSUME IInv, Tick
    PROVE  IInv'
<1>1. clock' \in Times /\ UNCHANGED <<nextId, version, entries, tx, call>>
  BY TimelineConstants DEF Tick, IInv, Types, Times
<1>2. Types'
  BY <1>1 DEF IInv, Types
<1>3. IdInv' /\ WriterInv' /\ LockInv' /\ TrailInv'
  BY <1>1 DEF IInv, DataInv, IdInv, WriterInv, LockInv, TrailInv, Distinct, Numbered, Holds
<1>4. CallInv'
  BY <1>1 DEF IInv, CallInv, Seen, Paged, Backed, Found, HasTimeline, IdsOf
<1> QED  BY <1>2, <1>3, <1>4 DEF IInv, DataInv

\* A transaction begins: it has no id and no lock.
LEMMA BeginKeeps ==
    ASSUME IInv, NEW w \in Writers, NEW kind \in Kinds, NEW i \in Incidents, Begin(w, kind, i)
    PROVE  IInv'
<1>1. PICK t : t = [NoTx EXCEPT !.phase = "begun", !.kind = kind, !.incident = i, !.at = clock]
  OBVIOUS
<1>2. t = [phase |-> "begun", kind |-> kind, incident |-> i, at |-> clock, id |-> 0, version |-> 0]
  BY <1>1 DEF NoTx
<1>3. clock \in Times /\ 0 \in 0 .. MaxEntries
  BY TimelineConstants DEF IInv, Types
<1>4. t \in Transactions
  BY <1>2, <1>3 DEF Transactions
<1>5. tx' = [tx EXCEPT ![w] = t] /\ UNCHANGED <<clock, nextId, version, entries, call>>
  BY <1>1 DEF Begin
<1>6. nextId \in 1 .. MaxEntries + 1 /\ nextId \in Nat /\ 0 < nextId
  BY WriterFacts DEF IInv, Types
<1>7. t.phase = "begun" /\ t.kind = kind /\ t.incident = i /\ t.id = 0 /\ t.version = 0
  BY <1>2
<1>8. Fits(w, t, nextId)
  BY <1>6, <1>7 DEF Fits
<1>9. nextId' = nextId /\ nextId <= nextId /\ UNCHANGED <<clock, version, entries, call>>
  BY <1>5, <1>6
<1> QED  BY <1>4, <1>5, <1>6, <1>8, <1>9, WriteStep

\* FOR UPDATE: nobody else holds the incident.
LEMMA LockKeeps ==
    ASSUME IInv, NEW w \in Writers, LockIncident(w)
    PROVE  IInv'
<1>1. PICK i, v : i = tx[w].incident /\ v = version[i] + 1
  OBVIOUS
<1>2. /\ tx[w].phase = "begun" /\ tx[w].kind \in Changing /\ LockIsFree(i)
      /\ tx' = [tx EXCEPT ![w].phase = "locked", ![w].version = v]
      /\ UNCHANGED <<clock, nextId, version, entries, call>>
  BY <1>1 DEF LockIncident
<1>3. tx[w] \in Transactions /\ i \in Incidents /\ version[i] \in Nat /\ tx[w].kind \in Kinds
  BY <1>1, <1>2, WriterFacts
<1>4. PICK t : t = [tx[w] EXCEPT !.phase = "locked", !.version = v]
  OBVIOUS
<1>5. /\ t \in Transactions
      /\ t.phase = "locked" /\ t.version = v
      /\ t.kind = tx[w].kind /\ t.incident = i /\ t.id = tx[w].id
  <2>1. v \in Nat
    BY <1>1, <1>3
  <2> QED  BY <1>1, <1>3, <1>4, <2>1 DEF Transactions
<1>6. tx' = [tx EXCEPT ![w] = t]
  BY <1>2, <1>4
<1>7. nextId \in 1 .. MaxEntries + 1 /\ nextId \in Nat
  BY WriterFacts DEF IInv, Types
<1>8. \A o \in Writers : Holds(o) => tx[o].incident # i
  BY <1>2 DEF LockIsFree, HoldsUpdate, Holds
<1>9. tx[w].id < nextId
  BY DEF IInv, DataInv, IdInv
<1>10. "schedule" \notin Changing
  BY DEF Changing
<1>11. Fits(w, t, nextId)
  BY <1>1, <1>2, <1>3, <1>5, <1>8, <1>9, <1>10 DEF Fits
<1>12. nextId' = nextId /\ nextId <= nextId /\ UNCHANGED <<clock, version, entries, call>>
  BY <1>2, <1>7
<1> QED  BY <1>5, <1>6, <1>7, <1>11, <1>12, WriteStep

\* INSERT draws an id that is greater than all others.
LEMMA InsertKeeps ==
    ASSUME IInv, NEW w \in Writers, InsertEntry(w)
    PROVE  IInv'
<1>1. PICK phase : phase = IF tx[w].phase = "locked" THEN "inserted" ELSE "waiting"
  OBVIOUS
<1>2. PICK t : t = [tx[w] EXCEPT !.phase = phase, !.id = nextId]
  OBVIOUS
<1>3. /\ tx[w].phase = IF tx[w].kind \in Changing THEN "locked" ELSE "begun"
      /\ nextId \in Ids
      /\ nextId' = nextId + 1
      /\ tx' = [tx EXCEPT ![w] = t]
      /\ UNCHANGED <<clock, version, entries, call>>
  BY <1>1, <1>2 DEF InsertEntry
<1>4. /\ tx[w] \in Transactions /\ tx[w].incident \in Incidents /\ tx[w].kind \in Kinds
      /\ nextId \in Nat /\ nextId >= 1 /\ MaxEntries \in Nat
  BY <1>3, WriterFacts
<1>5. nextId \in 0 .. MaxEntries /\ nextId + 1 \in 1 .. MaxEntries + 1
  BY <1>3, <1>4 DEF Ids
<1>6. phase \in {"inserted", "waiting"}
  BY <1>1
<1>7. /\ t \in Transactions
      /\ t.phase = phase /\ t.version = tx[w].version
      /\ t.kind = tx[w].kind /\ t.incident = tx[w].incident /\ t.id = nextId
  BY <1>2, <1>4, <1>5, <1>6 DEF Transactions
<1>8. (\A e \in entries : e.id < nextId /\ e.id \in Nat) /\ (\A o \in Writers : tx[o].id < nextId /\ tx[o].id \in Nat)
  BY WriterFacts, EntryFacts DEF IInv, Types, DataInv, IdInv
<1>9. tx[w].kind \in Changing <=> phase = "inserted"
  BY <1>1, <1>3
<1>10. phase = "inserted" => Holds(w)
  BY <1>1, <1>3, <1>9 DEF Holds
<1>11. phase = "waiting" => tx[w].kind = "schedule"
  BY <1>4, <1>9 DEF Kinds, Changing
<1>12. Fits(w, t, nextId + 1)
  <2>1. t.id < nextId + 1 /\ t.id # 0
    BY <1>4, <1>7
  <2>2. (\A e \in entries : e.id # t.id) /\ (\A o \in Writers : tx[o].id # t.id)
    BY <1>4, <1>7, <1>8
  <2>3. t.kind = "schedule" => t.version = 0
    BY <1>7 DEF IInv, DataInv, WriterInv
  <2>4. phase = "inserted" =>
           /\ t.version = version[t.incident] + 1
           /\ \A o \in Writers : o # w /\ Holds(o) => tx[o].incident # t.incident
    BY <1>7, <1>10 DEF IInv, DataInv, WriterInv, LockInv
  <2>5. \A e \in entries : e.id < t.id
    BY <1>7, <1>8
  <2>6. phase # "locked" /\ (phase \in {"locked", "inserted"} => phase = "inserted")
    BY <1>6
  <2> QED  BY <1>4, <1>7, <1>11, <2>1, <2>2, <2>3, <2>4, <2>5, <2>6 DEF Fits
<1>13. nextId <= nextId + 1
  BY <1>4
<1> QED  BY <1>3, <1>5, <1>7, <1>12, <1>13, WriteStep

\* The scheduler's transaction gets past the foreign key.
LEMMA ForeignKeyKeeps ==
    ASSUME IInv, NEW w \in Writers, CheckForeignKey(w)
    PROVE  IInv'
<1>1. PICK t : t = [tx[w] EXCEPT !.phase = "inserted"]
  OBVIOUS
<1>2. /\ tx[w].phase = "waiting"
      /\ tx' = [tx EXCEPT ![w] = t]
      /\ UNCHANGED <<clock, nextId, version, entries, call>>
  BY <1>1 DEF CheckForeignKey
<1>3. /\ tx[w] \in Transactions /\ tx[w].incident \in Incidents /\ tx[w].kind \in Kinds
      /\ nextId \in Nat /\ nextId \in 1 .. MaxEntries + 1
  BY <1>2, WriterFacts DEF IInv, Types
<1>4. /\ t \in Transactions
      /\ t.phase = "inserted" /\ t.version = tx[w].version
      /\ t.kind = tx[w].kind /\ t.incident = tx[w].incident /\ t.id = tx[w].id
  BY <1>1, <1>3 DEF Transactions
<1>5. tx[w].kind = "schedule" /\ tx[w].version = 0 /\ tx[w].kind \notin Changing
  BY <1>2 DEF IInv, DataInv, WriterInv, Changing
<1>6. /\ tx[w].id < nextId /\ tx[w].id # 0
      /\ \A e \in entries : e.id # tx[w].id
      /\ \A o \in Writers : o # w /\ Numbered(o) => tx[o].id # tx[w].id
  BY <1>2 DEF IInv, DataInv, IdInv, Numbered
<1>7. Fits(w, t, nextId)
  BY <1>3, <1>4, <1>5, <1>6 DEF Fits
<1>8. nextId' = nextId /\ nextId <= nextId /\ UNCHANGED <<clock, version, entries, call>>
  BY <1>2, <1>3
<1> QED  BY <1>2, <1>3, <1>4, <1>7, <1>8, WriteStep

\* A transaction that ends without a commit leaves a gap in the ids.
LEMMA RollbackKeeps ==
    ASSUME IInv, NEW w \in Writers, Rollback(w)
    PROVE  IInv'
<1>1. NoTx \in Transactions
  BY TimelineConstants DEF NoTx, Transactions, Times
<1>2. tx' = [tx EXCEPT ![w] = NoTx] /\ UNCHANGED <<clock, nextId, version, entries, call>>
  BY DEF Rollback
<1>3. nextId \in 1 .. MaxEntries + 1 /\ nextId \in Nat /\ 0 < nextId
  BY WriterFacts DEF IInv, Types
<1>4. NoTx.phase = "idle" /\ NoTx.kind = "none" /\ NoTx.id = 0
  BY DEF NoTx
<1>5. "none" \notin Changing
  BY DEF Changing
<1>6. Fits(w, NoTx, nextId)
  BY <1>3, <1>4, <1>5 DEF Fits
<1>7. nextId' = nextId /\ nextId <= nextId /\ UNCHANGED <<clock, version, entries, call>>
  BY <1>2, <1>3
<1> QED  BY <1>1, <1>2, <1>3, <1>6, <1>7, WriteStep

\* What a commit adds: an entry with an id of its own; that of a change has the
\* version that follows, the other has none.
LEMMA CommitEffect ==
    ASSUME IInv, NEW w \in Writers, Commit(w), NEW e, e = EntryOf(w)
    PROVE  /\ tx[w].phase = "inserted"
           /\ e \in Entries
           /\ e.id = tx[w].id /\ e.incident = tx[w].incident /\ e.version = tx[w].version
           /\ entries' = entries \cup {e}
           /\ version' \in [Incidents -> Nat]
           /\ \A j \in Incidents : version[j] \in Nat /\ version'[j] >= version[j]
           /\ \A j \in Incidents : j # e.incident => version'[j] = version[j]
           /\ \/ /\ Holds(w)
                 /\ e.version = version[e.incident] + 1
                 /\ version'[e.incident] = e.version
              \/ /\ ~Holds(w)
                 /\ e.version = 0
                 /\ version' = version
           /\ tx' = [tx EXCEPT ![w] = NoTx]
           /\ UNCHANGED <<clock, nextId, call>>
<1>1. /\ tx[w].phase = "inserted"
      /\ entries' = entries \cup {e}
      /\ version' = IF tx[w].kind \in Changing
                    THEN [version EXCEPT ![tx[w].incident] = tx[w].version] ELSE version
      /\ tx' = [tx EXCEPT ![w] = NoTx]
      /\ UNCHANGED <<clock, nextId, call>>
  BY DEF Commit
<1>2. e.id = tx[w].id /\ e.incident = tx[w].incident /\ e.version = tx[w].version /\ e.at = tx[w].at
  BY DEF EntryOf
<1>3. /\ tx[w].id \in Ids /\ tx[w].incident \in Incidents /\ tx[w].version \in Nat
      /\ tx[w].at \in Times /\ tx[w].kind \in Kinds /\ version[tx[w].incident] \in Nat
  <2>1. tx[w].id # 0
    BY <1>1 DEF IInv, DataInv, IdInv, Numbered
  <2> QED  BY <1>1, <2>1, WriterFacts DEF Ids
<1>4. e \in Entries
  BY <1>3 DEF EntryOf, Entries
<1>5. version \in [Incidents -> Nat]
  BY DEF IInv, Types
<1>6. CASE tx[w].kind \in Changing
  <2>1. Holds(w)
    BY <1>1, <1>6 DEF Holds
  <2>2. tx[w].version = version[tx[w].incident] + 1
    BY <2>1 DEF IInv, DataInv, WriterInv
  <2>3. version' = [version EXCEPT ![tx[w].incident] = tx[w].version]
    BY <1>1, <1>6
  <2>4. /\ version' \in [Incidents -> Nat] /\ version'[tx[w].incident] = tx[w].version
        /\ \A j \in Incidents : j # tx[w].incident => version'[j] = version[j]
    BY <1>3, <1>5, <2>3
  <2>5. \A j \in Incidents : version[j] \in Nat /\ version'[j] >= version[j]
    BY <1>5, <2>2, <2>4
  <2> QED  BY <1>1, <1>2, <1>4, <2>1, <2>2, <2>4, <2>5
<1>7. CASE tx[w].kind \notin Changing
  <2>1. ~Holds(w) /\ version' = version
    BY <1>1, <1>7 DEF Holds
  <2>2. tx[w].version = 0
    BY <1>3, <1>7 DEF Kinds, Changing, IInv, DataInv, WriterInv
  <2>3. \A j \in Incidents : version[j] \in Nat /\ version'[j] >= version[j]
    BY <1>5, <2>1
  <2> QED  BY <1>1, <1>2, <1>4, <1>5, <2>1, <2>2, <2>3
<1> QED  BY <1>6, <1>7

\* A commit keeps what the calls have seen: the entry is newer than all of it.
LEMMA CommitKeepsCalls ==
    ASSUME IInv, NEW w \in Writers, Commit(w)
    PROVE  CallInv'
<1>1. PICK e : e = EntryOf(w)
  OBVIOUS
<1>2. /\ e \in Entries
      /\ entries' = entries \cup {e}
      /\ \A j \in Incidents : version[j] \in Nat /\ version'[j] >= version[j]
      /\ version' \in [Incidents -> Nat]
      /\ e.version = 0 \/ e.version = version[e.incident] + 1
      /\ call' = call
  BY <1>1, CommitEffect
<1> SUFFICES ASSUME NEW c \in Callers
             PROVE  (Seen(call[c]) /\ Paged(call[c]) /\ Backed(call[c]))'
  BY DEF CallInv
<1>3. PICK k : k = call[c]
  OBVIOUS
<1>4. k \in Calls /\ Seen(k) /\ Paged(k) /\ Backed(k) /\ call'[c] = k
  BY <1>2, <1>3 DEF IInv, Types, CallInv
<1>5. k.version \in Nat
  BY <1>4 DEF Calls
<1>6. Seen(k)'
  <2>1. Found(k) => k.incident \in Incidents
    BY <1>4 DEF Seen, Found
  <2>2. Found(k) => k.version \in 1 .. version'[k.incident]
    BY <1>2, <1>4, <1>5, <2>1 DEF Seen
  <2> QED  BY <1>4, <2>2 DEF Seen, Found
<1>7. HasTimeline(k) => ~(e.incident = k.incident /\ e.version \in 1 .. k.version)
  <2>1. CASE k.tool # "summarize_incident"
    BY <1>2, <1>4, <2>1, EntryFacts DEF Seen
  <2>2. CASE k.tool = "summarize_incident"
    <3>1. HasTimeline(k) => k.incident \in Incidents /\ k.version <= version[k.incident]
      BY <1>2, <1>4, <1>5, <2>2 DEF Seen, Found, HasTimeline
    <3> QED  BY <1>2, <1>5, <3>1, EntryFacts
  <2> QED  BY <2>1, <2>2
<1>8. Paged(k)'
  BY <1>2, <1>4, <1>7 DEF Paged, Found, HasTimeline
<1>9. Backed(k)'
  BY <1>4 DEF Backed, Found, IdsOf
<1> QED  BY <1>4, <1>6, <1>8, <1>9 DEF Seen, Paged, Backed, Found, HasTimeline, IdsOf

\* A commit keeps the trail in order.
LEMMA CommitKeeps ==
    ASSUME IInv, NEW w \in Writers, Commit(w)
    PROVE  IInv'
<1>1. PICK e : e = EntryOf(w)
  OBVIOUS
<1>2. /\ tx[w].phase = "inserted"
      /\ e \in Entries
      /\ e.id = tx[w].id /\ e.incident = tx[w].incident /\ e.version = tx[w].version
      /\ entries' = entries \cup {e}
      /\ version' \in [Incidents -> Nat]
      /\ \A j \in Incidents : version[j] \in Nat /\ version'[j] >= version[j]
      /\ \A j \in Incidents : j # e.incident => version'[j] = version[j]
      /\ \/ /\ Holds(w)
            /\ e.version = version[e.incident] + 1
            /\ version'[e.incident] = e.version
         \/ /\ ~Holds(w)
            /\ e.version = 0
            /\ version' = version
      /\ tx' = [tx EXCEPT ![w] = NoTx]
      /\ UNCHANGED <<clock, nextId, call>>
  BY <1>1, CommitEffect
<1>3. NoTx \in Transactions /\ NoTx.phase = "idle" /\ NoTx.id = 0 /\ NoTx.kind = "none"
  BY TimelineConstants DEF NoTx, Transactions, Times
<1>4. /\ tx' \in [Writers -> Transactions] /\ tx'[w] = NoTx
      /\ \A o \in Writers : o # w => tx'[o] = tx[o]
  BY <1>2, <1>3 DEF IInv, Types
<1>5. Types'
  BY <1>2, <1>4 DEF IInv, Types
<1>6. /\ e.incident \in Incidents /\ e.id \in Nat /\ e.version \in Nat
      /\ \A f \in entries : /\ f.incident \in Incidents /\ f.id \in Nat /\ f.version \in Nat
                            /\ f.id # e.id
                            /\ f.version <= version[f.incident]
  <2>1. \A f \in entries : f \in Entries /\ f.id # e.id /\ f.version <= version[f.incident]
    BY <1>2 DEF IInv, Types, DataInv, IdInv, Numbered, TrailInv
  <2> QED  BY <1>2, <2>1, EntryFacts
<1>7. IdInv'
  <2>1. Distinct(entries)'
    BY <1>2, <1>6 DEF IInv, DataInv, IdInv, Distinct
  <2>2. \A f \in entries' : f.id < nextId
    BY <1>2 DEF IInv, DataInv, IdInv
  <2>3. \A o \in Writers : tx'[o].id < nextId
    <3>1. 0 < nextId
      BY WriterFacts
    <3> QED  BY <1>3, <1>4, <3>1 DEF IInv, DataInv, IdInv
  <2>4. \A o \in Writers : Numbered(o)' => o # w /\ Numbered(o) /\ tx'[o] = tx[o]
    BY <1>3, <1>4 DEF Numbered
  <2>5. \A o \in Writers : Numbered(o)' => tx'[o].id # 0 /\ \A f \in entries' : f.id # tx'[o].id
    BY <1>2, <2>4 DEF IInv, DataInv, IdInv, Numbered
  <2>6. \A o, q \in Writers : o # q /\ Numbered(o)' /\ Numbered(q)' => tx'[o].id # tx'[q].id
    BY <2>4 DEF IInv, DataInv, IdInv
  <2> QED  BY <1>2, <2>1, <2>2, <2>3, <2>5, <2>6 DEF IdInv
<1>8. \A o \in Writers : Holds(o)' => o # w /\ Holds(o) /\ tx'[o] = tx[o]
  BY <1>3, <1>4 DEF Holds, Changing
<1>9. WriterInv'
  <2> SUFFICES ASSUME NEW o \in Writers
               PROVE  /\ tx'[o].phase # "idle" => tx'[o].kind \in Kinds /\ tx'[o].incident \in Incidents
                      /\ tx'[o].phase = "locked" => tx'[o].kind \in Changing
                      /\ tx'[o].phase = "waiting" => tx'[o].kind = "schedule"
                      /\ tx'[o].kind = "schedule" => tx'[o].version = 0
                      /\ Holds(o)' => tx'[o].version = version'[tx'[o].incident] + 1
                      /\ Holds(o)' /\ tx'[o].phase = "inserted" =>
                            \A f \in entries' :
                                f.incident = tx'[o].incident /\ f.version > 0 => f.id < tx'[o].id
    BY DEF WriterInv
  <2>1. CASE o = w
    BY <1>3, <1>4, <1>8, <2>1
  <2>2. CASE o # w
    <3>1. tx'[o] = tx[o] /\ (Holds(o)' <=> Holds(o))
      BY <1>4, <2>2 DEF Holds
    <3>2. Holds(o) => /\ tx[o].incident \in Incidents
                      /\ version'[tx[o].incident] = version[tx[o].incident]
                      /\ ~(e.incident = tx[o].incident /\ e.version > 0)
      <4>1. Holds(o) => tx[o].incident \in Incidents
        BY DEF Holds, IInv, DataInv, WriterInv
      <4>2. Holds(o) /\ Holds(w) => tx[o].incident # e.incident
        BY <1>2, <2>2 DEF IInv, DataInv, LockInv
      <4> QED  BY <1>2, <4>1, <4>2
    <3> QED  BY <1>2, <3>1, <3>2 DEF IInv, DataInv, WriterInv
  <2> QED  BY <2>1, <2>2
<1>10. LockInv'
  BY <1>8 DEF IInv, DataInv, LockInv
<1>11. TrailInv'
  <2>1. \A f \in entries' : f.version <= version'[f.incident]
    <3>1. \A f \in entries : f.version <= version'[f.incident]
      BY <1>2, <1>6
    <3>2. e.version <= version'[e.incident]
      BY <1>2, <1>6
    <3> QED  BY <1>2, <3>1, <3>2
  <2>2. \A f \in entries : f.incident = e.incident /\ f.version > 0 /\ e.version > 0 =>
           f.id < e.id /\ f.version < e.version
    <3>1. Holds(w) => \A f \in entries : f.incident = e.incident /\ f.version > 0 => f.id < e.id
      BY <1>2 DEF IInv, DataInv, WriterInv
    <3> QED  BY <1>2, <1>6, <3>1
  <2>3. \A f, g \in entries' :
           f.incident = g.incident /\ f.version > 0 /\ g.version > 0 =>
               (f.id < g.id <=> f.version < g.version)
    <3>1. \A f, g \in entries :
             f.incident = g.incident /\ f.version > 0 /\ g.version > 0 =>
                 (f.id < g.id <=> f.version < g.version)
      BY DEF IInv, DataInv, TrailInv
    <3> QED  BY <1>2, <1>6, <2>2, <3>1
  <2>4. ASSUME NEW j \in Incidents, NEW v \in 1 .. version'[j]
        PROVE  \E f \in entries' : f.incident = j /\ f.version = v
    <3>1. v \in Nat /\ version'[j] \in Nat /\ version[j] \in Nat
      BY <1>2
    <3>2. CASE v <= version[j]
      <4>1. v \in 1 .. version[j]
        BY <3>1, <3>2
      <4> QED  BY <1>2, <4>1 DEF IInv, DataInv, TrailInv
    <3>3. CASE ~(v <= version[j])
      <4>1. j = e.incident /\ v = e.version
        BY <1>2, <1>6, <3>1, <3>3
      <4> QED  BY <1>2, <4>1
    <3> QED  BY <3>2, <3>3
  <2> QED  BY <2>1, <2>3, <2>4 DEF TrailInv
<1> QED  BY <1>5, <1>7, <1>9, <1>10, <1>11, CommitKeepsCalls DEF IInv, DataInv

-----------------------------------------------------------------------------
(***************************************************************************)
(* The steps of the readers.                                               *)
(***************************************************************************)

\* A step of one call: what has to be shown is what the call has then seen.
LEMMA CallStep ==
    ASSUME IInv, NEW c \in Callers, NEW k \in Calls, call' = [call EXCEPT ![c] = k],
           Seen(k), Paged(k), Backed(k), UNCHANGED <<clock, nextId, version, entries, tx>>
    PROVE  IInv'
<1>1. /\ call' \in [Callers -> Calls] /\ call'[c] = k
      /\ \A d \in Callers : d # c => call'[d] = call[d]
  BY DEF IInv, Types
<1>2. Types'
  BY <1>1 DEF IInv, Types
<1>3. IdInv' /\ WriterInv' /\ LockInv' /\ TrailInv'
  BY DEF IInv, DataInv, IdInv, WriterInv, LockInv, TrailInv, Distinct, Numbered, Holds
<1>4. ASSUME NEW d \in Callers PROVE (Seen(call[d]) /\ Paged(call[d]) /\ Backed(call[d]))'
  <2>1. PICK l : l = call'[d]
    OBVIOUS
  <2>2. Seen(l) /\ Paged(l) /\ Backed(l)
    <3>1. CASE d = c
      BY <1>1, <2>1, <3>1
    <3>2. CASE d # c
      BY <1>1, <2>1, <3>2 DEF IInv, CallInv
    <3> QED  BY <3>1, <3>2
  <2>3. Seen(call[d])'
    BY <2>1, <2>2 DEF Seen, Found
  <2>4. Paged(call[d])'
    BY <2>1, <2>2 DEF Paged, Found, HasTimeline
  <2>5. Backed(call[d])'
    BY <2>1, <2>2 DEF Backed, Found, IdsOf
  <2> QED  BY <2>3, <2>4, <2>5
<1>5. CallInv'
  BY <1>4 DEF CallInv
<1> QED  BY <1>2, <1>3, <1>5 DEF IInv, DataInv

\* What is known of a call.
LEMMA CallFacts ==
    ASSUME IInv, NEW c \in Callers
    PROVE  call[c] \in Calls /\ Seen(call[c]) /\ Paged(call[c]) /\ Backed(call[c])
BY DEF IInv, Types, CallInv

\* A call that has no timeline yet has none of its obligations.
LEMMA NoTimeline ==
    ASSUME NEW k, k.timeline \subseteq entries, Cardinality(k.timeline) <= Limit,
           k.phase \notin {"summary", "answered"}
    PROVE  Paged(k) /\ Backed(k)
BY DEF Paged, Backed, HasTimeline

\* A request arrives.
LEMMA AskKeeps ==
    ASSUME IInv, NEW c \in Callers, NEW tool \in Tools, NEW tenant \in Tenants,
           NEW i \in Incidents, Ask(c, tool, tenant, i)
    PROVE  IInv'
<1>1. PICK phase : phase = IF tool = "summarize_incident" THEN "incident" ELSE "timeline"
  OBVIOUS
<1>2. PICK k : k = [NoCall EXCEPT !.tool = tool, !.tenant = tenant, !.incident = i, !.phase = phase]
  OBVIOUS
<1>3. k = [phase |-> phase, tool |-> tool, tenant |-> tenant, incident |-> i,
           version |-> 0, timeline |-> {}, evidence |-> {}]
  BY <1>2 DEF NoCall
<1>4. k \in Calls
  BY <1>1, <1>3 DEF Calls
<1>5. k.phase = phase /\ k.tool = tool /\ k.tenant = tenant /\ k.incident = i /\ k.version = 0
      /\ k.timeline = {}
  BY <1>3
<1>6. call' = [call EXCEPT ![c] = k] /\ UNCHANGED <<clock, nextId, version, entries, tx>>
  BY <1>1, <1>2 DEF Ask
<1>7. /\ ~Found(k) /\ phase \notin {"idle", "summary", "answered"}
      /\ phase = "incident" => tool = "summarize_incident"
  BY <1>1, <1>5 DEF Found
<1>8. Seen(k)
  BY <1>5, <1>7 DEF Seen
<1>9. Cardinality(k.timeline) <= Limit
  <2>1. 0 <= Limit
    BY TimelineConstants
  <2> QED  BY <1>5, <2>1, FS_EmptySet
<1>10. Paged(k) /\ Backed(k)
  BY <1>5, <1>7, <1>9, NoTimeline
<1> QED  BY <1>4, <1>6, <1>8, <1>10, CallStep

\* A call ends with an error.
LEMMA EndKeeps ==
    ASSUME IInv, NEW c \in Callers, call' = [call EXCEPT ![c].phase = "failed"],
           call[c].phase # "idle", UNCHANGED <<clock, nextId, version, entries, tx>>
    PROVE  IInv'
<1>1. PICK k : k = [call[c] EXCEPT !.phase = "failed"]
  OBVIOUS
<1>2. call[c] \in Calls /\ Seen(call[c]) /\ Paged(call[c])
  BY CallFacts
<1>3. /\ k \in Calls
      /\ k.phase = "failed" /\ k.tool = call[c].tool /\ k.tenant = call[c].tenant
      /\ k.incident = call[c].incident /\ k.version = call[c].version
      /\ k.timeline = call[c].timeline
  BY <1>1, <1>2 DEF Calls
<1>4. call' = [call EXCEPT ![c] = k]
  BY <1>1
<1>5. Seen(k)
  BY <1>2, <1>3 DEF Seen, Found
<1>6. Paged(k) /\ Backed(k)
  <2>1. k.timeline \subseteq entries /\ Cardinality(k.timeline) <= Limit
    BY <1>2, <1>3 DEF Paged
  <2> QED  BY <1>3, <2>1, NoTimeline
<1> QED  BY <1>3, <1>4, <1>5, <1>6, CallStep

\* GetIncident: the version seen is one the incident has.
LEMMA ReadIncidentKeeps ==
    ASSUME IInv, NEW c \in Callers, ReadIncident(c)
    PROVE  IInv'
<1>1. PICK i, v : i = call[c].incident /\ v = version[i]
  OBVIOUS
<1>2. /\ call[c].phase = "incident"
      /\ UNCHANGED <<clock, nextId, version, entries, tx>>
      /\ IF v > 0 /\ Owner[i] = call[c].tenant
         THEN call' = [call EXCEPT ![c].phase = "timeline", ![c].version = v]
         ELSE call' = [call EXCEPT ![c].phase = "failed"]
  BY <1>1 DEF ReadIncident, End
<1>3. call[c] \in Calls /\ Seen(call[c]) /\ Paged(call[c])
  BY CallFacts
<1>4. i \in Incidents /\ call[c].tenant \in Tenants /\ v \in Nat
  BY <1>1, <1>2, <1>3 DEF Seen, IInv, Types
<1>5. CASE ~(v > 0 /\ Owner[i] = call[c].tenant)
  <2>1. call' = [call EXCEPT ![c].phase = "failed"] /\ call[c].phase # "idle"
    BY <1>2, <1>5
  <2> QED  BY <1>2, <2>1, EndKeeps
<1>6. CASE v > 0 /\ Owner[i] = call[c].tenant
  <2>1. PICK k : k = [call[c] EXCEPT !.phase = "timeline", !.version = v]
    OBVIOUS
  <2>2. /\ k \in Calls
        /\ k.phase = "timeline" /\ k.tool = call[c].tool /\ k.tenant = call[c].tenant
        /\ k.incident = i /\ k.version = v /\ k.timeline = call[c].timeline
    BY <1>1, <1>3, <1>4, <2>1 DEF Calls
  <2>3. call' = [call EXCEPT ![c] = k]
    BY <1>2, <1>6, <2>1
  <2>4. v \in 1 .. version[i] /\ Owner[i] = k.tenant
    BY <1>1, <1>4, <1>6, <2>2
  <2>5. call[c].tool = "summarize_incident"
    BY <1>2, <1>3 DEF Seen
  <2>6. Seen(k)
    BY <1>4, <2>2, <2>4, <2>5 DEF Seen, Found
  <2>7. Paged(k) /\ Backed(k)
    <3>1. k.timeline \subseteq entries /\ Cardinality(k.timeline) <= Limit
      BY <1>3, <2>2 DEF Paged
    <3> QED  BY <2>2, <3>1, NoTimeline
  <2> QED  BY <1>2, <2>2, <2>3, <2>6, <2>7, CallStep
<1> QED  BY <1>5, <1>6

\* Timeline: a page of the incident's rows, which are never taken back.
LEMMA ReadTimelineKeeps ==
    ASSUME IInv, NEW c \in Callers, ReadTimeline(c)
    PROVE  IInv'
<1>1. PICK i, tenant, rows, page :
         /\ i = call[c].incident /\ tenant = call[c].tenant
         /\ rows = RowsOf(tenant, i) /\ page = Newest(rows, Limit)
  OBVIOUS
<1>2. PICK phase : phase = IF call[c].tool = "summarize_incident" THEN "summary" ELSE "answered"
  OBVIOUS
<1>3. PICK k : k = [call[c] EXCEPT !.timeline = page, !.phase = phase]
  OBVIOUS
<1>4. /\ call[c].phase = "timeline"
      /\ call' = [call EXCEPT ![c] = k]
      /\ UNCHANGED <<clock, nextId, version, entries, tx>>
  BY <1>1, <1>2, <1>3 DEF ReadTimeline, TimelineFor
<1>5. call[c] \in Calls /\ Seen(call[c])
  BY CallFacts
<1>6. /\ rows \in SUBSET Entries /\ rows \subseteq entries /\ Distinct(rows)
      /\ \A e \in rows : e.incident = i
  BY <1>1 DEF RowsOf, IInv, Types, DataInv, IdInv, Distinct
<1>7. Limit \in Nat \ {0}
  BY TimelineConstants
<1>8. page \subseteq rows /\ Cardinality(page) <= Limit
  BY <1>1, <1>6, <1>7, PageIsLimited DEF Newest
<1>9. /\ k \in Calls
      /\ k.phase = phase /\ k.tool = call[c].tool /\ k.tenant = tenant /\ k.incident = i
      /\ k.version = call[c].version /\ k.timeline = page
  <2>1. page \in SUBSET Entries /\ phase \in {"summary", "answered"}
    BY <1>2, <1>6, <1>8
  <2> QED  BY <1>1, <1>3, <1>5, <2>1 DEF Calls
<1>10. i \in Incidents /\ tenant \in Tenants
  BY <1>1, <1>4, <1>5 DEF Seen
<1>11. k.tool = "summarize_incident" => Owner[i] = tenant /\ k.version \in 1 .. version[i]
  BY <1>1, <1>4, <1>5, <1>9 DEF Seen, Found
<1>12. Seen(k)
  <2>1. k.tool # "summarize_incident" => k.version = 0
    BY <1>5, <1>9 DEF Seen
  <2>2. phase \in {"incident", "summary"} => k.tool = "summarize_incident"
    BY <1>2, <1>9
  <2> QED  BY <1>9, <1>10, <1>11, <2>1, <2>2 DEF Seen, Found
<1>13. Backed(k)
  BY <1>2, <1>9 DEF Backed, Found
<1>14. Found(k) => page # {}
  <2> SUFFICES ASSUME Found(k) PROVE page # {}
    OBVIOUS
  <2>1. Owner[i] = tenant /\ k.version \in 1 .. version[i]
    BY <1>11 DEF Found
  <2>2. PICK e \in entries : e.incident = i /\ e.version = k.version
    BY <1>10, <2>1 DEF IInv, DataInv, TrailInv
  <2>3. e \in rows
    BY <1>1, <2>1, <2>2 DEF RowsOf
  <2> QED  BY <1>1, <1>6, <1>7, <2>3, PageIsNotEmpty
<1>15. ASSUME NEW e \in entries, e.incident = i, e.version \in 1 .. k.version
       PROVE  \/ e \in page
              \/ Cardinality(page) = Limit /\ \A f \in page : e.id < f.id
  <2>1. k.tool = "summarize_incident"
    BY <1>9, <1>12, <1>15 DEF Seen
  <2>2. e \in rows
    BY <1>1, <1>11, <1>15, <2>1 DEF RowsOf
  <2> QED  BY <1>1, <1>6, <1>7, <2>2, PageIsFull
<1>16. Paged(k)
  BY <1>6, <1>8, <1>9, <1>14, <1>15 DEF Paged
<1> QED  BY <1>4, <1>9, <1>12, <1>13, <1>16, CallStep

\* An answer that cites some of the timeline.
LEMMA AnswerKeeps ==
    ASSUME IInv, NEW c \in Callers, call[c].phase = "summary", NEW cited \in SUBSET Ids,
           cited # {}, cited \subseteq IdsOf(call[c].timeline),
           call' = [call EXCEPT ![c].phase = "answered", ![c].evidence = cited],
           UNCHANGED <<clock, nextId, version, entries, tx>>
    PROVE  IInv'
<1>1. PICK k : k = [call[c] EXCEPT !.phase = "answered", !.evidence = cited]
  OBVIOUS
<1>2. call[c] \in Calls /\ Seen(call[c]) /\ Paged(call[c])
  BY CallFacts
<1>3. /\ k \in Calls
      /\ k.phase = "answered" /\ k.tool = call[c].tool /\ k.tenant = call[c].tenant
      /\ k.incident = call[c].incident /\ k.version = call[c].version
      /\ k.timeline = call[c].timeline /\ k.evidence = cited
  BY <1>1, <1>2 DEF Calls
<1>4. call' = [call EXCEPT ![c] = k]
  BY <1>1
<1>5. Seen(k)
  BY <1>2, <1>3 DEF Seen, Found
<1>6. Paged(k)
  BY <1>2, <1>3 DEF Paged, Found, HasTimeline
<1>7. Backed(k)
  BY <1>3 DEF Backed
<1> QED  BY <1>3, <1>4, <1>5, <1>6, <1>7, CallStep

\* What a call that is to be summarized has in hand.
LEMMA SummaryFacts ==
    ASSUME IInv, NEW c \in Callers, call[c].phase = "summary"
    PROVE  /\ call[c].timeline \in SUBSET Entries /\ call[c].timeline # {}
           /\ Distinct(call[c].timeline)
<1>1. call[c] \in Calls /\ Seen(call[c]) /\ Paged(call[c])
  BY CallFacts
<1>2. Found(call[c]) /\ HasTimeline(call[c])
  BY <1>1 DEF Seen, Found, HasTimeline
<1>3. call[c].timeline \subseteq entries /\ call[c].timeline # {}
  BY <1>1, <1>2 DEF Paged
<1> QED  BY <1>3 DEF IInv, Types, DataInv, IdInv, Distinct

\* The deterministic summarizer cites the newest rows of the page.
LEMMA DeterministicKeeps ==
    ASSUME IInv, NEW c \in Callers, SummarizeDeterministically(c)
    PROVE  IInv'
<1>1. PICK rows, cited :
         rows = call[c].timeline /\ cited = IdsOf(Newest(rows, EvidenceWindow))
  OBVIOUS
<1>2. /\ call[c].phase = "summary"
      /\ call' = [call EXCEPT ![c].phase = "answered", ![c].evidence = cited]
      /\ UNCHANGED <<clock, nextId, version, entries, tx>>
  BY <1>1 DEF SummarizeDeterministically
<1>3. rows \in SUBSET Entries /\ rows # {} /\ Distinct(rows)
  BY <1>1, <1>2, SummaryFacts
<1>4. Newest(rows, EvidenceWindow) # {} /\ Newest(rows, EvidenceWindow) \subseteq rows
  BY <1>3, PageIsNotEmpty, TimelineConstants DEF Newest
<1>5. cited # {} /\ cited \subseteq IdsOf(rows) /\ cited \in SUBSET Ids
  BY <1>1, <1>3, <1>4, EntryFacts DEF IdsOf
<1> QED  BY <1>1, <1>2, <1>5, AnswerKeeps

\* The model's summary is taken only if its references are in the timeline.
LEMMA ModelKeeps ==
    ASSUME IInv, NEW c \in Callers, NEW cited \in SUBSET Ids, SummarizeByModel(c, cited)
    PROVE  IInv'
<1>1. /\ call[c].phase = "summary"
      /\ UNCHANGED <<clock, nextId, version, entries, tx>>
  BY DEF SummarizeByModel
<1>2. CASE Acceptable(cited, call[c].timeline)
  <2>1. call' = [call EXCEPT ![c].phase = "answered", ![c].evidence = cited]
    BY <1>2 DEF SummarizeByModel
  <2>2. cited # {} /\ cited \subseteq IdsOf(call[c].timeline)
    BY <1>1, <1>2, SummaryFacts DEF Acceptable
  <2> QED  BY <1>1, <2>1, <2>2, AnswerKeeps
<1>3. CASE ~Acceptable(cited, call[c].timeline)
  <2>1. call' = [call EXCEPT ![c].phase = "failed"] /\ call[c].phase # "idle"
    BY <1>1, <1>3 DEF SummarizeByModel
  <2> QED  BY <1>1, <2>1, EndKeeps
<1> QED  BY <1>2, <1>3

\* A call fails.
LEMMA FailKeeps ==
    ASSUME IInv, NEW c \in Callers, FailCall(c)
    PROVE  IInv'
<1>1. /\ call' = [call EXCEPT ![c].phase = "failed"] /\ call[c].phase # "idle"
      /\ UNCHANGED <<clock, nextId, version, entries, tx>>
  BY DEF FailCall, End
<1> QED  BY <1>1, EndKeeps

\* Every step keeps the invariant.
LEMMA StepKeeps == IInv /\ [Next]_vars => IInv'
<1> SUFFICES ASSUME IInv, [Next]_vars PROVE IInv'
  OBVIOUS
<1>1. CASE UNCHANGED vars
  <2>1. UNCHANGED <<clock, nextId, version, entries, tx, call>>
    BY <1>1 DEF vars
  <2>2. Types' /\ IdInv' /\ WriterInv' /\ LockInv' /\ TrailInv'
    BY <2>1 DEF IInv, Types, DataInv, IdInv, WriterInv, LockInv, TrailInv, Distinct, Numbered, Holds
  <2>3. CallInv'
    BY <2>1 DEF IInv, CallInv, Seen, Paged, Backed, Found, HasTimeline, IdsOf
  <2> QED  BY <2>2, <2>3 DEF IInv, DataInv
<1>2. ASSUME NEW w \in Writers, Write(w) PROVE IInv'
  BY <1>2, BeginKeeps, LockKeeps, InsertKeeps, ForeignKeyKeeps, CommitKeeps, RollbackKeeps DEF Write
<1>3. ASSUME NEW c \in Callers, Read(c) PROVE IInv'
  BY <1>3, AskKeeps, ReadIncidentKeeps, ReadTimelineKeeps, DeterministicKeeps, ModelKeeps, FailKeeps
     DEF Read
<1> QED  BY <1>1, <1>2, <1>3, TickKeeps DEF Next

-----------------------------------------------------------------------------
(***************************************************************************)
(* The theorems.                                                           *)
(***************************************************************************)

\* The inductive invariant holds whatever writers and readers do.
THEOREM Invariance == Spec => []IInv
BY InitKeeps, StepKeeps, PTL DEF Spec

\* The trail of CorrelateAlert and TransitionIncident has one entry per version of
\* the incident, and its ids are in the order of the versions.
THEOREM OrderedTrail == Spec => []ChangesAreInOrder
<1>1. IInv => TypeOK
  <2> SUFFICES ASSUME IInv PROVE TypeOK
    OBVIOUS
  <2>1. entries \in SUBSET Entries /\ Distinct(entries)
    BY DEF IInv, Types, DataInv, IdInv
  <2>2. Cardinality(IdsOf(entries)) = Cardinality(entries)
    BY <2>1, Countable
  <2>3. ASSUME NEW w \in Writers
        PROVE  /\ tx[w].phase \in {"idle", "begun", "locked", "waiting", "inserted"}
               /\ tx[w].id \in 0 .. nextId - 1
    <3>1. tx[w].id < nextId
      BY DEF IInv, DataInv, IdInv
    <3> QED  BY <3>1, WriterFacts
  <2>4. ASSUME NEW c \in Callers
        PROVE  /\ call[c].phase \in {"idle", "incident", "timeline", "summary", "answered", "failed"}
               /\ call[c].timeline \subseteq Entries
               /\ Cardinality(call[c].timeline) <= Limit
    BY CallFacts DEF Calls, Paged
  <2> QED  BY <2>2, <2>3, <2>4 DEF TypeOK, IInv, Types
<1>2. IInv => ChangesAreInOrder
  BY <1>1 DEF ChangesAreInOrder, IInv, DataInv, TrailInv
<1> QED  BY <1>2, Invariance, PTL

\* A summary cites at least one event of the incident, and nothing else, whatever
\* the model behind ResponsesSummarizer answers.
THEOREM BackedSummary == Spec => []SummaryIsBacked
<1>1. IInv => SummaryIsBacked
  <2> SUFFICES ASSUME IInv, NEW c \in Callers,
                      call[c].tool = "summarize_incident", call[c].phase = "answered"
               PROVE  /\ Owner[call[c].incident] = call[c].tenant
                      /\ call[c].evidence # {}
                      /\ \A id \in call[c].evidence :
                            \E e \in entries : e.id = id /\ e.incident = call[c].incident
    BY DEF SummaryIsBacked
  <2>1. Seen(call[c]) /\ Paged(call[c]) /\ Backed(call[c])
    BY CallFacts
  <2>2. Found(call[c]) /\ HasTimeline(call[c])
    BY DEF Found, HasTimeline
  <2>3. Owner[call[c].incident] = call[c].tenant
    BY <2>1, <2>2 DEF Seen
  <2>4. call[c].evidence # {} /\ call[c].evidence \subseteq IdsOf(call[c].timeline)
    BY <2>1, <2>2 DEF Backed
  <2>5. call[c].timeline \subseteq entries /\ \A e \in call[c].timeline : e.incident = call[c].incident
    BY <2>1, <2>2 DEF Paged
  <2> QED  BY <2>3, <2>4, <2>5 DEF IdsOf
<1> QED  BY <1>1, Invariance, PTL

\* The timeline that summarize_incident reads after the incident covers what the
\* incident had become, up to the page's limit.
THEOREM CoveringHistory == Spec => []HistoryCoversState
<1>1. IInv => HistoryCoversState
  BY CallFacts DEF HistoryCoversState, Paged, HasTimeline
<1> QED  BY <1>1, Invariance, PTL
=============================================================================
