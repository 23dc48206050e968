--------------------------- MODULE MigrateProofs ----------------------------
(***************************************************************************)
(* Proofs about Migrate, for any number of versions and processes and any  *)
(* contents of their files.                                                *)
(*                                                                         *)
(* The argument: the rows of schema_migrations are always those of a first *)
(* part of the versions, the same as the bodies applied.  A process that   *)
(* is at a version has seen all before it there, with its own content or   *)
(* with none recorded, and since bodies are only added this stays so.      *)
(* Hence a transaction that is about to commit is about the next version,  *)
(* and the primary key lets one process only come so far.                  *)
(***************************************************************************)
EXTENDS Migrate, SequenceTheorems, TLAPS

(***************************************************************************)
(* The inductive invariant.                                                *)
(***************************************************************************)

Runs == [phase : Phases, at : Nat]

\* TypeOK, and that files and run are functions.
Types ==
    /\ TypeOK
    /\ files \in [Processes -> Seq(Checksums)]
    /\ run \in [Processes -> Runs]

\* The bodies are those of the first versions, in order, and these have rows.
LedgerInv ==
    /\ Len(applied) <= Last
    /\ \A n \in 1 .. Len(applied) : applied[n].version = n
    /\ \A v \in Versions :
          /\ stored[v] # Missing <=> v <= Len(applied)
          /\ v <= Len(applied) /\ applied[v].content # Null => stored[v] = applied[v].content

\* A process has the versions before its own, with its content or with none.
Passed(p) ==
    \A v \in 1 .. run[p].at - 1 :
        /\ v <= Len(applied)
        /\ applied[v].content \in {files[p][v], Null}

\* A process that adopts its checksum is at a version without one in its body;
\* one that is about to commit has the primary key of a version without row.
Doing(p) ==
    /\ run[p].phase = "adopt" =>
          run[p].at <= Len(applied) /\ applied[run[p].at].content = Null
    /\ run[p].phase = "commit" => run[p].at > Len(applied)
    /\ run[p].phase = "done" => run[p].at > Len(files[p])

OneCommits ==
    \A p, q \in Processes : run[p].phase = "commit" /\ run[q].phase = "commit" => p = q

IInv ==
    /\ Types
    /\ LedgerInv
    /\ \A p \in Processes : Passed(p) /\ Doing(p)
    /\ OneCommits

-----------------------------------------------------------------------------
(***************************************************************************)
(* Facts.                                                                  *)
(***************************************************************************)

\* What is known of one process.
LEMMA ProcessFacts ==
    ASSUME IInv, NEW p \in Processes
    PROVE  /\ run \in [Processes -> Runs]
           /\ run[p] \in Runs /\ run[p].phase \in Phases /\ run[p].at \in Nat
           /\ run[p].at \in 1 .. Len(files[p]) + 1
           /\ files[p] \in Seq(Checksums) /\ Len(files[p]) \in Nat /\ Len(files[p]) <= Last
           /\ run[p].phase \in {"adopt", "body", "record", "commit"} => run[p].at <= Len(files[p])
           /\ Len(applied) \in Nat /\ applied \in Seq(Bodies)
           /\ Last \in Nat
<1>1. /\ run \in [Processes -> Runs] /\ run[p] \in Runs
      /\ run[p].at \in 1 .. Len(files[p]) + 1
      /\ files[p] \in Seq(Checksums) /\ Len(files[p]) \in Versions
      /\ run[p].phase \in {"adopt", "body", "record", "commit"} => run[p].at <= Len(files[p])
      /\ applied \in Seq(Bodies)
  BY DEF IInv, Types, TypeOK
<1>2. run[p].phase \in Phases /\ run[p].at \in Nat
  BY <1>1 DEF Runs
<1>3. Len(files[p]) \in Nat /\ Len(files[p]) <= Last /\ Last \in Nat /\ Len(applied) \in Nat
  BY <1>1, MigrateConstants DEF Versions
<1> QED  BY <1>1, <1>2, <1>3

\* A checksum at an entry of a file list.
LEMMA EntryFacts ==
    ASSUME IInv, NEW p \in Processes, NEW v \in 1 .. Len(files[p])
    PROVE  files[p][v] \in Checksums /\ v \in Versions /\ v \in Nat
<1>1. files[p] \in Seq(Checksums) /\ Len(files[p]) \in Nat /\ Len(files[p]) <= Last /\ Last \in Nat
  BY ProcessFacts
<1> QED  BY <1>1 DEF Versions

\* A body's content is a checksum or unknown.
LEMMA BodyFacts ==
    ASSUME IInv, NEW n \in 1 .. Len(applied)
    PROVE  applied[n].content \in Checksums \cup {Null} /\ n \in Versions
<1>1. applied \in Seq(Bodies) /\ Len(applied) \in Nat /\ Len(applied) <= Last /\ Last \in Nat
  BY MigrateConstants DEF IInv, Types, TypeOK, LedgerInv
<1>2. applied[n] \in Bodies
  BY <1>1
<1> QED  BY <1>1, <1>2 DEF Bodies, Versions

\* One process goes to another phase, at the same or at another version.
LEMMA RunUpdate ==
    ASSUME IInv, NEW p \in Processes, NEW phase \in Phases, NEW at \in 1 .. Len(files[p]) + 1,
           run' = [run EXCEPT ![p] = [phase |-> phase, at |-> at]],
           phase \in {"adopt", "body", "record", "commit"} => at <= Len(files[p])
    PROVE  /\ run' \in [Processes -> Runs]
           /\ run'[p].phase = phase /\ run'[p].at = at
           /\ \A q \in Processes : q # p => run'[q] = run[q]
           /\ \A q \in Processes :
                 /\ run'[q].phase \in Phases
                 /\ run'[q].at \in 1 .. Len(files[q]) + 1
                 /\ run'[q].phase \in {"adopt", "body", "record", "commit"} =>
                       run'[q].at <= Len(files[q])
<1>1. /\ run \in [Processes -> Runs] /\ Len(files[p]) \in Nat
      /\ \A q \in Processes :
            /\ run[q].phase \in Phases
            /\ run[q].at \in 1 .. Len(files[q]) + 1
            /\ run[q].phase \in {"adopt", "body", "record", "commit"} =>
                  run[q].at <= Len(files[q])
  BY ProcessFacts
<1>2. [phase |-> phase, at |-> at] \in Runs
  BY <1>1 DEF Runs
<1>3. /\ run' \in [Processes -> Runs]
      /\ run'[p] = [phase |-> phase, at |-> at]
      /\ \A q \in Processes : q # p => run'[q] = run[q]
  BY <1>1, <1>2
<1> QED  BY <1>1, <1>3

\* GoTo keeps the version, NextEntry adds one to it.
LEMMA GoToIs ==
    ASSUME IInv, NEW p \in Processes, NEW phase, GoTo(p, phase)
    PROVE  run' = [run EXCEPT ![p] = [phase |-> phase, at |-> run[p].at]]
<1>1. run[p] \in Runs /\ run \in [Processes -> Runs]
  BY ProcessFacts
<1>2. [run[p] EXCEPT !.phase = phase] = [phase |-> phase, at |-> run[p].at]
  BY <1>1 DEF Runs
<1> QED  BY <1>1, <1>2 DEF GoTo

\* The loop's next entry.
LEMMA NextEntryIs ==
    ASSUME IInv, NEW p \in Processes, NextEntry(p)
    PROVE  run' = [run EXCEPT ![p] = [phase |-> "check", at |-> run[p].at + 1]]
BY DEF NextEntry

\* A step of a process that changes neither schema_migrations nor the schema:
\* what has to be shown is what the process knows.
LEMMA ReadStep ==
    ASSUME IInv, NEW p \in Processes, NEW phase \in Phases, NEW at \in 1 .. Len(files[p]) + 1,
           run' = [run EXCEPT ![p] = [phase |-> phase, at |-> at]],
           phase \in {"adopt", "body", "record", "commit"} => at <= Len(files[p]),
           UNCHANGED <<files, stored, applied>>,
           layout' \in {"absent", "legacy", "current"},
           \A v \in 1 .. at - 1 : v <= Len(applied) /\ applied[v].content \in {files[p][v], Null},
           phase = "adopt" => at <= Len(applied) /\ applied[at].content = Null,
           phase = "commit" => /\ at > Len(applied)
                               /\ \A q \in Processes : q # p => run[q].phase # "commit",
           phase = "done" => at > Len(files[p])
    PROVE  IInv'
<1>1. /\ run' \in [Processes -> Runs]
      /\ run'[p].phase = phase /\ run'[p].at = at
      /\ \A q \in Processes : q # p => run'[q] = run[q]
      /\ \A q \in Processes :
            /\ run'[q].phase \in Phases
            /\ run'[q].at \in 1 .. Len(files[q]) + 1
            /\ run'[q].phase \in {"adopt", "body", "record", "commit"} =>
                  run'[q].at <= Len(files[q])
  BY RunUpdate
<1>2. Types'
  BY <1>1 DEF IInv, Types, TypeOK
<1>3. LedgerInv'
  BY DEF IInv, LedgerInv
<1>4. \A q \in Processes : Passed(q)' /\ Doing(q)'
  BY <1>1 DEF IInv, Passed, Doing
<1>5. OneCommits'
  BY <1>1 DEF IInv, OneCommits
<1> QED  BY <1>2, <1>3, <1>4, <1>5 DEF IInv

-----------------------------------------------------------------------------
(***************************************************************************)
(* The initial states.                                                     *)
(***************************************************************************)

\* A new database, or one an earlier release migrated up to some version.
LEMMA InitKeeps == Init => IInv
<1> SUFFICES ASSUME Init PROVE IInv
  OBVIOUS
<1>1. Last \in Nat
  BY MigrateConstants
<1>2. ASSUME NEW p \in Processes
      PROVE  files[p] \in Seq(Checksums) /\ Len(files[p]) \in Versions
  <2>1. PICK n \in Versions : files[p] \in [1 .. n -> Checksums]
    BY DEF Init
  <2>2. n \in Nat
    BY <1>1 DEF Versions
  <2>3. files[p] \in Seq(Checksums) /\ Len(files[p]) = n
    BY <2>1, <2>2
  <2> QED  BY <2>3
<1>3. files \in [Processes -> Seq(Checksums)]
  <2>1. files \in [Processes -> UNION {[1 .. n -> Checksums] : n \in Versions}]
    BY DEF Init
  <2> QED  BY <1>2, <2>1
<1>4. run = [p \in Processes |-> [phase |-> "create", at |-> 1]]
  BY DEF Init
<1>5. run \in [Processes -> Runs]
  BY <1>4 DEF Runs, Phases
<1>6. PICK n \in 0 .. Last :
         /\ layout \in IF n = 0 THEN {"absent", "legacy", "current"} ELSE {"legacy"}
         /\ stored = [v \in Versions |-> IF v <= n THEN Null ELSE Missing]
         /\ applied = [v \in 1 .. n |-> [version |-> v, content |-> Null]]
  BY DEF Init
<1>7. n \in Nat /\ n <= Last
  BY <1>1, <1>6
<1>8. applied \in Seq(Bodies) /\ Len(applied) = n
  <2>1. \A v \in 1 .. n : [version |-> v, content |-> Null] \in Bodies
    BY <1>1, <1>7 DEF Bodies, Versions
  <2>2. applied \in [1 .. n -> Bodies]
    BY <1>6, <2>1
  <2> QED  BY <1>7, <2>2
<1>9. \A v \in 1 .. n : applied[v].version = v /\ applied[v].content = Null
  BY <1>6
<1>10. Types
  <2>1. \A p \in Processes : run[p].phase = "create" /\ run[p].at = 1
    BY <1>4
  <2>2. \A p \in Processes : run[p].at \in 1 .. Len(files[p]) + 1
    BY <1>1, <1>2, <2>1 DEF Versions
  <2>3. stored \in [Versions -> Checksums \cup {Missing, Null}]
    BY <1>6
  <2> QED  BY <1>2, <1>3, <1>5, <1>6, <1>8, <2>1, <2>2, <2>3 DEF Types, TypeOK, Phases
<1>11. LedgerInv
  <2>1. \A v \in Versions : v \in Nat /\ v >= 1
    BY <1>1 DEF Versions
  <2> QED  BY <1>6, <1>7, <1>8, <1>9, <2>1, MigrateConstants DEF LedgerInv
<1>12. \A p \in Processes : Passed(p) /\ Doing(p)
  BY <1>4 DEF Passed, Doing
<1>13. OneCommits
  BY <1>4 DEF OneCommits
<1> QED  BY <1>10, <1>11, <1>12, <1>13 DEF IInv

-----------------------------------------------------------------------------
(***************************************************************************)
(* The steps.                                                              *)
(***************************************************************************)

\* What a process that stays at its version has passed, and where it stands.
LEMMA PassedFacts ==
    ASSUME IInv, NEW p \in Processes
    PROVE  /\ \A v \in 1 .. run[p].at - 1 :
                 v <= Len(applied) /\ applied[v].content \in {files[p][v], Null}
           /\ run[p].at <= Len(applied) + 1
<1>1. \A v \in 1 .. run[p].at - 1 :
         v <= Len(applied) /\ applied[v].content \in {files[p][v], Null}
  BY DEF IInv, Passed
<1>2. run[p].at \in Nat /\ run[p].at >= 1 /\ Len(applied) \in Nat
  BY ProcessFacts
<1>3. CASE run[p].at = 1
  BY <1>1, <1>2, <1>3
<1>4. CASE run[p].at # 1
  BY <1>1, <1>2, <1>4
<1> QED  BY <1>1, <1>3, <1>4

\* The table is created, upgraded, or the run ends: the process is elsewhere in
\* Migrate and knows what it knew.
LEMMA StaysKeeps ==
    ASSUME IInv, NEW p \in Processes, NEW phase \in {"upgrade", "check", "failed", "body", "record", "refused"},
           GoTo(p, phase), UNCHANGED <<files, stored, applied>>,
           layout' \in {"absent", "legacy", "current"},
           phase \in {"body", "record"} => run[p].at <= Len(files[p])
    PROVE  IInv'
<1>1. run' = [run EXCEPT ![p] = [phase |-> phase, at |-> run[p].at]]
  BY GoToIs
<1>2. phase \in Phases /\ run[p].at \in 1 .. Len(files[p]) + 1
  BY ProcessFacts DEF Phases
<1> QED  BY <1>1, <1>2, PassedFacts, ReadStep, ZenonT(30)

\* CREATE TABLE IF NOT EXISTS and ALTER TABLE.
LEMMA TableKeeps ==
    ASSUME IInv, NEW p \in Processes, CreateTable(p) \/ UpgradeTable(p)
    PROVE  IInv'
<1>1. layout \in {"absent", "legacy", "current"}
  BY DEF IInv, Types, TypeOK
<1>2. CASE CreateTable(p)
  <2>1. /\ GoTo(p, "upgrade") /\ UNCHANGED <<files, stored, applied>>
        /\ layout' \in {"absent", "legacy", "current"}
    BY <1>1, <1>2 DEF CreateTable
  <2> QED  BY <2>1, StaysKeeps
<1>3. CASE UpgradeTable(p)
  <2>1. /\ GoTo(p, "check") /\ UNCHANGED <<files, stored, applied>>
        /\ layout' \in {"absent", "legacy", "current"}
    BY <1>3 DEF UpgradeTable
  <2> QED  BY <2>1, StaysKeeps
<1> QED  BY <1>2, <1>3

\* What the SELECT of a version's checksum shows of the bodies.
LEMMA CheckShows ==
    ASSUME IInv, NEW v \in Versions, NEW checksum \in Checksums
    PROVE  /\ AfterCheck(checksum, stored[v]) \in {"check", "adopt", "body", "refused"}
           /\ AfterCheck(checksum, stored[v]) = "check" =>
                 v <= Len(applied) /\ applied[v].content \in {checksum, Null}
           /\ AfterCheck(checksum, stored[v]) = "adopt" =>
                 v <= Len(applied) /\ applied[v].content = Null
<1>1. /\ stored[v] # Missing <=> v <= Len(applied)
      /\ v <= Len(applied) /\ applied[v].content # Null => stored[v] = applied[v].content
  BY DEF IInv, LedgerInv
<1>2. checksum # Missing /\ checksum # Null /\ Missing # Null
  BY MigrateConstants
<1>3. CASE stored[v] = Missing
  <2>1. AfterCheck(checksum, stored[v]) = "body"
    BY <1>2, <1>3 DEF AfterCheck
  <2> QED  BY <2>1
<1>4. CASE stored[v] = Null
  <2>1. AfterCheck(checksum, stored[v]) = "adopt"
    BY <1>2, <1>4 DEF AfterCheck
  <2> QED  BY <1>1, <1>2, <1>4, <2>1
<1>5. CASE stored[v] = checksum
  <2>1. AfterCheck(checksum, stored[v]) = "check"
    BY <1>2, <1>5 DEF AfterCheck
  <2> QED  BY <1>1, <1>2, <1>5, <2>1
<1>6. CASE stored[v] # Missing /\ stored[v] # Null /\ stored[v] # checksum
  BY <1>6 DEF AfterCheck
<1> QED  BY <1>3, <1>4, <1>5, <1>6

\* The version is looked up.
LEMMA CheckKeeps ==
    ASSUME IInv, NEW p \in Processes, CheckVersion(p)
    PROVE  IInv'
<1> DEFINE v == run[p].at
<1> DEFINE after == AfterCheck(files[p][v], stored[v])
<1>1. /\ v <= Len(files[p])
      /\ IF after = "check" THEN NextEntry(p) ELSE GoTo(p, after)
      /\ UNCHANGED <<files, layout, stored, applied>>
  BY DEF CheckVersion
<1>2. v \in 1 .. Len(files[p]) /\ v \in Nat /\ Len(files[p]) \in Nat /\ Len(applied) \in Nat
  BY <1>1, ProcessFacts
<1>3. files[p][v] \in Checksums /\ v \in Versions
  BY <1>2, EntryFacts
<1>4. /\ after \in {"check", "adopt", "body", "refused"}
      /\ after = "check" => v <= Len(applied) /\ applied[v].content \in {files[p][v], Null}
      /\ after = "adopt" => v <= Len(applied) /\ applied[v].content = Null
  BY <1>3, CheckShows
<1>5. layout' \in {"absent", "legacy", "current"} /\ UNCHANGED <<files, stored, applied>>
  BY <1>1 DEF IInv, Types, TypeOK
<1>6. \A w \in 1 .. v - 1 : w <= Len(applied) /\ applied[w].content \in {files[p][w], Null}
  BY PassedFacts
<1> HIDE DEF v, after
<1>7. CASE after = "check"
  <2>1. run' = [run EXCEPT ![p] = [phase |-> "check", at |-> v + 1]]
    BY <1>1, <1>7, NextEntryIs DEF v
  <2>2. \A w \in 1 .. (v + 1) - 1 : w <= Len(applied) /\ applied[w].content \in {files[p][w], Null}
    BY <1>2, <1>4, <1>6, <1>7
  <2>3. v + 1 \in 1 .. Len(files[p]) + 1 /\ "check" \in Phases
    BY <1>2 DEF Phases
  <2> QED  BY <1>5, <2>1, <2>2, <2>3, ReadStep
<1>8. CASE after # "check"
  <2>1. run' = [run EXCEPT ![p] = [phase |-> after, at |-> v]]
    BY <1>1, <1>8, GoToIs DEF v
  <2>2. v \in 1 .. Len(files[p]) + 1 /\ after \in Phases
    BY <1>2, <1>4 DEF Phases
  <2>3. after # "commit" /\ after # "done"
    BY <1>4
  <2> QED  BY <1>1, <1>4, <1>5, <1>6, <2>1, <2>2, <2>3, ReadStep
<1> QED  BY <1>7, <1>8

\* The end of the loop.
LEMMA FinishKeeps ==
    ASSUME IInv, NEW p \in Processes, Finish(p)
    PROVE  IInv'
<1>1. run' = [run EXCEPT ![p] = [phase |-> "done", at |-> run[p].at]]
  BY GoToIs DEF Finish
<1>2. run[p].at \in 1 .. Len(files[p]) + 1 /\ "done" \in Phases
  BY ProcessFacts DEF Phases
<1>3. /\ run[p].at > Len(files[p]) /\ UNCHANGED <<files, stored, applied>>
      /\ layout' \in {"absent", "legacy", "current"}
  BY DEF Finish, IInv, Types, TypeOK
<1> QED  BY <1>1, <1>2, <1>3, PassedFacts, ReadStep
\* UPDATE ... SET checksum: the version's body has no recorded content, so any
\* checksum is as good.
LEMMA AdoptKeeps ==
    ASSUME IInv, NEW p \in Processes, AdoptChecksum(p)
    PROVE  IInv'
<1>1. PICK v : v = run[p].at
  OBVIOUS
<1>2. /\ run[p].phase = "adopt"
      /\ stored' = [stored EXCEPT ![v] = files[p][v]]
      /\ NextEntry(p)
      /\ UNCHANGED <<files, layout, applied>>
  BY <1>1 DEF AdoptChecksum
<1>3. v \in 1 .. Len(files[p]) /\ v \in Nat /\ Len(files[p]) \in Nat /\ Len(applied) \in Nat
  BY <1>1, <1>2, ProcessFacts
<1>4. v <= Len(applied) /\ applied[v].content = Null
  BY <1>1, <1>2 DEF IInv, Doing
<1>5. files[p][v] \in Checksums /\ v \in Versions /\ files[p][v] # Missing
  BY <1>3, EntryFacts, MigrateConstants
<1>6. run' = [run EXCEPT ![p] = [phase |-> "check", at |-> v + 1]]
  BY <1>1, <1>2, NextEntryIs
<1>7. /\ run' \in [Processes -> Runs]
      /\ run'[p].phase = "check" /\ run'[p].at = v + 1
      /\ \A q \in Processes : q # p => run'[q] = run[q]
      /\ \A q \in Processes :
            /\ run'[q].phase \in Phases
            /\ run'[q].at \in 1 .. Len(files[q]) + 1
            /\ run'[q].phase \in {"adopt", "body", "record", "commit"} =>
                  run'[q].at <= Len(files[q])
  <2>1. v + 1 \in 1 .. Len(files[p]) + 1 /\ "check" \in Phases
    BY <1>3 DEF Phases
  <2> QED  BY <1>6, <2>1, RunUpdate
<1>8. /\ stored' \in [Versions -> Checksums \cup {Missing, Null}]
      /\ stored'[v] = files[p][v]
      /\ \A w \in Versions : w # v => stored'[w] = stored[w]
  BY <1>2, <1>5 DEF IInv, Types, TypeOK
<1>9. Types'
  BY <1>2, <1>7, <1>8 DEF IInv, Types, TypeOK
<1>10. LedgerInv'
  BY <1>2, <1>4, <1>5, <1>8 DEF IInv, LedgerInv
<1>11. ASSUME NEW q \in Processes PROVE Passed(q)' /\ Doing(q)'
  <2>1. CASE q = p
    <3>1. \A w \in 1 .. v - 1 : w <= Len(applied) /\ applied[w].content \in {files[p][w], Null}
      BY <1>1, PassedFacts
    <3>2. \A w \in 1 .. (v + 1) - 1 : w <= Len(applied) /\ applied[w].content \in {files[p][w], Null}
      BY <1>3, <1>4, <3>1
    <3> QED  BY <1>2, <1>7, <2>1, <3>2 DEF Passed, Doing
  <2>2. CASE q # p
    BY <1>2, <1>7, <2>2 DEF IInv, Passed, Doing
  <2> QED  BY <2>1, <2>2
<1>12. OneCommits'
  BY <1>7 DEF IInv, OneCommits
<1> QED  BY <1>9, <1>10, <1>11, <1>12 DEF IInv

\* The body is executed, or its relations exist already.
LEMMA ExecuteKeeps ==
    ASSUME IInv, NEW p \in Processes, ExecuteBody(p)
    PROVE  IInv'
<1>1. PICK phase \in {"refused", "record"} : GoTo(p, phase)
  BY DEF ExecuteBody
<1>2. run[p].at <= Len(files[p])
  BY ProcessFacts DEF ExecuteBody
<1>3. UNCHANGED <<files, stored, applied>> /\ layout' \in {"absent", "legacy", "current"}
  BY DEF ExecuteBody, IInv, Types, TypeOK
<1> QED  BY <1>1, <1>2, <1>3, StaysKeeps

\* INSERT INTO schema_migrations: where the key is free the version is the next
\* one, and so is that of any other process that has inserted; this process has
\* waited for those.
LEMMA RecordKeeps ==
    ASSUME IInv, NEW p \in Processes, RecordVersion(p)
    PROVE  IInv'
<1>1. PICK v : v = run[p].at
  OBVIOUS
<1>2. /\ run[p].phase = "record"
      /\ \A q \in Processes : ~Inserted(q, v)
      /\ GoTo(p, IF KeyIsFree(v) THEN "commit" ELSE "refused")
      /\ UNCHANGED <<files, layout, stored, applied>>
  BY <1>1 DEF RecordVersion
<1>3. UNCHANGED <<files, stored, applied>> /\ layout' \in {"absent", "legacy", "current"}
  BY <1>2 DEF IInv, Types, TypeOK
<1>4. v \in 1 .. Len(files[p]) /\ v \in Nat /\ Len(files[p]) \in Nat /\ Len(applied) \in Nat
  BY <1>1, <1>2, ProcessFacts
<1>5. CASE ~KeyIsFree(v)
  <2>1. GoTo(p, "refused")
    BY <1>2, <1>5
  <2> QED  BY <1>3, <2>1, StaysKeeps
<1>6. CASE KeyIsFree(v)
  <2>1. v \in Versions
    BY <1>4, EntryFacts
  <2>2. v > Len(applied)
    BY <1>4, <1>6, <2>1 DEF KeyIsFree, IInv, LedgerInv
  <2>3. ASSUME NEW q \in Processes, run[q].phase = "commit" PROVE FALSE
    <3>1. run[q].at > Len(applied) /\ run[q].at \in Nat
      BY <2>3, ProcessFacts DEF IInv, Doing
    <3>2. run[q].at <= Len(applied) + 1 /\ run[p].at <= Len(applied) + 1
      BY PassedFacts
    <3>3. run[q].at = v
      BY <1>1, <1>4, <2>2, <3>1, <3>2
    <3> QED  BY <1>2, <2>3, <3>3 DEF Inserted
  <2>4. run' = [run EXCEPT ![p] = [phase |-> "commit", at |-> v]]
    BY <1>1, <1>2, <1>6, GoToIs
  <2>5. v \in 1 .. Len(files[p]) + 1 /\ "commit" \in Phases /\ v <= Len(files[p])
    BY <1>4 DEF Phases
  <2>6. \A w \in 1 .. v - 1 : w <= Len(applied) /\ applied[w].content \in {files[p][w], Null}
    BY <1>1, PassedFacts
  <2> QED  BY <1>3, <2>2, <2>3, <2>4, <2>5, <2>6, ReadStep
<1> QED  BY <1>5, <1>6

\* COMMIT adds the body and the row of the next version, whether or not the run
\* learns of it.
LEMMA CommitKeeps ==
    ASSUME IInv, NEW p \in Processes, NEW answered \in BOOLEAN, CommitVersion(p, answered)
    PROVE  IInv'
<1>1. PICK v : v = run[p].at
  OBVIOUS
<1>2. /\ run[p].phase = "commit"
      /\ stored' = [stored EXCEPT ![v] = files[p][v]]
      /\ applied' = Append(applied, [version |-> v, content |-> files[p][v]])
      /\ IF answered THEN NextEntry(p) ELSE GoTo(p, "failed")
      /\ UNCHANGED <<files, layout>>
  BY <1>1 DEF CommitVersion, WithBody
<1>3. /\ v \in 1 .. Len(files[p]) /\ v \in Nat /\ Len(files[p]) \in Nat /\ Len(applied) \in Nat
      /\ applied \in Seq(Bodies) /\ Len(files[p]) <= Last /\ Last \in Nat
  BY <1>1, <1>2, ProcessFacts
<1>4. v = Len(applied) + 1
  <2>1. v > Len(applied)
    BY <1>1, <1>2 DEF IInv, Doing
  <2>2. v <= Len(applied) + 1
    BY <1>1, PassedFacts
  <2> QED  BY <1>3, <2>1, <2>2
<1>5. files[p][v] \in Checksums /\ v \in Versions /\ files[p][v] # Missing /\ files[p][v] # Null
  BY <1>3, EntryFacts, MigrateConstants
<1>6. PICK body : body = [version |-> v, content |-> files[p][v]]
  OBVIOUS
<1>7. body \in Bodies /\ body.version = v /\ body.content = files[p][v]
  BY <1>5, <1>6 DEF Bodies
<1>8. /\ applied' \in Seq(Bodies) /\ Len(applied') = v /\ applied'[v] = body
      /\ \A n \in 1 .. Len(applied) : applied'[n] = applied[n]
  BY <1>2, <1>3, <1>4, <1>6, <1>7
<1>9. /\ stored' \in [Versions -> Checksums \cup {Missing, Null}]
      /\ stored'[v] = files[p][v]
      /\ \A w \in Versions : w # v => stored'[w] = stored[w]
  BY <1>2, <1>5 DEF IInv, Types, TypeOK
<1>10. PICK phase \in {"check", "failed"}, at \in {v, v + 1} :
          run' = [run EXCEPT ![p] = [phase |-> phase, at |-> at]]
  <2>1. CASE answered
    BY <1>1, <1>2, <2>1, NextEntryIs
  <2>2. CASE ~answered
    BY <1>1, <1>2, <2>2, GoToIs
  <2> QED  BY <2>1, <2>2
<1>11. /\ run' \in [Processes -> Runs]
       /\ run'[p].phase = phase /\ run'[p].at = at
       /\ \A q \in Processes : q # p => run'[q] = run[q]
       /\ \A q \in Processes :
             /\ run'[q].phase \in Phases
             /\ run'[q].at \in 1 .. Len(files[q]) + 1
             /\ run'[q].phase \in {"adopt", "body", "record", "commit"} =>
                   run'[q].at <= Len(files[q])
  <2>1. at \in 1 .. Len(files[p]) + 1 /\ phase \in Phases
    BY <1>3 DEF Phases
  <2>2. phase \notin {"adopt", "body", "record", "commit"}
    OBVIOUS
  <2> QED  BY <1>10, <2>1, <2>2, RunUpdate
<1>12. Types'
  BY <1>2, <1>8, <1>9, <1>11 DEF IInv, Types, TypeOK
<1>13. LedgerInv'
  <2>1. v <= Last
    BY <1>3
  <2>2. \A n \in 1 .. v : applied'[n].version = n
    BY <1>3, <1>4, <1>7, <1>8 DEF IInv, LedgerInv
  <2>3. \A w \in Versions : w \in Nat /\ w >= 1
    BY <1>3 DEF Versions
  <2>4. ASSUME NEW w \in Versions
        PROVE  /\ stored'[w] # Missing <=> w <= v
               /\ w <= v /\ applied'[w].content # Null => stored'[w] = applied'[w].content
    <3>1. CASE w = v
      BY <1>3, <1>5, <1>7, <1>8, <1>9, <3>1
    <3>2. CASE w # v
      <4>1. stored'[w] = stored[w] /\ (w <= v <=> w <= Len(applied))
        BY <1>3, <1>4, <1>9, <2>3, <3>2
      <4>2. w <= Len(applied) => applied'[w] = applied[w]
        BY <1>3, <1>8, <2>3
      <4> QED  BY <4>1, <4>2 DEF IInv, LedgerInv
    <3> QED  BY <3>1, <3>2
  <2> QED  BY <1>8, <2>1, <2>2, <2>4 DEF LedgerInv
<1>14. ASSUME NEW q \in Processes PROVE Passed(q)' /\ Doing(q)'
  <2>1. \A w \in 1 .. run[q].at - 1 :
           w <= Len(applied) /\ applied[w].content \in {files[q][w], Null}
    BY PassedFacts
  <2>2. run[q].at \in Nat
    BY ProcessFacts
  <2>3. \A w \in 1 .. run[q].at - 1 :
           w <= v /\ applied'[w].content \in {files[q][w], Null}
    BY <1>3, <1>4, <1>8, <2>1, <2>2
  <2>4. CASE q = p
    <3>1. \A w \in 1 .. at - 1 : w <= v /\ applied'[w].content \in {files[p][w], Null}
      <4> SUFFICES ASSUME NEW w \in 1 .. at - 1
                   PROVE  w <= v /\ applied'[w].content \in {files[p][w], Null}
        OBVIOUS
      <4>1. w \in Nat /\ w >= 1 /\ w <= v
        BY <1>3
      <4>2. CASE w = v
        BY <1>7, <1>8, <4>1, <4>2
      <4>3. CASE w # v
        <5>1. w \in 1 .. run[q].at - 1
          BY <1>1, <1>3, <2>4, <4>1, <4>3
        <5> QED  BY <2>3, <2>4, <4>1, <5>1
      <4> QED  BY <4>2, <4>3
    <3> QED  BY <1>2, <1>8, <1>11, <2>4, <3>1 DEF Passed, Doing
  <2>5. CASE q # p
    <3>1. run'[q] = run[q] /\ run[q].phase # "commit"
      BY <1>2, <1>11, <2>5 DEF IInv, OneCommits
    <3>2. Passed(q)'
      BY <1>2, <1>8, <2>3, <3>1 DEF Passed
    <3>3. run[q].phase = "adopt" => run[q].at <= v /\ applied'[run[q].at].content = Null
      <4>1. run[q].at >= 1
        BY ProcessFacts
      <4> QED  BY <1>3, <1>4, <1>8, <2>2, <4>1 DEF IInv, Doing
    <3>4. run[q].phase = "done" => run[q].at > Len(files[q])
      BY DEF IInv, Doing
    <3> QED  BY <1>2, <1>8, <3>1, <3>2, <3>3, <3>4 DEF Doing
  <2> QED  BY <2>4, <2>5
<1>15. OneCommits'
  BY <1>11 DEF IInv, OneCommits
<1> QED  BY <1>12, <1>13, <1>14, <1>15 DEF IInv

\* A failure, and the next run of the command.
LEMMA FailKeeps ==
    ASSUME IInv, NEW p \in Processes, Fail(p) \/ RunAgain(p)
    PROVE  IInv'
<1>1. UNCHANGED <<files, stored, applied>> /\ layout' \in {"absent", "legacy", "current"}
  BY DEF Fail, RunAgain, IInv, Types, TypeOK
<1>2. CASE Fail(p)
  BY <1>1, <1>2, StaysKeeps DEF Fail
<1>3. CASE RunAgain(p)
  <2>1. run' = [run EXCEPT ![p] = [phase |-> "create", at |-> 1]]
    BY <1>3 DEF RunAgain, FirstEntry
  <2>2. 1 \in 1 .. Len(files[p]) + 1 /\ "create" \in Phases
    BY ProcessFacts DEF Phases
  <2>3. \A v \in 1 .. 1 - 1 : v <= Len(applied) /\ applied[v].content \in {files[p][v], Null}
    OBVIOUS
  <2>4. PICK at \in 1 .. Len(files[p]) + 1 : at = 1
    BY <2>2
  <2>5. PICK phase \in Phases : phase = "create"
    BY <2>2
  <2>6. run' = [run EXCEPT ![p] = [phase |-> phase, at |-> at]]
    BY <2>1, <2>4, <2>5
  <2>7. \A v \in 1 .. at - 1 : v <= Len(applied) /\ applied[v].content \in {files[p][v], Null}
    BY <2>3, <2>4
  <2>8. phase \notin {"adopt", "body", "record", "commit", "done"}
    BY <2>5
  <2> QED  BY <1>1, <2>6, <2>7, <2>8, ReadStep
<1> QED  BY <1>2, <1>3

\* Every step keeps the invariant.
LEMMA StepKeeps == IInv /\ [Next]_vars => IInv'
<1> SUFFICES ASSUME IInv, [Next]_vars PROVE IInv'
  OBVIOUS
<1>1. CASE UNCHANGED vars
  BY <1>1 DEF vars, IInv, Types, TypeOK, LedgerInv, Passed, Doing, OneCommits
<1>2. CASE Next
  <2>1. PICK p \in Processes :
           Progress(p) \/ CommitVersion(p, FALSE) \/ Fail(p) \/ RunAgain(p)
    BY <1>2 DEF Next
  <2> QED  BY <2>1, TableKeeps, CheckKeeps, FinishKeeps, AdoptKeeps, ExecuteKeeps, RecordKeeps,
              CommitKeeps, FailKeeps DEF Progress
<1> QED  BY <1>1, <1>2

-----------------------------------------------------------------------------
(***************************************************************************)
(* The theorems.                                                           *)
(***************************************************************************)

\* The inductive invariant holds in every state of database.Migrate's runs.
THEOREM Invariance == Spec => []IInv
BY InitKeeps, StepKeeps, PTL DEF Spec

\* schema_migrations tells the truth about the schema for any number of versions
\* and of processes: the bodies are committed once, in the order of the names, and
\* each row has the checksum of its body, though Migrate checks outside the
\* transaction that applies.
THEOREM TrueLedger == Spec => []LedgerIsTrue
<1>1. IInv => LedgerIsTrue
  <2> SUFFICES ASSUME IInv PROVE LedgerIsTrue
    OBVIOUS
  <2>1. applied \in Seq(Bodies) /\ Len(applied) \in Nat /\ TypeOK /\ Last \in Nat
    BY MigrateConstants DEF IInv, Types, TypeOK
  <2>2. DOMAIN applied = 1 .. Len(applied)
    BY <2>1
  <2>3. \A n \in DOMAIN applied : applied[n].version = n
    BY <2>2 DEF IInv, LedgerInv
  <2>4. ASSUME NEW v \in Versions
        PROVE  /\ stored[v] # Missing <=> HasBody(v)
               /\ \A n \in DOMAIN applied :
                     applied[n].version = v /\ applied[n].content # Null =>
                         stored[v] = applied[n].content
    <3>1. v \in Nat /\ v >= 1
      BY <2>1 DEF Versions
    <3>2. v <= Len(applied) <=> v \in DOMAIN applied
      BY <2>1, <2>2, <3>1
    <3>3. HasBody(v) <=> v \in DOMAIN applied
      BY <2>3 DEF HasBody
    <3>4. /\ stored[v] # Missing <=> v <= Len(applied)
          /\ v <= Len(applied) /\ applied[v].content # Null => stored[v] = applied[v].content
      BY DEF IInv, LedgerInv
    <3> QED  BY <2>3, <3>2, <3>3, <3>4
  <2> QED  BY <2>1, <2>3, <2>4 DEF LedgerIsTrue
<1> QED  BY <1>1, Invariance, PTL

\* A run of Migrate that ends with success passes over no changed file, however
\* many processes with other files run beside it.
THEOREM VerifiedSuccess == Spec => []SuccessIsVerified
<1>1. IInv => SuccessIsVerified
  <2> SUFFICES ASSUME IInv, NEW p \in Processes, run[p].phase = "done",
                      NEW v \in DOMAIN files[p]
               PROVE  \E n \in DOMAIN applied :
                         /\ applied[n].version = v
                         /\ applied[n].content \in {files[p][v], Null}
    BY DEF SuccessIsVerified
  <2>1. /\ files[p] \in Seq(Checksums) /\ Len(files[p]) \in Nat /\ run[p].at \in Nat
        /\ applied \in Seq(Bodies) /\ Len(applied) \in Nat
    BY ProcessFacts
  <2>2. v \in 1 .. Len(files[p]) /\ run[p].at > Len(files[p])
    BY <2>1 DEF IInv, Doing
  <2>3. v \in 1 .. run[p].at - 1
    BY <2>1, <2>2
  <2>4. v <= Len(applied) /\ applied[v].content \in {files[p][v], Null}
    BY <2>3, PassedFacts
  <2>5. v \in 1 .. Len(applied) /\ v \in DOMAIN applied
    BY <2>1, <2>2, <2>4
  <2>6. applied[v].version = v
    BY <2>5 DEF IInv, LedgerInv
  <2> QED  BY <2>4, <2>5, <2>6
<1> QED  BY <1>1, Invariance, PTL
=============================================================================
