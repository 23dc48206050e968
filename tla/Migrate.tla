------------------------------ MODULE Migrate -------------------------------
(***************************************************************************)
(* cmd/migrate: database.Migrate run by several processes at once, of      *)
(* builds that may embed different files, against a new database or one    *)
(* that was migrated before checksums were recorded.                       *)
(*                                                                         *)
(* Nothing keeps two runs apart.  Each looks up a version outside the      *)
(* transaction that applies it, so both may find it missing.  What the     *)
(* second meets is a relation that exists, or the primary key of           *)
(* schema_migrations, and its transaction is rolled back.                  *)
(***************************************************************************)
EXTENDS Naturals, Sequences

CONSTANTS
    Last,       \* versions are numbered 1 .. Last in the order of their names
    Creates,    \* the versions whose body creates relations, and so fails twice
    Processes,  \* runs of cmd/migrate
    Checksums,  \* of the files' contents
    Missing,    \* no row in schema_migrations
    Null        \* a row without checksum

Versions == 1 .. Last

ASSUME MigrateConstants ==
    /\ Last \in Nat
    /\ Creates \subseteq Versions
    /\ Missing # Null
    /\ {Missing, Null} \cap Checksums = {}

VARIABLES
    files,    \* per process, the embedded files: a sequence of checksums
    layout,   \* of schema_migrations: "absent", "legacy" (no checksum) or "current"
    stored,   \* the rows of schema_migrations
    applied,  \* history: the bodies committed so far, in this order
    run       \* per process, how far Migrate is, and at which version

vars == <<files, layout, stored, applied, run>>

\* A body that was applied before this history has a content nobody recorded.
Bodies == [version : Versions, content : Checksums \cup {Null}]

Phases == {"create", "upgrade", "check", "adopt", "body", "record", "commit",
           "done", "refused", "failed"}

\* The database is new, or an earlier release applied some versions to it.
Init ==
    /\ files \in [Processes -> UNION {[1 .. n -> Checksums] : n \in Versions}]
    /\ \E n \in 0 .. Last :
          /\ layout \in IF n = 0 THEN {"absent", "legacy", "current"} ELSE {"legacy"}
          /\ stored = [v \in Versions |-> IF v <= n THEN Null ELSE Missing]
          /\ applied = [v \in 1 .. n |-> [version |-> v, content |-> Null]]
    /\ run = [p \in Processes |-> [phase |-> "create", at |-> 1]]

-----------------------------------------------------------------------------
GoTo(p, phase) == run' = [run EXCEPT ![p].phase = phase]

\* The loop's next entry.
NextEntry(p) == run' = [run EXCEPT ![p] = [phase |-> "check", at |-> @.at + 1]]

\* CREATE TABLE IF NOT EXISTS schema_migrations.  Two at once may fail: Fail.
CreateTable(p) ==
    /\ run[p].phase = "create"
    /\ layout' = IF layout = "absent" THEN "current" ELSE layout
    /\ GoTo(p, "upgrade")
    /\ UNCHANGED <<files, stored, applied>>

\* ALTER TABLE waits for the transactions that have inserted into the table.
UpgradeTable(p) ==
    /\ run[p].phase = "upgrade"
    /\ \A q \in Processes : run[q].phase # "commit"
    /\ layout' = "current"
    /\ GoTo(p, "check")
    /\ UNCHANGED <<files, stored, applied>>

\* Faulty variant of AfterCheck: another checksum is adopted.
AfterLenientCheck(checksum, row) ==
    CASE row = Missing  -> "body"
      [] row = checksum -> "check"
      [] OTHER          -> "adopt"

\* Faulty variant of AfterCheck: a version that is there is always refused.
AfterStrictCheck(checksum, row) == IF row = Missing THEN "body" ELSE "refused"

\* What follows the SELECT of the version's checksum.
AfterCheck(checksum, row) ==
    CASE row = Missing  -> "body"
      [] row = Null     -> "adopt"
      [] row = checksum -> "check"
      [] OTHER          -> "refused"

CheckVersion(p) ==
    LET v == run[p].at
    IN  /\ run[p].phase = "check"
        /\ v <= Len(files[p])
        /\ IF AfterCheck(files[p][v], stored[v]) = "check"
           THEN NextEntry(p)
           ELSE GoTo(p, AfterCheck(files[p][v], stored[v]))
        /\ UNCHANGED <<files, layout, stored, applied>>

\* The end of the loop.
Finish(p) ==
    /\ run[p].phase = "check"
    /\ run[p].at > Len(files[p])
    /\ GoTo(p, "done")
    /\ UNCHANGED <<files, layout, stored, applied>>

\* UPDATE ... SET checksum, whatever the row has by now.
AdoptChecksum(p) ==
    /\ run[p].phase = "adopt"
    /\ stored' = [stored EXCEPT ![run[p].at] = files[p][run[p].at]]
    /\ NextEntry(p)
    /\ UNCHANGED <<files, layout, applied>>

\* Process q has version v in a transaction that is not committed.
Executed(q, v)  == run[q].phase \in {"record", "commit"} /\ run[q].at = v
Inserted(q, v)  == run[q].phase = "commit" /\ run[q].at = v

HasBody(v) == \E n \in DOMAIN applied : applied[n].version = v

\* The body is executed; what it creates waits for whoever is creating the same.
ExecuteBody(p) ==
    LET v == run[p].at
    IN  /\ run[p].phase = "body"
        /\ v \in Creates => \A q \in Processes : ~Executed(q, v)
        /\ GoTo(p, IF v \in Creates /\ HasBody(v) THEN "refused" ELSE "record")
        /\ UNCHANGED <<files, layout, stored, applied>>

\* Faulty variant of KeyIsFree: version is no primary key.
AnyKey(v) == TRUE

KeyIsFree(v) == stored[v] = Missing

\* INSERT INTO schema_migrations waits for whoever has inserted the version.
RecordVersion(p) ==
    LET v == run[p].at
    IN  /\ run[p].phase = "record"
        /\ \A q \in Processes : ~Inserted(q, v)
        /\ GoTo(p, IF KeyIsFree(v) THEN "commit" ELSE "refused")
        /\ UNCHANGED <<files, layout, stored, applied>>

WithBody(v, content) == Append(applied, [version |-> v, content |-> content])

\* COMMIT; its answer may be lost, and the run then fails after all.
CommitVersion(p, answered) ==
    LET v == run[p].at
    IN  /\ run[p].phase = "commit"
        /\ stored' = [stored EXCEPT ![v] = files[p][v]]
        /\ applied' = WithBody(v, files[p][v])
        /\ IF answered THEN NextEntry(p) ELSE GoTo(p, "failed")
        /\ UNCHANGED <<files, layout>>

\* Any statement may fail, and the process may be stopped at any point: an open
\* transaction is rolled back.
Fail(p) ==
    /\ run[p].phase \notin {"done", "refused", "failed"}
    /\ GoTo(p, "failed")
    /\ UNCHANGED <<files, layout, stored, applied>>

FirstEntry(p) == 1

\* The operator, or the orchestrator, runs cmd/migrate again.
RunAgain(p) ==
    /\ run[p].phase \in {"refused", "failed"}
    /\ run' = [run EXCEPT ![p] = [phase |-> "create", at |-> FirstEntry(p)]]
    /\ UNCHANGED <<files, layout, stored, applied>>

Progress(p) ==
    \/ CreateTable(p)
    \/ UpgradeTable(p)
    \/ CheckVersion(p)
    \/ Finish(p)
    \/ AdoptChecksum(p)
    \/ ExecuteBody(p)
    \/ RecordVersion(p)
    \/ CommitVersion(p, TRUE)

Next ==
    \E p \in Processes :
        \/ Progress(p)
        \/ CommitVersion(p, FALSE)
        \/ Fail(p)
        \/ RunAgain(p)

\* The process goes on, and a run that ended with an error is repeated.
Fairness ==
    \A p \in Processes : WF_vars(Progress(p)) /\ WF_vars(RunAgain(p))

Spec == Init /\ [][Next]_vars /\ Fairness

-----------------------------------------------------------------------------
(***************************************************************************)
(* Properties.                                                             *)
(***************************************************************************)

\* Every variable has its type; no process is past a version its build has not.
TypeOK ==
    /\ \A p \in Processes : files[p] \in Seq(Checksums) /\ Len(files[p]) \in Versions
    /\ layout \in {"absent", "legacy", "current"}
    /\ stored \in [Versions -> Checksums \cup {Missing, Null}]
    /\ applied \in Seq(Bodies)
    /\ \A p \in Processes :
          /\ run[p].phase \in Phases
          /\ run[p].at \in 1 .. Len(files[p]) + 1
          /\ run[p].phase \in {"adopt", "body", "record", "commit"} =>
                run[p].at <= Len(files[p])

\* schema_migrations tells the truth about the schema, whatever the processes,
\* their builds, failures and reruns.  Migrations are applied once and in the
\* order of their names, each on top of all before it: the n-th body committed is
\* the body of version n.  A version has a row exactly if its body is committed,
\* and the row has the checksum of that body or, where none was recorded at the
\* time, of some build's file.
LedgerIsTrue ==
    /\ TypeOK
    /\ \A n \in DOMAIN applied : applied[n].version = n
    /\ \A v \in Versions :
          /\ stored[v] # Missing <=> HasBody(v)
          /\ \A n \in DOMAIN applied :
                applied[n].version = v /\ applied[n].content # Null =>
                    stored[v] = applied[n].content

\* A changed file is not passed over: a run that ends with success has each of
\* its files in the database with that very content, but for versions applied
\* before checksums were recorded.
SuccessIsVerified ==
    \A p \in Processes :
        run[p].phase = "done" =>
            \A v \in DOMAIN files[p] :
                \E n \in DOMAIN applied :
                    /\ applied[n].version = v
                    /\ applied[n].content \in {files[p][v], Null}

\* The process's files are what the others embed.
Agreeing(p) ==
    \A q \in Processes : \A v \in DOMAIN files[p] \cap DOMAIN files[q] :
        files[p][v] = files[q][v]

\* A run that loses the race, or fails, succeeds when it is repeated: where no
\* build changed a file, and once nothing breaks any more, every process ends
\* with success.
EveryRunSucceeds ==
    <>[][\A p \in Processes : ~Fail(p) /\ ~CommitVersion(p, FALSE)]_vars =>
        \A p \in Processes : Agreeing(p) ~> run[p].phase = "done"
=============================================================================
