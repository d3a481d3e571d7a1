----------------------------- MODULE Migrations -----------------------------
(***************************************************************************)
(* Opening the store (crates/a2w-store/src/lib.rs, Store::init and         *)
(* run_migrations): every boot creates the base tables, reads the schema   *)
(* version and runs the migrations above it, one SQL statement at a time.  *)
(* The process may die between two statements, and a statement may fail:   *)
(* most failures end the boot, but those of ALTER TABLE, of the probe for  *)
(* the old key table and of a row of the backfill go unnoticed.            *)
(*                                                                         *)
(* The schema is the set of tables, columns and indexes there are; of the  *)
(* data only the idempotency keys and the references of workflows matter   *)
(* to a migration.                                                         *)
(***************************************************************************)
EXTENDS Integers, Sequences, FiniteSets

CONSTANTS
    Ids,        \* workflow ids
    Keys,       \* idempotency keys
    MaxCrashes, \* bound: how often the process dies while it boots
    MaxFaults   \* bound: how many statements fail

ASSUME MigrationsAssumption ==
    /\ IsFiniteSet(Ids) /\ IsFiniteSet(Keys)
    /\ MaxCrashes \in Nat /\ MaxFaults \in Nat

VARIABLES
    version,   \* schema_version in _a2w_meta, 0 without a row
    objects,   \* the tables, columns and indexes of the database
    rows,      \* the rows of idempotency_keys
    targets,   \* targets[i]: the workflows that stored workflow i refers to
    readable,  \* the stored workflows whose JSON parses
    refs,      \* the rows of workflow_references
    pc,        \* "down", "booting" or "up"
    block,     \* the migration that runs (0: the base tables), and ...
    step,      \* ... its next statement
    filled,    \* the references the running backfill has dealt with
    skipped,   \* history: what a statement failed to make, unnoticed ...
    lost,      \* ... and the references a backfill failed to write
    crashes,
    faults

database == <<version, objects, rows, refs>>
vars == <<database, targets, readable, pc, block, step, filled, skipped, lost,
          crashes, faults>>

-----------------------------------------------------------------------------
(* The statements.  need: the columns a statement fails without.           *)

Create(o) == [do |-> "create", object |-> o, need |-> {}]
Index(o, columns) == [do |-> "create", object |-> o, need |-> columns]
AddColumn(o) == [do |-> "alter", object |-> o, need |-> {}]
Special(name) == [do |-> name, object |-> "none", need |-> {}]

Base == << Create("meta"), Create("workflows"), Create("runs"),
           Create("credentials"), Special("read_version") >>

ToV1 == << Create("keys"), Create("steps"), Create("steps_by_run"), Special("bump") >>

\* The columns and the primary key (workflow, key) of the new key table.
KeyColumns == {"keys.status", "keys.expires_at"}
NewKeys == KeyColumns \cup {"keys.primary_key"}

\* After the probe, on the old shape: two ALTERs, then one transaction that
\* copies the rows to a table of the new shape and renames it.
ToV2 == << Special("probe"), AddColumn("keys.status"),
           AddColumn("keys.expires_at"), Special("rebuild"),
           Create("approvals"), Create("approvals_by_status"),
           Create("approvals_by_run"), Special("bump") >>
AfterRebuild == 5

ToV3 == << AddColumn("runs.workflow_fingerprint"), Special("bump") >>
ToV4 == << AddColumn("steps.node_kind"), Special("bump") >>
ToV5 == << Create("references"), Create("references_by_target"),
           Index("keys_in_progress", {"keys.status"}), Special("backfill"),
           Special("bump") >>
ToV6 == << Create("skills"), Create("skills_by_score"), Special("bump") >>
ToV7 == << AddColumn("steps.external_calls"), AddColumn("steps.tokens"), Special("bump") >>

Latest == 7
Migrations == <<ToV1, ToV2, ToV3, ToV4, ToV5, ToV6, ToV7>>
Script(b) == IF b = 0 THEN Base ELSE Migrations[b]

Made(statements) ==
    {statements[i].object : i \in DOMAIN statements} \ {"none"}

\* The schema that version v promises.
Schema(v) == Made(Base) \cup (UNION {Made(Migrations[b]) : b \in 1..v})
                 \cup (IF v >= 2 THEN NewKeys ELSE {})

\* The references of the workflows that can be read.
References == {r \in Ids \X Ids : r[1] \in readable /\ r[2] \in targets[r[1]]}

Row == [key : Keys, workflow : Ids, status : {"none", "completed", "in_progress"}]

-----------------------------------------------------------------------------
\* A table of the old shape has one row per key, without a status, and one of
\* the new shape one per workflow and key.
RowsAt(v) ==
    {R \in SUBSET [key : Keys, workflow : Ids,
                   status : IF v < 2 THEN {"none"} ELSE {"completed", "in_progress"}] :
        /\ v = 0 => R = {}
        /\ \A q, r \in R : q.key = r.key /\ (v < 2 \/ q.workflow = r.workflow) => q = r}

\* A database that a server of schema version v left behind, or none yet.
Init ==
    /\ version \in 0..Latest
    /\ objects \in {Schema(version)} \cup (IF version = 0 THEN {{}} ELSE {})
    /\ rows \in RowsAt(version)
    /\ targets \in [Ids -> SUBSET Ids]
    /\ readable \in SUBSET Ids
    /\ refs = IF version >= 5 THEN References ELSE {}
    /\ pc = "down"
    /\ block = 0 /\ step = 1
    /\ filled = {}
    /\ skipped = {} /\ lost = {}
    /\ crashes = 0 /\ faults = 0

-----------------------------------------------------------------------------
At(kind) ==
    /\ pc = "booting"
    /\ Script(block)[step].do = kind

This == Script(block)[step]

Goto(b, s) == /\ block' = b
              /\ step' = s
              /\ UNCHANGED <<pc, targets, readable>>

Advance == Goto(block, step + 1)

\* A boot that ends, by an error or by a crash, leaves the database as it is.
Abandon ==
    /\ pc' = "down"
    /\ filled' = {}
    /\ UNCHANGED <<database, targets, readable, block, step, skipped, lost>>

Boot ==
    /\ pc = "down"
    /\ pc' = "booting"
    /\ block' = 0 /\ step' = 1
    /\ UNCHANGED <<database, targets, readable, filled, skipped, lost, crashes, faults>>

\* The last statement of the last migration was executed.
Open(b) ==
    /\ pc' = "up"
    /\ block' = b /\ step' = 1
    /\ UNCHANGED <<targets, readable>>

\* Mutant: there is always a next migration.
EnterNext(b) == Goto(b + 1, 1)

\* Migration b + 1 is the next one, if there is one.
Enter(b) == IF b = Latest THEN Open(b) ELSE Goto(b + 1, 1)

ReadVersion ==
    /\ At("read_version")
    /\ Enter(version)
    /\ UNCHANGED <<database, filled, skipped, lost, crashes, faults>>

\* Mutant: CREATE without IF NOT EXISTS.
CreateAnew ==
    /\ At("create")
    /\ This.need \subseteq objects
    /\ This.object \notin objects
    /\ objects' = objects \cup {This.object}
    /\ skipped' = skipped \ {This.object}
    /\ Advance
    /\ UNCHANGED <<version, rows, refs, filled, lost, crashes, faults>>

CreateObject ==
    /\ At("create")
    /\ This.need \subseteq objects
    /\ objects' = objects \cup {This.object}
    /\ skipped' = skipped \ {This.object}
    /\ Advance
    /\ UNCHANGED <<version, rows, refs, filled, lost, crashes, faults>>

\* An index on a column that is not there fails at every boot.
CreateRefused ==
    /\ At("create")
    /\ ~ This.need \subseteq objects
    /\ Abandon
    /\ UNCHANGED <<crashes, faults>>

\* To add a column that exists fails, and the failure is ignored.  The rows of
\* a key table without statuses are completed ones.
AlterTable ==
    /\ At("alter")
    /\ objects' = objects \cup {This.object}
    /\ skipped' = skipped \ {This.object}
    /\ rows' = IF This.object = "keys.status" /\ This.object \notin objects
               THEN {[r EXCEPT !.status = "completed"] : r \in rows}
               ELSE rows
    /\ Advance
    /\ UNCHANGED <<version, refs, filled, lost, crashes, faults>>

\* Mutant: a table with the new columns is taken for one of the new shape.
ProbeColumns ==
    /\ At("probe")
    /\ IF KeyColumns \subseteq objects THEN Goto(block, AfterRebuild) ELSE Advance
    /\ UNCHANGED <<database, filled, skipped, lost, crashes, faults>>

\* Only a table keyed by the key alone is rebuilt.
Probe ==
    /\ At("probe")
    /\ IF "keys.primary_key" \in objects THEN Goto(block, AfterRebuild) ELSE Advance
    /\ UNCHANGED <<database, filled, skipped, lost, crashes, faults>>

\* Mutant: the old table is dropped before it is copied.
CopiedAfterDrop == {}

\* INSERT OR IGNORE ... SELECT: what the new table holds of the old one.
Copied == {r \in rows : \A q \in rows :
              q.key = r.key /\ q.workflow = r.workflow => q = r}

\* The transaction: it copies, drops and renames, or has no effect.
Rebuild ==
    /\ At("rebuild")
    /\ KeyColumns \subseteq objects
    /\ rows' = Copied
    /\ objects' = objects \cup {"keys.primary_key"}
    /\ skipped' = skipped \ NewKeys
    /\ Advance
    /\ UNCHANGED <<version, refs, filled, lost, crashes, faults>>

\* Its SELECT names columns that an unnoticed failure may have left out.
RebuildRefused ==
    /\ At("rebuild")
    /\ ~ KeyColumns \subseteq objects
    /\ Abandon
    /\ UNCHANGED <<crashes, faults>>

\* One row of the inverse index, in a statement of its own.
BackfillRow(r) ==
    /\ At("backfill")
    /\ r \in References \ filled
    /\ refs' = refs \cup {r}
    /\ filled' = filled \cup {r}
    /\ lost' = lost \ {r}
    /\ UNCHANGED <<version, objects, rows, targets, readable, pc, block, step,
                   skipped, crashes, faults>>

\* Mutant: the boot does not wait for the backfill.
BackfillUnawaited ==
    /\ At("backfill")
    /\ filled' = {}
    /\ Advance
    /\ UNCHANGED <<database, skipped, lost, crashes, faults>>

BackfillDone ==
    /\ At("backfill")
    /\ References \subseteq filled
    /\ filled' = {}
    /\ Advance
    /\ UNCHANGED <<database, skipped, lost, crashes, faults>>

SetVersion ==
    /\ At("bump")
    /\ version' = block
    /\ Enter(block)
    /\ UNCHANGED <<objects, rows, refs, filled, skipped, lost, crashes, faults>>

-----------------------------------------------------------------------------
(* What goes wrong.                                                        *)

Fault ==
    /\ pc = "booting"
    /\ faults < MaxFaults
    /\ faults' = faults + 1
    /\ UNCHANGED crashes

\* The ? operator: the boot fails.
StatementFails ==
    /\ Fault
    /\ This.do \notin {"alter", "probe"}
    /\ Abandon

\* let _ = ALTER TABLE ...
AlterFails ==
    /\ Fault
    /\ At("alter")
    /\ skipped' = skipped \cup ({This.object} \ objects)
    /\ Advance
    /\ UNCHANGED <<database, filled, lost>>

\* Without an answer to the probe the table is taken for one of the new shape.
ProbeFails ==
    /\ Fault
    /\ At("probe")
    /\ skipped' = skipped \cup (NewKeys \ objects)
    /\ Goto(block, AfterRebuild)
    /\ UNCHANGED <<database, filled, lost>>

BackfillRowFails(r) ==
    /\ Fault
    /\ At("backfill")
    /\ r \in References \ filled
    /\ filled' = filled \cup {r}
    /\ lost' = lost \cup ({r} \ refs)
    /\ UNCHANGED <<database, targets, readable, pc, block, step, skipped>>

\* The process dies, between two statements or in a transaction.
Crash ==
    /\ pc = "booting"
    /\ crashes < MaxCrashes
    /\ crashes' = crashes + 1
    /\ Abandon
    /\ UNCHANGED faults

-----------------------------------------------------------------------------
Statement ==
    \/ ReadVersion
    \/ CreateObject
    \/ CreateRefused
    \/ AlterTable
    \/ Probe
    \/ Rebuild
    \/ RebuildRefused
    \/ \E r \in Ids \X Ids : BackfillRow(r)
    \/ BackfillDone
    \/ SetVersion

Next ==
    \/ Boot
    \/ Statement
    \/ StatementFails
    \/ AlterFails
    \/ ProbeFails
    \/ \E r \in Ids \X Ids : BackfillRowFails(r)
    \/ Crash

\* A server that is down is started again, and a boot goes on.
Fairness == WF_vars(Boot) /\ WF_vars(Statement)

Spec == Init /\ [][Next]_vars /\ Fairness

-----------------------------------------------------------------------------
\* The type invariant.
TypeOK ==
    /\ version \in 0..Latest
    /\ objects \subseteq Schema(Latest)
    /\ rows \subseteq Row
    /\ targets \in [Ids -> SUBSET Ids]
    /\ readable \subseteq Ids
    /\ refs \subseteq Ids \X Ids
    /\ pc \in {"down", "booting", "up"}
    /\ block \in 0..Latest
    /\ step \in 1..Len(Script(block))
    /\ filled \subseteq Ids \X Ids
    /\ skipped \subseteq Schema(Latest)
    /\ lost \subseteq Ids \X Ids
    /\ crashes \in 0..MaxCrashes
    /\ faults \in 0..MaxFaults

\* Wherever a boot was interrupted, the version in the database is never ahead
\* of the schema, but for what failed unnoticed: only the failures that
\* run_migrations ignores can leave a table, a column or an index out for ever.
SchemaAtVersion ==
    version > 0 => Schema(version) \ objects \subseteq skipped

\* A server that accepts requests has the whole inverse index of the workflows
\* it can read, but for the rows whose insertion failed unnoticed.
IndexBackfilled ==
    pc = "up" => References \ refs \subseteq lost

\* A migration loses no idempotency key, completed or in progress, and takes
\* none for anything but what it was: a retry after an upgrade is recognised.
KeysKept ==
    [][\A r \in rows : \E s \in rows' :
          /\ s.key = r.key /\ s.workflow = r.workflow
          /\ s.status \in IF r.status = "none" THEN {"none", "completed"}
                                               ELSE {r.status}]_vars

\* However often it is interrupted, the server comes up in the end, unless the
\* probe for the old key table failed unnoticed.
ComesUp == <>(pc = "up" \/ "keys.primary_key" \in skipped)

\* After any history of interrupted boots the database is one of the version that it
\* says, and whoever is served by it sees every reference.
SchemaSound == TypeOK /\ SchemaAtVersion /\ IndexBackfilled
=============================================================================
