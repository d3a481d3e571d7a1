-------------------------- MODULE MigrationsProofs --------------------------
(***************************************************************************)
(* Proofs about opening the store, for any workflows and keys and any      *)
(* number of crashes and failed statements: the version in the database is *)
(* never ahead of its schema, a server that is up has the whole inverse    *)
(* index, and no idempotency key is lost.                                  *)
(*                                                                         *)
(* The statements are those of the code, so the proofs first read off the  *)
(* scripts what the steps need to know of them: which statement makes what *)
(* and which one is the last.                                              *)
(***************************************************************************)
EXTENDS Migrations, TLAPS

-----------------------------------------------------------------------------
(* The inductive invariant. *)

\* What a boot has dealt with: what is there, or was left out unnoticed.
Settled == objects \cup skipped

\* What the statements of a script before statement s make.
Before(b, s) == {Script(b)[i].object : i \in 1..(s - 1)} \ {"none"}

\* A boot runs its statements in order, the migrations above the version that
\* the database had when it read it, and a server is up after the last one.
BootInv ==
    /\ pc \in {"booting", "up"} /\ block > 0 =>
          version = IF pc = "up" THEN block ELSE block - 1
    /\ pc = "up" => block = Latest
    /\ pc = "booting" => Before(block, step) \subseteq Settled
    /\ pc = "booting" /\ block > 0 => Schema(block - 1) \subseteq Settled

\* The version is never ahead of the schema, and the new key table is complete.
VersionInv ==
    /\ version > 0 => Schema(version) \subseteq Settled
    /\ "keys.primary_key" \in objects => KeyColumns \subseteq objects
    /\ pc = "booting" /\ block = 2 /\ step >= AfterRebuild => NewKeys \subseteq Settled

\* The running backfill has written what it has dealt with, but for what is lost,
\* and once it is through it has dealt with everything.
BackfillInv ==
    /\ filled \ refs \subseteq lost
    /\ version >= 5 => References \ refs \subseteq lost
    /\ pc = "booting" /\ block = 5 /\ step = Len(Script(5)) => References \ refs \subseteq lost

\* Rows without statuses have no status, and no two rows are of one workflow and key.
RowsInv ==
    /\ "keys.status" \notin objects => \A r \in rows : r.status = "none"
    /\ \A q, r \in rows : q.key = r.key /\ q.workflow = r.workflow => q = r

MigrationsInv == TypeOK /\ BootInv /\ VersionInv /\ BackfillInv /\ RowsInv

-----------------------------------------------------------------------------
(* What the scripts say. *)

Making == {"create", "alter"}
Working == {"create", "alter", "probe", "rebuild", "backfill"}

\* A statement makes something or is one of a kind, and every script ends with
\* the version, read or written.
LEMMA Statements ==
    ASSUME NEW b \in 0..Latest, NEW s \in 1..Len(Script(b))
    PROVE  LET do == Script(b)[s].do
               made == Script(b)[s].object
           IN  /\ do \in Working \cup {"read_version", "bump"}
               /\ do \in Working <=> s # Len(Script(b))
               /\ do = "read_version" => b = 0
               /\ do = "bump" => b > 0
               /\ do = "probe" => b = 2 /\ s = 1
               /\ do = "rebuild" => b = 2 /\ s = 4
               /\ do = "backfill" => b = 5 /\ s = 4
               /\ do \notin Making => made = "none"
               /\ do \in Making => made \notin {"none", "keys.primary_key"}
<1> USE DEF Script, Migrations, Create, AddColumn, Special, Index, Latest, Making, Working
<1>1. CASE b = 0
      BY <1>1 DEF Base
<1>2. CASE b = 1
      BY <1>2 DEF ToV1
<1>3. CASE b = 2
      BY <1>3 DEF ToV2
<1>4. CASE b = 3
      BY <1>4 DEF ToV3
<1>5. CASE b = 4
      BY <1>5 DEF ToV4
<1>6. CASE b = 5
      BY <1>6 DEF ToV5
<1>7. CASE b = 6
      BY <1>7 DEF ToV6
<1>8. CASE b = 7
      BY <1>8 DEF ToV7
<1>9. QED
      BY <1>1, <1>2, <1>3, <1>4, <1>5, <1>6, <1>7, <1>8

LEMMA ScriptEnds ==
    ASSUME NEW b \in 0..Latest
    PROVE  Len(Script(b)) \in Nat /\ DOMAIN Script(b) = 1..Len(Script(b)) /\ Len(Script(b)) > 0
<1> USE DEF Script, Migrations, Latest
<1>1. CASE b = 0
      BY <1>1 DEF Base
<1>2. CASE b = 1
      BY <1>2 DEF ToV1
<1>3. CASE b = 2
      BY <1>3 DEF ToV2
<1>4. CASE b = 3
      BY <1>4 DEF ToV3
<1>5. CASE b = 4
      BY <1>5 DEF ToV4
<1>6. CASE b = 5
      BY <1>6 DEF ToV5
<1>7. CASE b = 6
      BY <1>7 DEF ToV6
<1>8. CASE b = 7
      BY <1>8 DEF ToV7
<1>9. QED
      BY <1>1, <1>2, <1>3, <1>4, <1>5, <1>6, <1>7, <1>8

\* The key table is rebuilt after its columns were added, and the index filled
\* before the last statement of its migration.
LEMMA ScriptLengths ==
    /\ Len(Script(2)) = 8 /\ Script(2)[4].do = "rebuild"
    /\ Len(Script(5)) = 5 /\ Script(5)[4].do = "backfill"
BY DEF Script, Migrations, ToV2, ToV5, Special

LEMMA BeforeRebuild == Before(2, AfterRebuild) \subseteq KeyColumns
BY DEF Before, AfterRebuild, Script, Migrations, ToV2, AddColumn, Special, KeyColumns

\* A version promises what the version before it did, and what its migration makes.
LEMMA SchemaGrows ==
    ASSUME NEW v \in 1..Latest
    PROVE  Schema(v) = Schema(v - 1) \cup Made(Script(v)) \cup (IF v = 2 THEN NewKeys ELSE {})
<1> DEFINE Of(n) == UNION {Made(Migrations[b]) : b \in 1..n}
<1>1. 1..v = (1..(v - 1)) \cup {v}
      BY DEF Latest
<1>2. Of(v) = Of(v - 1) \cup Made(Migrations[v])
      BY <1>1, Zenon
<1>3. Script(v) = Migrations[v]
      BY DEF Script, Latest
<1>4. (IF v >= 2 THEN NewKeys ELSE {})
          = (IF v - 1 >= 2 THEN NewKeys ELSE {}) \cup (IF v = 2 THEN NewKeys ELSE {})
      BY DEF Latest
<1>5. Schema(v) = Made(Base) \cup Of(v) \cup (IF v >= 2 THEN NewKeys ELSE {})
      BY Zenon DEF Schema
<1>6. Schema(v - 1) = Made(Base) \cup Of(v - 1) \cup (IF v - 1 >= 2 THEN NewKeys ELSE {})
      BY Zenon DEF Schema
<1> HIDE DEF Of
<1>7. QED
      BY <1>2, <1>3, <1>4, <1>5, <1>6, Zenon

LEMMA SchemaZero == Schema(0) = Made(Script(0))
<1>1. 1..0 = {}
      OBVIOUS
<1>2. UNION {Made(Migrations[b]) : b \in 1..0} = {}
      BY <1>1
<1>3. QED
      BY <1>2 DEF Schema, Script

\* Every version's schema is a part of the latest one.
LEMMA SchemaOfLatest ==
    ASSUME NEW v \in 0..Latest
    PROVE  /\ Schema(v) \subseteq Schema(Latest)
           /\ Made(Script(v)) \subseteq Schema(Latest)
           /\ NewKeys \subseteq Schema(Latest)
<1>1. Made(Script(v)) \subseteq Schema(v)
      <2>1. CASE v = 0
            BY <2>1, SchemaZero
      <2>2. CASE v # 0
            BY <2>2, SchemaGrows DEF Latest
      <2>3. QED
            BY <2>1, <2>2
<1>2. Schema(v) \subseteq Schema(Latest)
      BY DEF Schema, Latest
<1>3. NewKeys \subseteq Schema(Latest)
      <2>1. Latest >= 2
            BY DEF Latest
      <2>2. QED
            BY <2>1, Zenon DEF Schema
<1>4. QED
      BY <1>1, <1>2, <1>3

\* What the statements before s make, statement by statement.
LEMMA BeforeFirst ==
    ASSUME NEW b \in 0..Latest PROVE Before(b, 1) = {}
BY DEF Before

LEMMA BeforeNext ==
    ASSUME NEW b \in 0..Latest, NEW s \in 1..Len(Script(b))
    PROVE  Before(b, s + 1) = Before(b, s) \cup ({Script(b)[s].object} \ {"none"})
<1>1. 1..((s + 1) - 1) = (1..(s - 1)) \cup {s}
      BY ScriptEnds
<1>2. QED
      BY <1>1, Zenon DEF Before

LEMMA BeforeAll ==
    ASSUME NEW b \in 0..Latest
    PROVE  Before(b, Len(Script(b))) = Made(Script(b))
<1> DEFINE n == Len(Script(b))
<1>1. n \in Nat /\ n > 0 /\ DOMAIN Script(b) = 1..n
      BY ScriptEnds
<1>2. Before(b, n + 1) = Made(Script(b))
      <2>1. (n + 1) - 1 = n
            BY <1>1
      <2>2. QED
            BY <1>1, <2>1 DEF Before, Made
<1>3. Script(b)[n].object = "none"
      BY <1>1, Statements DEF Making, Working
<1>4. Before(b, n + 1) = Before(b, n) \cup ({Script(b)[n].object} \ {"none"})
      <2>1. n \in 1..Len(Script(b))
            BY <1>1
      <2>2. QED
            BY <2>1, BeforeNext, Zenon
<1>5. QED
      BY <1>2, <1>3, <1>4

LEMMA MadeIsPromised ==
    ASSUME NEW b \in 0..Latest, NEW s \in 1..Len(Script(b)), Script(b)[s].do \in Making
    PROVE  Script(b)[s].object \in Schema(Latest)
<1>1. Script(b)[s].object \in Made(Script(b))
      BY Statements, ScriptEnds DEF Made
<1>2. QED
      BY <1>1, SchemaOfLatest

-----------------------------------------------------------------------------
(* The moves of a boot, as far as the schema is concerned. *)

Doing(kinds) == pc = "booting" /\ This.do \in kinds

\* Nothing moves, ...
Stays == UNCHANGED <<pc, block, step, version>>
\* ... the boot ends, by an error or a crash, ...
Ends == pc = "booting" /\ pc' = "down" /\ UNCHANGED <<block, step, version>>
\* ... a new one begins, ...
Begins == pc = "down" /\ pc' = "booting" /\ block' = 0 /\ step' = 1 /\ UNCHANGED version
\* ... it goes on with the next statement, ...
Advances ==
    /\ Doing(Working) /\ UNCHANGED <<pc, block, version>> /\ step' = step + 1
    /\ {This.object} \ {"none"} \subseteq Settled'
    /\ Doing({"rebuild"}) => NewKeys \subseteq Settled'
    /\ Doing({"backfill"}) => References \subseteq filled
\* ... leaves out what a key table of the new shape does not need, ...
Jumps ==
    /\ Doing({"probe"}) /\ UNCHANGED <<pc, block, version>> /\ step' = AfterRebuild
    /\ NewKeys \subseteq Settled'
\* ... or goes on with the migration above the version.
Enters ==
    /\ Doing({"read_version", "bump"})
    /\ version' = (IF This.do = "bump" THEN block ELSE version)
    /\ IF version' = Latest THEN pc' = "up" /\ block' = version' /\ step' = 1
       ELSE pc' = pc /\ block' = version' + 1 /\ step' = 1

\* What a statement settles stays so.
LEMMA SettledStep ==
    ASSUME [Next]_vars
    PROVE  objects \subseteq objects' /\ Settled \subseteq Settled'
<1> USE DEF database, Settled
<1>1. CASE UNCHANGED vars \/ Boot \/ StatementFails \/ Crash \/ AlterFails \/ ProbeFails
      BY <1>1 DEF vars, Boot, StatementFails, Crash, Abandon, AlterFails, ProbeFails
<1>2. CASE ReadVersion \/ CreateRefused \/ Probe \/ RebuildRefused \/ BackfillDone \/ SetVersion
      BY <1>2 DEF ReadVersion, CreateRefused, Probe, RebuildRefused, Abandon, BackfillDone,
                  SetVersion
<1>3. CASE CreateObject \/ AlterTable
      BY <1>3 DEF CreateObject, AlterTable
<1>4. CASE Rebuild
      BY <1>4 DEF Rebuild, NewKeys
<1>5. CASE \E r \in Ids \X Ids : BackfillRow(r) \/ BackfillRowFails(r)
      BY <1>5 DEF BackfillRow, BackfillRowFails
<1>6. QED
      BY <1>1, <1>2, <1>3, <1>4, <1>5 DEF Next, Statement

LEMMA MovesOnly ==
    ASSUME TypeOK, VersionInv, [Next]_vars
    PROVE  Stays \/ Ends \/ Begins \/ Advances \/ Jumps \/ Enters
<1> USE DEF At, This, Doing, Working, Settled, database, vars, Abandon, Advance, Goto, Fault
<1>1. CASE UNCHANGED vars \/ (\E r \in Ids \X Ids : BackfillRow(r) \/ BackfillRowFails(r))
      BY <1>1 DEF Stays, BackfillRow, BackfillRowFails
<1>2. CASE Boot
      BY <1>2 DEF Boot, Begins
<1>3. CASE CreateRefused \/ RebuildRefused \/ StatementFails \/ Crash
      BY <1>3 DEF CreateRefused, RebuildRefused, StatementFails, Crash, Ends
<1>4. CASE CreateObject
      BY <1>4 DEF CreateObject, Advances
<1>5. CASE AlterTable
      BY <1>5 DEF AlterTable, Advances
<1>6. CASE AlterFails
      BY <1>6 DEF AlterFails, Advances
<1>7. CASE Rebuild
      <2>1. This.object = "none"
            BY <1>7, Statements DEF Rebuild, TypeOK, Making
      <2>2. NewKeys \subseteq Settled'
            BY <1>7 DEF Rebuild, NewKeys
      <2>3. QED
            BY <1>7, <2>1, <2>2 DEF Rebuild, Advances
<1>8. CASE BackfillDone
      <2>1. This.object = "none"
            BY <1>8, Statements DEF BackfillDone, TypeOK, Making
      <2>2. QED
            BY <1>8, <2>1 DEF BackfillDone, Advances
<1>9. CASE Probe
      <2>1. This.object = "none"
            BY <1>9, Statements DEF Probe, TypeOK, Making
      <2>2. CASE "keys.primary_key" \in objects
            BY <1>9, <2>2 DEF Probe, Jumps, VersionInv, NewKeys
      <2>3. CASE "keys.primary_key" \notin objects
            BY <1>9, <2>1, <2>3 DEF Probe, Advances
      <2>4. QED
            BY <2>2, <2>3
<1>10. CASE ProbeFails
      BY <1>10 DEF ProbeFails, Jumps
<1>11. CASE ReadVersion
      BY <1>11 DEF ReadVersion, Enter, Open, Enters
<1>12. CASE SetVersion
      BY <1>12 DEF SetVersion, Enter, Open, Enters
<1>13. QED
      BY <1>1, <1>2, <1>3, <1>4, <1>5, <1>6, <1>7, <1>8, <1>9, <1>10, <1>11, <1>12
      DEF Next, Statement

-----------------------------------------------------------------------------
(* The boot and the version. *)

\* The version that a boot goes on from, or writes, is one whose schema is settled.
LEMMA EntersNext ==
    ASSUME TypeOK, BootInv, VersionInv, Enters
    PROVE  Schema(version') \subseteq Settled
<1> USE DEF Doing
<1>1. /\ This.do = "read_version" => block = 0
      /\ This.do = "bump" => block > 0
      /\ step = Len(Script(block))
      BY Statements DEF Enters, TypeOK, This, Working
<1>2. Made(Script(block)) \subseteq Settled
      BY <1>1, BeforeAll DEF Enters, BootInv, TypeOK
<1>3. CASE block = 0
      <2>1. version' = version
            BY <1>1, <1>3 DEF Enters
      <2>2. version > 0 => Schema(version) \subseteq Settled
            BY DEF VersionInv
      <2>3. version = 0 => Schema(version) \subseteq Settled
            BY <1>2, <1>3, SchemaZero
      <2>4. QED
            BY <2>1, <2>2, <2>3 DEF TypeOK
<1>4. CASE block # 0
      <2>1. version' = block /\ block \in 1..Latest
            BY <1>1, <1>4 DEF Enters, TypeOK
      <2>2. Schema(block - 1) \subseteq Settled
            BY <2>1 DEF Enters, BootInv, Latest
      <2>3. ASSUME block = 2 PROVE NewKeys \subseteq Settled
            <3>1. Script(block) = Script(2)
                  BY <2>3
            <3>2. step = 8
                  BY <1>1, <3>1, ScriptLengths
            <3>3. QED
                  BY <2>3, <3>2 DEF Enters, VersionInv, AfterRebuild
      <2>4. QED
            BY <1>2, <2>1, <2>2, <2>3, SchemaGrows
<1>5. QED
      BY <1>3, <1>4

LEMMA BootStep ==
    ASSUME TypeOK, BootInv, VersionInv, [Next]_vars
    PROVE  BootInv'
<1>0. Stays \/ Ends \/ Begins \/ Advances \/ Jumps \/ Enters
      BY MovesOnly
<1>1. Settled \subseteq Settled'
      BY SettledStep
<1> USE DEF Doing
<1>2. CASE Stays
      BY <1>1, <1>2 DEF Stays, BootInv, Before
<1>3. CASE Ends
      BY <1>3 DEF Ends, BootInv
<1>4. CASE Begins
      BY <1>4, BeforeFirst DEF Begins, BootInv, Latest
<1>5. CASE Advances
      <2>1. Before(block, step + 1) = Before(block, step) \cup ({This.object} \ {"none"})
            BY BeforeNext DEF TypeOK, This
      <2>2. Before(block', step') \subseteq Settled'
            BY <1>1, <1>5, <2>1 DEF Advances, BootInv
      <2>3. QED
            BY <1>1, <1>5, <2>2 DEF Advances, BootInv
<1>6. CASE Jumps
      <2>1. block = 2
            BY <1>6, Statements DEF Jumps, TypeOK, This
      <2>2. Before(block', step') \subseteq Settled'
            BY <1>6, <2>1, BeforeRebuild DEF Jumps, NewKeys
      <2>3. QED
            BY <1>1, <1>6, <2>2 DEF Jumps, BootInv
<1>7. CASE Enters
      <2>3. Schema(version') \subseteq Settled
            BY <1>7, EntersNext
      <2>4. version' \in 0..Latest
            BY <1>7 DEF Enters, TypeOK
      <2>5. CASE version' = Latest
            BY <1>7, <2>4, <2>5 DEF Enters, BootInv, Latest
      <2>6. CASE version' # Latest
            <3>1. block' \in 1..Latest /\ block' - 1 = version' /\ step' = 1 /\ pc' = "booting"
                  BY <1>7, <2>4, <2>6 DEF Enters, Latest
            <3>2. Before(block', step') = {}
                  BY <3>1, BeforeFirst DEF Latest
            <3>3. QED
                  BY <1>1, <2>3, <3>1, <3>2 DEF BootInv
      <2>7. QED
            BY <2>5, <2>6
<1>8. QED
      BY <1>0, <1>2, <1>3, <1>4, <1>5, <1>6, <1>7

LEMMA VersionStep ==
    ASSUME TypeOK, BootInv, VersionInv, [Next]_vars
    PROVE  VersionInv'
<1>0. Stays \/ Ends \/ Begins \/ Advances \/ Jumps \/ Enters
      BY MovesOnly
<1>1. objects \subseteq objects' /\ Settled \subseteq Settled'
      BY SettledStep
<1>2. version' > 0 => Schema(version') \subseteq Settled'
      <2>1. CASE Enters
            BY <1>1, <2>1, EntersNext
      <2>2. CASE ~Enters
            <3>1. version' = version
                  BY <1>0, <2>2 DEF Stays, Ends, Begins, Advances, Jumps
            <3>2. QED
                  BY <1>1, <3>1 DEF VersionInv
      <2>3. QED
            BY <2>1, <2>2
<1>3. "keys.primary_key" \in objects' => KeyColumns \subseteq objects'
      <2>1. CASE Rebuild
            BY <2>1 DEF Rebuild, VersionInv
      <2>2. CASE ~Rebuild
            <3>1. This.do \in Making /\ pc = "booting" => This.object # "keys.primary_key"
                  BY Statements DEF TypeOK, This
            <3>2. "keys.primary_key" \in objects' => "keys.primary_key" \in objects
                  BY <2>2, <3>1 DEF Next, vars, database, Statement, Boot, ReadVersion, CreateObject,
                     CreateRefused, AlterTable, Probe, RebuildRefused, BackfillRow, BackfillDone,
                     SetVersion, StatementFails, AlterFails, ProbeFails, BackfillRowFails, Crash,
                     Abandon, At, This, Making
            <3>3. QED
                  BY <1>1, <3>2 DEF VersionInv
      <2>3. QED
            BY <2>1, <2>2
<1>4. pc' = "booting" /\ block' = 2 /\ step' >= AfterRebuild => NewKeys \subseteq Settled'
      <2> USE DEF AfterRebuild
      <2>1. CASE Advances
            <3>1. ASSUME block = 2, step = 4 PROVE NewKeys \subseteq Settled'
                  <4>1. This.do = "rebuild"
                        BY <3>1, ScriptLengths DEF This
                  <4>2. QED
                        BY <2>1, <4>1 DEF Advances, Doing
            <3>2. QED
                  BY <1>1, <2>1, <3>1 DEF Advances, Doing, VersionInv, TypeOK
      <2>2. CASE Jumps
            BY <2>2 DEF Jumps
      <2>3. CASE Stays \/ Ends \/ Begins \/ Enters
            BY <1>1, <2>3 DEF Stays, Ends, Begins, Enters, VersionInv
      <2>4. QED
            BY <1>0, <2>1, <2>2, <2>3
<1>5. QED
      BY <1>2, <1>3, <1>4 DEF VersionInv

-----------------------------------------------------------------------------
(* The inverse index and the keys. *)

\* What the index holds or has lost it never loses.
LEMMA IndexStep ==
    ASSUME BackfillInv, [Next]_vars
    PROVE  /\ References' = References
           /\ filled' \ refs' \subseteq lost'
           /\ References \ refs \subseteq lost => References' \ refs' \subseteq lost'
<1>1. References' = References
      <2>1. UNCHANGED <<targets, readable>>
            BY DEF Next, vars, Statement, Boot, ReadVersion, CreateObject, CreateRefused, AlterTable,
               Probe, Rebuild, RebuildRefused, BackfillRow, BackfillDone, SetVersion,
               StatementFails, AlterFails, ProbeFails, BackfillRowFails, Crash, Abandon,
               Advance, Goto, Enter, Open
      <2>2. QED
            BY <2>1 DEF References
<1>2. \/ UNCHANGED <<refs, lost>> /\ filled' \in {filled, {}}
      \/ \E r \in Ids \X Ids : BackfillRow(r) \/ BackfillRowFails(r)
      BY DEF Next, vars, database, Statement, Boot, ReadVersion, CreateObject, CreateRefused,
         AlterTable, Probe, Rebuild, RebuildRefused, BackfillDone, SetVersion,
         StatementFails, AlterFails, ProbeFails, Crash, Abandon
<1>3. CASE UNCHANGED <<refs, lost>> /\ filled' \in {filled, {}}
      BY <1>1, <1>3 DEF BackfillInv
<1>4. CASE \E r \in Ids \X Ids : BackfillRow(r) \/ BackfillRowFails(r)
      BY <1>1, <1>4 DEF BackfillInv, BackfillRow, BackfillRowFails, database
<1>5. QED
      BY <1>2, <1>3, <1>4

LEMMA BackfillStep ==
    ASSUME TypeOK, BootInv, VersionInv, BackfillInv, [Next]_vars
    PROVE  BackfillInv'
<1>0. Stays \/ Ends \/ Begins \/ Advances \/ Jumps \/ Enters
      BY MovesOnly
<1> DEFINE Complete == References \ refs \subseteq lost
<1>1. filled' \ refs' \subseteq lost' /\ (Complete => Complete')
      BY IndexStep
<1>2. Len(Script(5)) = 5 /\ Script(5)[4].do = "backfill"
      BY ScriptLengths
<1>3. version' >= 5 => Complete'
      <2>1. CASE Enters
            <3>1. ASSUME This.do = "bump", block >= 5 PROVE Complete
                  <4>1. CASE block = 5
                        <5>1. Script(block) = Script(5)
                              BY <4>1
                        <5>2. step = Len(Script(5))
                              BY <3>1, <5>1, Statements DEF TypeOK, This, Working
                        <5>3. QED
                              BY <2>1, <4>1, <5>2 DEF Enters, Doing, BackfillInv
                  <4>2. CASE block > 5
                        BY <2>1, <3>1, <4>2 DEF Enters, Doing, BootInv, BackfillInv, TypeOK
                  <4>3. QED
                        BY <3>1, <4>1, <4>2 DEF TypeOK
            <3>2. QED
                  BY <1>1, <2>1, <3>1 DEF Enters, Doing, BackfillInv
      <2>2. CASE Stays \/ Ends \/ Begins \/ Advances \/ Jumps
            BY <1>1, <2>2 DEF Stays, Ends, Begins, Advances, Jumps, BackfillInv
      <2>3. QED
            BY <1>0, <2>1, <2>2
<1>4. pc' = "booting" /\ block' = 5 /\ step' = Len(Script(5)) => Complete'
      <2>1. CASE Advances
            <3>1. ASSUME block = 5, step = 4 PROVE Complete
                  <4>1. This.do = "backfill"
                        BY <1>2, <3>1 DEF This
                  <4>2. References \subseteq filled
                        BY <2>1, <4>1 DEF Advances, Doing
                  <4>3. QED
                        BY <4>2 DEF BackfillInv
            <3>2. QED
                  <4>1. step \in Nat /\ block' = block /\ step' = step + 1
                        BY <2>1, ScriptEnds DEF Advances, TypeOK
                  <4>2. step' = 5 => step = 4
                        BY <4>1
                  <4> HIDE DEF Complete
                  <4>3. QED
                        BY <1>1, <1>2, <3>1, <4>1, <4>2
      <2>2. CASE Stays \/ Ends \/ Begins \/ Enters \/ Jumps
            <3>1. Jumps => block = 2
                  BY Statements DEF Jumps, Doing, TypeOK, This
            <3>2. QED
                  BY <1>1, <1>2, <2>2, <3>1 DEF Stays, Ends, Begins, Enters, Jumps, BackfillInv
      <2>3. QED
            BY <1>0, <2>1, <2>2
<1>5. QED
      BY <1>1, <1>3, <1>4 DEF BackfillInv

\* The steps that touch the rows of the key table.
LEMMA RowsMove ==
    ASSUME [Next]_vars
    PROVE  AlterTable \/ Rebuild \/ rows' = rows
BY DEF Next, vars, database, Statement, Boot, ReadVersion, CreateObject, CreateRefused, Probe,
   RebuildRefused, BackfillRow, BackfillDone, SetVersion, StatementFails, AlterFails,
   ProbeFails, BackfillRowFails, Crash, Abandon

\* Nothing is copied twice, so nothing is left out.
LEMMA AllCopied == RowsInv => Copied = rows
BY DEF RowsInv, Copied

LEMMA RowsStep ==
    ASSUME TypeOK, RowsInv, [Next]_vars
    PROVE  /\ rows' \subseteq Row /\ RowsInv'
           /\ \A r \in rows : \E s \in rows' :
                 /\ s.key = r.key /\ s.workflow = r.workflow
                 /\ s.status \in IF r.status = "none" THEN {"none", "completed"}
                                                      ELSE {r.status}
<1>1. objects \subseteq objects'
      BY SettledStep
<1>2. rows \subseteq Row
      BY DEF TypeOK
<1> DEFINE Kept == \A r \in rows : \E s \in rows' :
                       /\ s.key = r.key /\ s.workflow = r.workflow
                       /\ s.status \in IF r.status = "none" THEN {"none", "completed"}
                                                            ELSE {r.status}
<1>3. ASSUME rows' = rows
      PROVE  rows' \subseteq Row /\ RowsInv' /\ Kept
      BY <1>1, <1>2, <1>3 DEF RowsInv
<1>4. CASE Rebuild
      BY <1>3, <1>4, AllCopied DEF Rebuild
<1>5. CASE AlterTable
      <2>1. CASE This.object = "keys.status" /\ "keys.status" \notin objects
            <3>1. rows' = {[r EXCEPT !.status = "completed"] : r \in rows}
                  BY <1>5, <2>1 DEF AlterTable
            <3>2. \A r \in rows : /\ r.status = "none"
                                  /\ r.key \in Keys /\ r.workflow \in Ids
                                  /\ [r EXCEPT !.status = "completed"]
                                        = [key |-> r.key, workflow |-> r.workflow, status |-> "completed"]
                  BY <1>2, <2>1 DEF RowsInv, Row
            <3>3. rows' = {[key |-> r.key, workflow |-> r.workflow, status |-> "completed"] : r \in rows}
                  <4> DEFINE f(r) == [r EXCEPT !.status = "completed"]
                             g(r) == [key |-> r.key, workflow |-> r.workflow, status |-> "completed"]
                  <4>1. \A r \in rows : f(r) = g(r)
                        BY <3>2
                  <4>2. rows' = {f(r) : r \in rows}
                        BY <3>1
                  <4> HIDE DEF f, g
                  <4>3. rows' = {g(r) : r \in rows}
                        BY <4>1, <4>2, Zenon
                  <4>4. QED
                        BY <4>3 DEF g
            <3>4. rows' \subseteq Row
                  <4>1. \A r \in rows : [key |-> r.key, workflow |-> r.workflow, status |-> "completed"]
                                        \in Row
                        BY <3>2 DEF Row
                  <4>2. QED
                        BY <3>3, <4>1, Zenon
            <3>5. \A q, r \in rows' : q.key = r.key /\ q.workflow = r.workflow => q = r
                  BY <3>3
            <3>6. "keys.status" \in objects'
                  BY <1>5, <2>1 DEF AlterTable
            <3>7. Kept
                  BY <3>2, <3>3
            <3>8. QED
                  BY <3>4, <3>5, <3>6, <3>7 DEF RowsInv
      <2>2. CASE ~(This.object = "keys.status" /\ "keys.status" \notin objects)
            BY <1>3, <1>5, <2>2 DEF AlterTable
      <2>3. QED
            BY <2>1, <2>2
<1>6. QED
      BY <1>3, <1>4, <1>5, RowsMove

-----------------------------------------------------------------------------
(* Types. *)

\* A boot stays within its scripts.
LEMMA PlaceStep ==
    ASSUME TypeOK, VersionInv, [Next]_vars
    PROVE  version' \in 0..Latest /\ block' \in 0..Latest /\ step' \in 1..Len(Script(block'))
<1>0. Stays \/ Ends \/ Begins \/ Advances \/ Jumps \/ Enters
      BY MovesOnly
<1> USE DEF Doing, TypeOK
<1>1. CASE Stays \/ Ends
      <2>1. block' = block /\ step' = step /\ version' = version
            BY <1>1 DEF Stays, Ends
      <2>2. QED
            BY <2>1
<1>2. CASE Begins
      BY <1>2, ScriptEnds DEF Begins, Latest
<1>3. CASE Advances
      <2>1. step # Len(Script(block))
            BY <1>3, Statements DEF Advances, This
      <2>2. block' = block /\ step' = step + 1 /\ version' = version
            BY <1>3 DEF Advances
      <2>3. Len(Script(block)) \in Nat
            BY ScriptEnds
      <2>4. QED
            BY <2>1, <2>2, <2>3
<1>4. CASE Jumps
      <2>1. block' = 2 /\ step' = 5 /\ version' = version
            BY <1>4, Statements DEF Jumps, This, AfterRebuild
      <2>2. QED
            BY <2>1, ScriptLengths DEF Latest
<1>5. CASE Enters
      <2>1. version' \in 0..Latest /\ block' \in 0..Latest /\ step' = 1
            BY <1>5 DEF Enters, Latest
      <2>2. QED
            BY <2>1, ScriptEnds
<1>6. QED
      BY <1>0, <1>1, <1>2, <1>3, <1>4, <1>5

LEMMA TypeStep ==
    ASSUME TypeOK, VersionInv, RowsInv, [Next]_vars
    PROVE  TypeOK'
<1>1. version' \in 0..Latest /\ block' \in 0..Latest /\ step' \in 1..Len(Script(block'))
      BY PlaceStep
<1>2. rows' \subseteq Row
      BY RowsStep
<1>3. NewKeys \subseteq Schema(Latest)
      BY SchemaOfLatest DEF Latest
<1>4. pc = "booting" /\ This.do \in Making => This.object \in Schema(Latest)
      BY MadeIsPromised DEF TypeOK, This
<1>5. References \subseteq Ids \X Ids
      BY DEF References
<1> USE <1>3, <1>4, <1>5, MigrationsAssumption DEF TypeOK, Next, vars, database, Statement, Boot,
       ReadVersion, CreateObject, CreateRefused, AlterTable, Probe, Rebuild, RebuildRefused,
       BackfillRow, BackfillDone, SetVersion, StatementFails, AlterFails, ProbeFails,
       BackfillRowFails, Crash, Fault, Abandon, Advance, Goto, Enter, Open, At, This, Making
<1>6. objects' \subseteq Schema(Latest)
      BY DEF NewKeys
<1>7. skipped' \subseteq Schema(Latest)
      OBVIOUS
<1>8. targets' = targets /\ readable' = readable /\ pc' \in {"down", "booting", "up"}
      OBVIOUS
<1>9. refs' \subseteq Ids \X Ids
      OBVIOUS
<1>10. filled' \subseteq Ids \X Ids /\ lost' \subseteq Ids \X Ids
      OBVIOUS
<1>11. crashes' \in 0..MaxCrashes /\ faults' \in 0..MaxFaults
      OBVIOUS
<1>12. QED
      BY ONLY TypeOK, <1>1, <1>2, <1>6, <1>7, <1>8, <1>9, <1>10, <1>11 DEF TypeOK

-----------------------------------------------------------------------------
\* A database that a server of some version left behind has all that it says.
LEMMA MigrationsInit == Init => MigrationsInv
<1> SUFFICES ASSUME Init PROVE MigrationsInv
    OBVIOUS
<1>1. objects \subseteq Schema(Latest) /\ (version > 0 => objects = Schema(version))
      BY SchemaOfLatest DEF Init
<1>2. version >= 2 => NewKeys \subseteq objects
      <2>1. version \in 0..Latest
            BY DEF Init
      <2>2. version >= 2 => NewKeys \subseteq Schema(version)
            BY DEF Schema
      <2>3. QED
            BY <1>1, <2>1, <2>2 DEF Latest
<1>3. TypeOK
      <2>1. rows \subseteq Row
            BY DEF Init, RowsAt, Row
      <2>2. step \in 1..Len(Script(block)) /\ block \in 0..Latest
            BY ScriptEnds DEF Init, Latest
      <2>3. refs \subseteq Ids \X Ids
            BY DEF Init, References
      <2>4. QED
            BY <1>1, <2>1, <2>2, <2>3, MigrationsAssumption DEF Init, TypeOK
<1>4. BootInv
      BY DEF Init, BootInv
<1>5. VersionInv
      <2>1. version < 2 => "keys.primary_key" \notin objects
            <3>1. Schema(0) = Made(Script(0))
                  BY SchemaZero
            <3>2. Schema(1) = Schema(0) \cup Made(Script(1))
                  BY SchemaGrows DEF Latest
            <3>3. \A b \in 0..Latest : "keys.primary_key" \notin Made(Script(b))
                  BY Statements, ScriptEnds DEF Made, Making
            <3>4. "keys.primary_key" \notin Schema(0) /\ "keys.primary_key" \notin Schema(1)
                  BY <3>1, <3>2, <3>3 DEF Latest
            <3>5. QED
                  BY <3>4 DEF Init
      <2>2. QED
            BY <1>1, <1>2, <2>1 DEF Init, VersionInv, NewKeys, Settled
<1>6. BackfillInv
      BY DEF Init, BackfillInv
<1>7. RowsInv
      <2>1. version < 2 => \A r \in rows : r.status = "none"
            BY DEF Init, RowsAt
      <2>2. version >= 2 => "keys.status" \in objects
            BY <1>2 DEF NewKeys, KeyColumns
      <2>3. \A q, r \in rows : q.key = r.key /\ q.workflow = r.workflow => q = r
            BY DEF Init, RowsAt
      <2>4. QED
            BY <2>1, <2>2, <2>3 DEF RowsInv, Init
<1>8. QED
      BY <1>3, <1>4, <1>5, <1>6, <1>7 DEF MigrationsInv

LEMMA MigrationsStep == MigrationsInv /\ [Next]_vars => MigrationsInv'
BY TypeStep, BootStep, VersionStep, BackfillStep, RowsStep DEF MigrationsInv

\* Boots, crashes and failed statements keep the invariant.
THEOREM MigrationsCorrect == Spec => []MigrationsInv
BY MigrationsInit, MigrationsStep, PTL DEF Spec

\* After any history of interrupted boots the database has the schema of its
\* version, but for what failed unnoticed, and a server that is up has every
\* reference in the index that it did not lose so.
THEOREM SchemaIsSound == Spec => []SchemaSound
<1>1. ASSUME MigrationsInv PROVE SchemaSound
      <2>1. TypeOK
            BY <1>1 DEF MigrationsInv
      <2>2. SchemaAtVersion
            BY <1>1 DEF MigrationsInv, VersionInv, SchemaAtVersion, Settled
      <2>3. IndexBackfilled
            BY <1>1 DEF MigrationsInv, BootInv, BackfillInv, IndexBackfilled, Latest
      <2>4. QED
            BY <2>1, <2>2, <2>3 DEF SchemaSound
<1>2. QED
      BY <1>1, MigrationsCorrect, PTL

\* No step of a migration, and no crash in one, loses an idempotency key or takes
\* it for anything but what it was.
THEOREM KeysNotLost == Spec => KeysKept
<1>1. MigrationsInv /\ [Next]_vars =>
          [\A r \in rows : \E s \in rows' :
              /\ s.key = r.key /\ s.workflow = r.workflow
              /\ s.status \in IF r.status = "none" THEN {"none", "completed"}
                                                   ELSE {r.status}]_vars
      BY RowsStep DEF MigrationsInv
<1>2. QED
      BY <1>1, MigrationsCorrect, PTL DEF Spec, KeysKept

=============================================================================
