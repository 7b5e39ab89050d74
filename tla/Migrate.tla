------------------------------- MODULE Migrate -------------------------------
(***************************************************************************)
(* gebweb migrate (src/cmd/gebweb/migrate.go): several runners, such as    *)
(* the instances of a deployment, apply and roll back the versioned files  *)
(* of one migrations directory against one database.                       *)
(*                                                                         *)
(* A runner reads the directory and the table of applied versions once,    *)
(* then works from what it read.  Each statement it sends and each of its  *)
(* transactions' ends is an action.  effect counts, for each file, how     *)
(* often its up block ran, less how often its down block did.              *)
(***************************************************************************)
EXTENDS Integers, Sequences, FiniteSets

CONSTANTS
  Runners,
  Deployed,     \* the runners that are run again and again
  Files,        \* migration files that may exist
  VersionOf,    \* the timestamp in the name of each
  Malformed,    \* files whose name is not <version>_<name>.sql
  Content,      \* the lines of each: "up" and "down" markers, "sql", "text"
  Strict,       \* files whose blocks fail when run twice, as CREATE TABLE does
  Targets,      \* values of --target; 0: none
  Steps,        \* values of --steps
  Schemes,      \* schemes of DATABASE_URL
  MaxDowns,     \* bound on the runs of down
  MaxFaults     \* bound on crashes and on failures of the database

ASSUME MigrateAssumption ==
  /\ Deployed \subseteq Runners
  /\ VersionOf \in [Files -> Nat \ {0}]
  /\ Content \in [Files -> Seq({"up", "down", "sql", "text"})]
  /\ Malformed \subseteq Files /\ Strict \subseteq Files
  /\ Targets \subseteq Nat /\ 0 \in Targets
  /\ Steps \subseteq Nat \ {0} /\ 1 \in Steps /\ IsFiniteSet(Files)
  /\ MaxDowns \in Nat /\ MaxFaults \in Nat

VARIABLES
  scheme,       \* of DATABASE_URL
  dir,          \* the files in ./migrations
  late,         \* of these, the ones whose version is below that of an older file
  schema,       \* does gebweb_schema_migrations exist?
  recorded,     \* its rows
  effect,       \* what the files' blocks have done to the database
  tx,           \* the open transaction: its runner and the file
  pc, cmd, target, steps,   \* a runner and its command line
  listed, applied,          \* what it read: the files, the versions
  done,                     \* the files it has been through
  code,                     \* the exit code of its last run
  mixed,        \* has a down run beside an up or another down?
  downs, faults

db     == <<schema, recorded, effect, tx>>
runner == <<pc, cmd, target, steps, listed, applied, done, code>>
vars   == <<scheme, dir, late, db, runner, mixed, downs, faults>>

Versions == {VersionOf[f] : f \in Files}

-----------------------------------------------------------------------------
(* Files and drivers.                                                      *)

\* splitUpDown: the lines after a marker, up to the other one.
Block(f, marker) ==
  {i \in DOMAIN Content[f] :
     /\ Content[f][i] \in {"sql", "text"}
     /\ \E h \in 1 .. i - 1 :
          /\ Content[f][h] = marker
          /\ \A k \in h + 1 .. i - 1 : Content[f][k] \notin {"up", "down"} \ {marker}}

Having == [c \in {"up", "down"} |-> {f \in Files : Block(f, c) # {}}]
HasBlock(c, f) == f \in Having[c]

\* A block of comments alone does nothing.
Acting ==
  [c \in {"up", "down"} |-> {f \in Files : \E i \in Block(f, c) : Content[f][i] = "sql"}]
Acts(c, f) == f \in Acting[c]

Driver ==
  CASE scheme = "sqlite" -> "sqlite"
    [] scheme \in {"postgres", "postgresql"} -> "pgx"
    [] scheme = "mysql" -> "mysql"
    [] OTHER -> "none"

\* MySQL has no primary key on a TEXT column without a length.
SchemaAccepted == Driver # "mysql"

\* The statements name their parameters with ?, which pgx does not take.
ParametersAccepted == Driver # "pgx"

Init ==
  /\ scheme \in Schemes
  /\ dir \in SUBSET Files /\ late = {}
  /\ schema = FALSE /\ recorded = {} /\ tx = {}
  /\ effect = [f \in Files |-> 0]
  /\ pc = [r \in Runners |-> "off"]
  /\ cmd = [r \in Runners |-> "up"]
  /\ target = [r \in Runners |-> 0] /\ steps = [r \in Runners |-> 1]
  /\ listed = [r \in Runners |-> {}] /\ applied = [r \in Runners |-> {}]
  /\ done = [r \in Runners |-> {}]
  /\ code = [r \in Runners |-> 0]
  /\ mixed = FALSE /\ downs = 0 /\ faults = 0

-----------------------------------------------------------------------------
(* Files arrive.                                                           *)

Arrive(f) ==
  /\ dir' = dir \cup {f}
  /\ late' = IF \E g \in dir : VersionOf[f] < VersionOf[g] THEN late \cup {f} ELSE late
  /\ UNCHANGED <<scheme, db, runner, mixed, downs, faults>>

\* migrate create: the version is the time in seconds, never below that of the
\* files made here before and equal to the last one's within a second.
Create(f) ==
  /\ f \notin dir \cup Malformed
  /\ \A g \in dir \ late : VersionOf[f] >= VersionOf[g]
  /\ Arrive(f)

\* A merge brings a file with any version; a malformed name is there from the start.
Merge(f) ==
  /\ f \notin dir \cup Malformed
  /\ \E g \in dir : VersionOf[f] < VersionOf[g]
  /\ Arrive(f)

-----------------------------------------------------------------------------
(* migrate status; what up and down have in common.                       *)

Goto(r, from, to) == pc[r] = from /\ pc' = [pc EXCEPT ![r] = to]

Working(cs) == {r \in Runners : pc[r] # "off" /\ cmd[r] \in cs}

\* The process ends; its variables are gone.
Exit(r, c) ==
  /\ pc'      = [pc EXCEPT ![r] = "off"]
  /\ code'    = [code EXCEPT ![r] = c]
  /\ listed'  = [listed EXCEPT ![r] = {}]
  /\ applied' = [applied EXCEPT ![r] = {}]
  /\ done'    = [done EXCEPT ![r] = {}]
  /\ cmd'     = [cmd EXCEPT ![r] = "up"]
  /\ target'  = [target EXCEPT ![r] = 0]
  /\ steps'   = [steps EXCEPT ![r] = 1]

Run(r, c, t, n) ==
  /\ Goto(r, "off", "open")
  /\ c = "down" => downs < MaxDowns
  /\ cmd'    = [cmd EXCEPT ![r] = c]
  /\ target' = [target EXCEPT ![r] = IF c = "up" THEN t ELSE 0]
  /\ steps'  = [steps EXCEPT ![r] = IF c = "down" THEN n ELSE 1]
  /\ downs'  = IF c = "down" THEN downs + 1 ELSE downs
  /\ mixed'  = \/ mixed
               \/ c = "up" /\ Working({"down"}) # {}
               \/ c = "down" /\ Working({"up", "down"}) # {}
  /\ code'   = [code EXCEPT ![r] = 0]
  /\ UNCHANGED <<scheme, dir, late, db, listed, applied, done, faults>>

Opens == Driver # "none" /\ SchemaAccepted

\* Apart from ensureSchemaTable it only reads, for what it prints.
Status(r) ==
  /\ pc[r] = "off"
  /\ code' = [code EXCEPT ![r] = IF Opens /\ dir \cap Malformed = {} THEN 0 ELSE 1]
  /\ schema' = (schema \/ Opens)
  /\ UNCHANGED <<scheme, dir, late, recorded, effect, tx, pc, cmd, target, steps,
                 listed, applied, done, mixed, downs, faults>>

\* openMigrationDB and ensureSchemaTable, which writes only the first time.
Open(r) ==
  /\ Opens
  /\ Goto(r, "open", "list")
  /\ schema' = TRUE
  /\ UNCHANGED <<scheme, dir, late, recorded, effect, tx, cmd, target, steps,
                 listed, applied, done, code, mixed, downs, faults>>

OpenFails(r) ==
  /\ pc[r] = "open"
  /\ ~Opens
  /\ Exit(r, 1)
  /\ UNCHANGED <<scheme, dir, late, db, mixed, downs, faults>>

\* loadMigrationFiles
List(r) ==
  /\ dir \cap Malformed = {}
  /\ Goto(r, "list", "read")
  /\ listed' = [listed EXCEPT ![r] = dir]
  /\ UNCHANGED <<scheme, dir, late, db, cmd, target, steps, applied, done, code,
                 mixed, downs, faults>>

ListFails(r) ==
  /\ pc[r] = "list"
  /\ dir \cap Malformed # {}
  /\ Exit(r, 1)
  /\ UNCHANGED <<scheme, dir, late, db, mixed, downs, faults>>

\* The rows of an open transaction are not seen.
LoadAppliedVersions(r) ==
  /\ Goto(r, "read", "loop")
  /\ applied' = [applied EXCEPT ![r] = recorded]
  /\ UNCHANGED <<scheme, dir, late, db, cmd, target, steps, listed, done, code,
                 mixed, downs, faults>>

-----------------------------------------------------------------------------
(* The loops of up and down.                                               *)

WithinTarget(r, f) == target[r] = 0 \/ VersionOf[f] <= target[r]

\* Bug: the loop ends at the first file that needs nothing.
WantedUntilApplied(r, f) ==
  IF cmd[r] = "up"
  THEN /\ WithinTarget(r, f)
       /\ \A g \in listed[r] : VersionOf[g] <= VersionOf[f]
                               => VersionOf[g] \notin applied[r]
  ELSE VersionOf[f] \in applied[r] /\ Cardinality(done[r]) < steps[r]

Wanted(r, f) ==
  IF cmd[r] = "up"
  THEN VersionOf[f] \notin applied[r] /\ WithinTarget(r, f)
  ELSE VersionOf[f] \in applied[r] /\ Cardinality(done[r]) < steps[r]

Pending(r) == {f \in listed[r] \ done[r] : Wanted(r, f)}

\* Bug: the files are taken in the order of the directory.
IsNextUnsorted(r, f) == f \in Pending(r)

\* Files of one version come in any order.
IsNext(r, f) ==
  /\ f \in Pending(r)
  /\ \A g \in Pending(r) : IF cmd[r] = "up" THEN VersionOf[f] <= VersionOf[g]
                                            ELSE VersionOf[f] >= VersionOf[g]

Delta(r, f) == IF ~Acts(cmd[r], f) THEN 0 ELSE IF cmd[r] = "up" THEN 1 ELSE -1

\* Does the block run, or does it fail on what is there already?
BlockRuns(r, f) ==
  f \in Strict => effect[f] + Delta(r, f) \in {0, 1}

\* Bug: the error is reported and the loop goes on.
StopAndGoOn(r, f) ==
  /\ pc' = [pc EXCEPT ![r] = "loop"]
  /\ done' = [done EXCEPT ![r] = @ \cup {f}]
  /\ UNCHANGED <<cmd, target, steps, listed, applied, code>>

\* Bug: the exit code of a usage error.
StopAsUsage(r, f) == Exit(r, 2)

Stop(r, f) == Exit(r, 1)

\* The file lacks the block, its block fails, or the database stays locked.
BlockFails(r, f) ==
  /\ pc[r] = "loop" /\ IsNext(r, f)
  /\ ~HasBlock(cmd[r], f) \/ tx # {} \/ ~BlockRuns(r, f)
  /\ Stop(r, f)
  /\ UNCHANGED <<scheme, dir, late, db, mixed, downs, faults>>

\* The transaction begins and the block runs.
Exec(r, f) ==
  /\ IsNext(r, f) /\ HasBlock(cmd[r], f)
  /\ tx = {} /\ BlockRuns(r, f)
  /\ Goto(r, "loop", "tx")
  /\ tx'     = {<<r, f>>}
  /\ effect' = [effect EXCEPT ![f] = @ + Delta(r, f)]
  /\ UNCHANGED <<scheme, dir, late, schema, recorded, cmd, target, steps, listed,
                 applied, done, code, mixed, downs, faults>>

\* Bug: INSERT OR IGNORE.
ConflictIgnored(r, f) == FALSE

\* INSERT INTO gebweb_schema_migrations: the version is the primary key.
Conflict(r, f) == cmd[r] = "up" /\ VersionOf[f] \in recorded

\* DELETE ... WHERE version = ? succeeds on no row as well.
Commit(r, f) ==
  /\ <<r, f>> \in tx
  /\ ParametersAccepted /\ ~Conflict(r, f)
  /\ Goto(r, "tx", "loop")
  /\ recorded' = IF cmd[r] = "up" THEN recorded \cup {VersionOf[f]}
                                  ELSE recorded \ {VersionOf[f]}
  /\ done' = [done EXCEPT ![r] = @ \cup {f}]
  /\ tx' = {}
  /\ UNCHANGED <<scheme, dir, late, schema, effect, cmd, target, steps, listed,
                 applied, code, mixed, downs, faults>>

\* Bug: without a transaction around the two statements.
UndoneNot(r, f) == effect

Undone(r, f) == [effect EXCEPT ![f] = @ - Delta(r, f)]

Abort(r, f) ==
  /\ <<r, f>> \in tx
  /\ effect' = Undone(r, f)
  /\ tx' = {}
  /\ UNCHANGED <<schema, recorded>>

\* The second statement fails.
Rollback(r, f) ==
  /\ ~ParametersAccepted \/ Conflict(r, f)
  /\ Abort(r, f)
  /\ Stop(r, f)
  /\ UNCHANGED <<scheme, dir, late, mixed, downs, faults>>

Finish(r) ==
  /\ pc[r] = "loop" /\ Pending(r) = {}
  /\ Exit(r, 0)
  /\ UNCHANGED <<scheme, dir, late, db, mixed, downs, faults>>

-----------------------------------------------------------------------------
(* Faults, and the whole.                                                  *)

\* The process dies or the database reports an error: a transaction that is
\* open is rolled back.
Fault(r) ==
  /\ pc[r] # "off" /\ faults < MaxFaults
  /\ faults' = faults + 1
  /\ Exit(r, 1)
  /\ IF pc[r] = "tx" THEN \E f \in Files : Abort(r, f) ELSE UNCHANGED db
  /\ UNCHANGED <<scheme, dir, late, mixed, downs>>

Step(r) ==
  \/ Open(r) \/ OpenFails(r) \/ List(r) \/ ListFails(r)
  \/ LoadAppliedVersions(r) \/ Finish(r)
  \/ \E f \in Files : BlockFails(r, f) \/ Exec(r, f) \/ Commit(r, f) \/ Rollback(r, f)

Next ==
  \/ \E f \in Files : Create(f) \/ Merge(f)
  \/ \E r \in Runners :
       \/ \E c \in {"up", "down"}, t \in Targets, n \in Steps : Run(r, c, t, n)
       \/ Status(r)
       \/ Step(r)
       \/ Fault(r)

Spec == Init /\ [][Next]_vars

\* A process that runs goes on; migrate up is part of the start of an instance,
\* which is started again.
FairSpec ==
  /\ Spec
  /\ \A r \in Runners : WF_vars(Step(r))
  /\ \A r \in Deployed : SF_vars(Run(r, "up", 0, 1))

-----------------------------------------------------------------------------
(* Properties.                                                             *)

TypeOK ==
  /\ scheme \in Schemes
  /\ dir \subseteq Files /\ late \subseteq dir
  /\ schema \in BOOLEAN /\ recorded \subseteq Versions
  /\ effect \in [Files -> Int]
  /\ tx \subseteq Runners \X Files
  /\ pc \in [Runners -> {"off", "open", "list", "read", "loop", "tx"}]
  /\ cmd \in [Runners -> {"up", "down"}]
  /\ target \in [Runners -> Targets] /\ steps \in [Runners -> Steps]
  /\ listed \in [Runners -> SUBSET Files]
  /\ applied \in [Runners -> SUBSET Versions]
  /\ done \in [Runners -> SUBSET Files]
  /\ code \in [Runners -> {0, 1}]
  /\ mixed \in BOOLEAN /\ downs \in 0 .. MaxDowns /\ faults \in 0 .. MaxFaults

\* A file with a version of its own.
Sole(f) == \A g \in dir : VersionOf[g] = VersionOf[f] => g = f

Recorded(f) == VersionOf[f] \in recorded

\* However many runners start at once and whatever fails, no file's up block
\* takes effect twice: a runner that works from an old list of applied
\* versions is stopped by the primary key, and its block undone with it.  (A
\* file whose down block undoes nothing may be rolled back and applied again.)
AppliedOnce ==
  tx = {} => \A f \in dir :
                Sole(f) /\ (Acts("up", f) => Acts("down", f)) => effect[f] <= 1

\* Outside of a transaction the table says what the database has been through,
\* if no down ran beside another runner: a version is recorded iff its up block
\* is in effect.
RecordMatches ==
  tx = {} /\ ~mixed
  => \A f \in dir : Sole(f) /\ Acts("up", f) /\ Acts("down", f)
                      => effect[f] = IF Recorded(f) THEN 1 ELSE 0

\* The recorded versions have no gap but for files that arrived late: a failed,
\* stopped or targeted run leaves the older files done, and down takes the
\* newest.
NoGap ==
  ~mixed => \A f \in dir \ late, g \in dir :
               VersionOf[f] < VersionOf[g] /\ Recorded(g) => Recorded(f)

\* An up that ends with exit code 0 leaves nothing of what it found pending
\* unrecorded, although others run at the same time.
ExitZeroMeansDone ==
  [][\A r \in Runners :
       pc[r] = "loop" /\ pc'[r] = "off" /\ cmd[r] = "up" /\ code'[r] = 0 /\ ~mixed
       => \A f \in listed[r] : WithinTarget(r, f) => Recorded(f)']_vars

\* A file that stops every run.
Unusable(f) == f \in Malformed \/ ~HasBlock("up", f) \/ ~Sole(f)

\* On SQLite, instances that run migrate up when they start get all files
\* applied in the end, although they lock each other out and fail, unless the
\* directory holds a file no run gets past.
UpConverges ==
  scheme = "sqlite" =>
    <>[](\/ \E f \in dir : Unusable(f)
         \/ \A f \in dir : Recorded(f))

\* What the blocks have done to the database, a transaction that is open aside.
Settled ==
  IF tx = {} THEN effect
  ELSE LET t == CHOOSE t \in tx : TRUE IN Undone(t[1], t[2])

\* What migrate promises (MigrationLog): of what a runner does, only what it
\* has committed counts.
Log == INSTANCE MigrationLog WITH
  effect <- Settled, Ups <- Acting["up"], Downs <- Acting["down"]

\* Runners that read once, lock each other out, collide on the primary key and
\* die implement that promise: every commit is one whole file, in order.
ImplementsLog == Log!Spec
=============================================================================
