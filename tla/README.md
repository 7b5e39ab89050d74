# Gebweb, specified

TLA+ modules, TLC configurations and TLAPS proofs about Gebweb: the parts of its
library that several processes share (background jobs, scheduler, tagged
response cache, idempotent requests) and the stateful commands of its
command-line tool (migrations, secrets, dev server and worker supervision,
build, client generator). Everything is read off `src/src/*.gb` and
`src/cmd/gebweb/*.go`; line numbers refer to those files.

- [The system](#the-system)
- [The modules](#the-modules)
- [Runs and bounds](#runs-and-bounds)
- [Fairness](#fairness)
- [Proofs](#proofs)
- [Where code and documentation part](#where-code-and-documentation-part)
- [Not modelled](#not-modelled)

## The system

Gebweb is a web framework: a set of library modules in the gb language that an
application links, and a command-line tool in Go that starts workers, runs
migrations and generates code. An application is one or more *instances*
(server processes) and one or more *workers* (`gebweb worker`, or a task inside
an instance). They share a SQL database and, optionally, a Redis server. There
is no coordinator: whatever agreement there is comes from single SQL statements,
single Redis commands and the atomic operations of a file system.

| Component | State | Operations | Correct when |
|---|---|---|---|
| Job queue, `jobs.gb` | table `gebweb_jobs`; the locals of each worker loop | `enqueue`, `runWorker`: `reclaimStaleJobs`, `claimNextJob`/`claimFromQueue`, `executeJob`, `markCompleted`, `markFailed`, `scheduleRetry` | one worker at a time runs a job; only that worker writes the outcome; a second active job of a name and dedupe key comes only from a race of two enqueues or from queueing a settled job again; every job settles |
| Dead-letter command, `dlq.go` | the same table | `retry`, `purge` | it touches failed rows only, and not the rules above |
| Scheduler, `scheduler.gb` | row `gebweb_scheduler_leader`; `lastFiredMinute` of each process | `tick`: `tryAcquireLeader`, fire | a lease is not stolen; a dead leader is replaced; a task fires once a minute |
| Response cache, `cache.gb`, cached branch of `binding.gb` | cache store; tag generations and tag index, per process or in the store | lookup, fill, `cacheInvalidate` | no response older than a completed invalidation; every entry reachable by invalidation, but for keys beyond the cap of the index |
| Idempotency, `idempotency.gb`, `redisbackend.gb` | one record per key, with an expiry | `applyIdempotency`, `runAndFinalize` | one request of a key at work; a replay is the right response; no key stays locked |
| Migrations, `migrate.go` | table of applied versions, directory of files | `create`, `up`, `down`, `status` | what is recorded is what was done, in order and once; deployments converge |
| Secrets, `secrets.go` | key file, vault file | `init`, `set`, `edit`, `get`, `list` | the key opens the vault; nothing that was stored is lost |
| Supervision, `main.go`, `worker_signals.go` | a child process; restart and signal channels | `dev`: watch, debounce, restart; `worker`: relay, grace, exit code | one child; the last source runs; a worker that is told to stop ends |
| Build, `assets.go`, `swaggerui.go`, `docker.go` | output and stage directories, download cache, Docker files | `build`, `docker`, asset step of `dev` | the binary embeds what the sources say; no file is taken half-written |
| Client generator, `genclient.go` | the emitter's sets of names | `generate client` | the client that is written fits together |
| Container, `di.gb` | registry, singleton cache, resolution stack | bind, resolve, override | one instance per singleton; cycles reported |
| Middleware, `middleware.gb`; Redis backends | token buckets; connection pool | take a token, sweep; borrow, return | no token spent twice or lost; every connection comes back |
| Application, `app.gb` | counter of requests in flight | admit, serve, drain | the counter returns to zero |
| Broadcast hub, `broadcast.gb` | subscribers of each channel | join, leave, send | no message to one who left |
| The rest: routing, binding, validation, views, forms, auth, messaging, OpenAPI, i18n, storage, scaffolding | per request, or read-only after start | | sequential; tests reach it |

**Interactions.** An instance and a worker meet only in the job table:
`gebweb.enqueue` inserts, the loop claims. Mail, webhooks and queued events are
jobs. The scheduler's `tick` is called by each worker between two polls and its
tasks usually enqueue. A request passes admission control, the middleware chain
(rate limit, idempotency) and the cached branch of the route adapter before its
handler; the handler may call `cacheInvalidate`, which reaches every key stored
under a tag, and a job or another instance may do the same at the same time.
`gebweb worker` is the supervisor of a worker loop, and the dead-letter command
writes to the worker's table. The commands meet in the file system and the
database: every instance of a deployment may run `migrate up` when it starts,
`dev` and `build` share the directory of compiled assets, builds of all projects
share one download cache, and `secrets` commands in two terminals share the
vault.

**What is hard.** No SQL statement of the job queue or the scheduler is in a
transaction with another, so each pair of statements is a window: a SELECTed row
may be claimed, retried and put back before the UPDATE that follows. A worker
may die anywhere. Time appears twice: as leases (`reclaimAfterMs`, `leaseSec`,
`ttl`) that a slow owner outlives without noticing, and as clock readings that
are used long after they were taken. The cache writes an entry, its index and
the generation of its tags in separate calls. Redis calls "fail open": an error
looks like an answer. The commands of the tool read first and write later what
they computed, without a lock; `os.WriteFile` empties a file before it writes
it; the supervisor's goroutines meet in channels of one place, where a message
too many is dropped on purpose.

`PROJECT.json` lists every component with its status, and every hazard at the
line where it bites with the properties that cover it.

## The modules

Each component has a module with its state machine and its properties, an `MC`
module with values for TLC, and a `_proofs` module (the client generator shares
that of the build). `JobQueue`, `Idempotency` and `Migrate` also have an abstract
specification that they implement: `JobLifecycle`, `IdempotentKey` and
`MigrationLog`. The components share no state that both write, so no module
composes two of them; what one sees of another is an action of its environment (a
supervisor that restarts a worker, a dead process, a request's handler, an
application that a command starts).

### JobQueue (with JobLifecycle, MCJobQueue, JobQueue_proofs)

The table is one function per column; a row that does not exist yet is
`absent`, one that the dead-letter command deleted is `purged`. Each SQL
statement is one action, and the locals of the loop that live across statements
are variables: `since` (the `now` read once by `claimNextJob`), `qi` (which
priority is being polled), `cur` (the row), `believed` (`job.attempts`, the
SELECTed count plus one).

| Code | Actions |
|---|---|
| `enqueue`, 188-218 | `EnqueueUnkeyed`; `EnqueueCheck`, `EnqueueInsert`, `EnqueueRejected` |
| `reclaimStaleJobs`, 446-461, at the start and every `reclaimThrottleSec` | `ReclaimFailed`, `ReclaimRequeue` |
| `claimNextJob`/`claimFromQueue`, 469-527 | `Poll`, `Select`, `SelectNothing`, `Claim`, `ClaimLost` |
| `executeJob`, 528-543, and the outcome writers, 597-618 | `HandlerReturns`, `MarkCompleted`, `MarkCompletedFails`, `MarkFailed`, `ScheduleRetry`, `ScheduleRetryRejected` |
| `dlq.go` 107-140 | `DlqRetry`, `DlqPurge` |
| drain, process death, supervisor | `Drain`, `Crash`, `Restart` |

*Time.* "Now" is always `Horizon`, and `Tick` makes every recorded instant one
second older. Only distances from now are compared, so the state space is finite
without a bound on the clock. `SlowWorkers` says whether a claim may outlive
`reclaimAfterMs`; the code asks the deployment to prevent that (`jobs.gb`
71-73). `LostReplies` says whether `markCompleted` may commit and report an error
all the same, which the loop takes for a failed handler.

*Dedupe.* `dedupeIdx` says whether the database has the partial unique index;
`PartialIndex` is the set to choose from, so that one run covers both. Two
histories follow the SELECT of `enqueue` (195) up to its INSERT: `overtaken` marks
a producer whose key has been INSERTed since, and `excused` the rows that such a
producer INSERTs, or that are queued again after they had settled.

`JobLifecycle` is what the queue promises without table, clock or lock: a worker
takes a pending job, works on it until it has finished it or dies, and only
running jobs nobody works on are recovered. The refinement mapping reads
"working" off the loop: a worker works on `cur` from its claim to its outcome
statement.

### SchedulerLeader (with MCSchedulerLeader, SchedulerLeader_proofs)

`tryAcquireLeader` statement by statement: the first SELECT (`Look`), the INSERT
whose duplicate is swallowed (`InsertRow`), the second SELECT (`Read`,
`StandDown`), the refresh whose row count is ignored (`Refresh`), the
conditional takeover (`Takeover`, `TakeoverLost`). Then the rest of `tick`:
`ReadMinute` and `Fire`. Time passes anywhere, also inside a tick. The history
variable `prompt` stays true as long as every second passes while no tick is
running and the lease of a living leader outlasts it, which is what a "leader
refreshes its lease on every tick" amounts to. One task, due every minute,
stands for all: they share nothing but the leader. `fires` counts what the
processes together have done.

### TagCache (with MCTagCache, TagCache_proofs)

A request to a cached route captures the generation of each of its tags
(`Capture`), reads the entry (`Get`), compares the stamp tag by tag (`Check`,
`Reject`), and either shows the entry (`Hit`) or runs the handler (`Compute`),
stores (`Store`) and records the key under each tag (`Index`). The list of a tag
keeps its order, and an instance keeps the latest `MaxRecorded` keys of it (512
in the code, `cache.gb` 202-205: `Bounded`); `dropped` remembers which keys the
cap has cut off. An invalidation
advances the generation (`Bump`), reads the recorded keys (`Look`), swaps them
for the empty list (`Swap`, a compare-and-set) and deletes the entries
(`Delete`); a store with shared tags does all of it in one script
(`BumpShared`). Entries may vanish at any time (`Evict`), instances restart
(`Restart`). The data behind a tag is a version number, so that "stale" can be
said: `settled` is the newest version whose invalidation has taken effect, and
a request remembers in `since` what was settled when it arrived.

### Idempotency (with IdempotentKey, MCIdempotency, Idempotency_proofs)

`applyIdempotency` is `Claim`/`ClaimLost`, `Get`/`GetNothing`, `Expire`, `Set`;
`runAndFinalize` is `Succeed`/`Fail`, `Complete`, `Release`. `backend` is the
store, chosen at the start: the in-memory one, whose `get` deletes an expired
record in a second call (`LazyExpiry`), or Redis, which expires records itself and
where any call may fail (`MayFail`). A call that fails answers as if nothing were
there, and a `putIfAbsent` that fails may have written the claim all the same, so
that the request then meets itself. The history `exposures` holds what the flow
admits at four of its lines: a call failed; the record expired under a request at
work; a live record was overwritten by the claim that does not look
(`idempotency.gb` 225), or deleted in place of an expired one (47).

`IdempotentKey` is what the clients of one key may rely on, without records,
expiry or calls that interleave: one cell that is free, belongs to the request at
work (`Begin`), keeps its response (`Succeed`, `Replay`), or is locked by a
process that died with it (`Die`) until it is forgotten (`Forget`); who comes
while another is at work, or with another fingerprint, is refused (`Refuse`). The
mapping reads `Phase` off the place of a request, and `Kept` and `Locked` off the
live record: one that has expired counts as forgotten, so its deletion and every
step of a request that ends neither in work nor in an answer is a stutter. The
refinement is claimed up to the first exposure.

### Migrate (with MigrationLog, MCMigrate, Migrate_proofs)

Several runners over one directory and one database. A runner reads the
directory (`List`) and the applied versions (`LoadAppliedVersions`) once and
then works through its own list, a transaction per file: `Exec` begins it and
runs the block, `Commit` or `Rollback` ends it after the INSERT or DELETE that
records it. `effect` counts what the blocks have done to the database, so that
the record can be compared with it.

| Code | Actions |
|---|---|
| `create`; a file that a merge brings | `Create`; `Merge` |
| command line, `openMigrationDB`, `ensureSchemaTable` | `Run`, `Open`, `OpenFails` |
| `loadMigrationFiles`, `loadAppliedVersions` | `List`, `ListFails`, `LoadAppliedVersions` |
| the loops of `up` and `down`, `splitUpDown` | `Exec`, `BlockFails`, `Commit`, `Rollback`, `Finish` |
| `status` | `Status` |
| a crash, a database error | `Fault` |

`splitUpDown` is `Block`: which lines of a file belong to which marker. The
driver decides two things (`SchemaAccepted`, `ParametersAccepted`). A `Strict`
file's block fails when it is run twice, as CREATE TABLE does; others do not.
The history `mixed` remembers that a `down` ran beside another runner, and
`late` the files that a merge brought in with a version below that of one that
was there.

`MigrationLog` is what whoever deploys may rely on, without runners,
transactions or lists that were read long ago: the database goes through whole
files one after the other, the effect of a file and its record change in one
step (`Apply`, `Revert`), a file is applied only when every older one is (but for
late files), and the newest is rolled back first. After an overlap of a `down`
with another runner (`Overlap`) the order is no longer promised, but that record
and block go together still is. The refinement mapping is `Settled`: the effects
as they would be if the open transaction were undone, so that `Exec`,
`Rollback` and a death in a transaction are stuttering steps and `Commit` is the
moment a file counts.

### Secrets (with MCSecrets, Secrets_proofs)

Two files and any number of commands. `os.WriteFile` is two actions
(`EmptyKeyFile`, `WriteKeyFile`, `EmptyEncFile`, `WriteEncFile`): it truncates
and then writes. The cipher is its key: a vault opens with the key it was sealed
with and no other (`Unseals`). `init` is `CheckExisting`/`InitRefuses`, `MakeKey`
and the writes; `set`, `edit`, `get` and `list` are `ResolveSecretsKey`/`NoKey`,
`LoadVault`/`PrintSecrets`/`NoVault`, `Editor`/`EditorAborts` and the write of
the vault. `promised` is what the commands that ended well were told to store.
Three histories say when the two files may disagree: `clash` (an init ran beside
another command that writes), `overlap` (two updates at once), `cut` (a command
died after it had begun to write).

### Supervisor (with MCSupervisor, Supervisor_proofs)

`runDev` and `runWorker` are one machine with two modes, because they treat a
child in the same way: start, attend, ask it to stop, give it time, kill it.
`pc` is the place of the main goroutine (`select`, `grace`, `kill`, `idle` are
its select statements). Beside it run the watcher (`Event`), the timer of
`time.AfterFunc` (`DebounceExpires`), its callback (`SendRestart`, a send that
gives up when the channel is full), the child (`Load`, `ExitItself`,
`DieOfKill`) and the user (`Save`, `Signal`, `SignalUnhandled`). A child has
read the sources at one moment of its boot (`loaded`).

### Build (with MCBuild, Build_proofs)

`build`, `docker` and the asset step of `dev` as processes over four
directories. A file is known by the change of the sources it was made from and
by whether it was minified. `CompileEntry`/`Compiled` are `compileEntryPoints`;
`ClearStage`, `StageTemplate`, `Staged` are `stageTemplates`; `Cached`, `Fetch`,
`Rename` are the Swagger UI cache; `Bundle` is the moment `geblang build` reads
the directories; `Keep`, `Truncate`, `Write` are `writeGenerated`. `Fails` and
`Crash` may happen anywhere. The history `alone` says that since a process
started nothing else ran and no source changed; `torn` that a process died
inside the write of a Docker file.

### GenClient (with MCGenClient, Build_proofs)

The emitter as it goes through a document: `WriteDTO` for the schemas,
`WriteMethod` for the operations, `WriteFile`. Of a type it keeps which
component it refers to, of a parameter its place, name and whether it is
required. `Merge`, `Signature`, `PathVariables`, `Return` and
`UniqueMethodName` are the functions of the same or similar names, and `Sift` is
the loop that each of them selects with. `ClientAssumption` says of a document
what OpenAPI requires, a parameter is listed once in a list and has one of four
places (`Listed`), and how a number is appended to a name. Its
specification is called `ClientSpec` and its variables do not meet those of
`Build`, so that one module of proofs extends both.

## Runs and bounds

    tlc -config JobQueue_workers.cfg MCJobQueue
    tlapm JobQueue_proofs.tla

Each configuration is named after its module, and each run ends within
three minutes on an ordinary machine.

| Run | Question | Instance |
|---|---|---|
| `JobQueue_workers` | Does a worker hold the row it works on, is the lifecycle implemented, and does every job settle? | 1 row, of either priority or without a handler; 2 workers, 2 attempts, 2 faults, 1 dead-letter operation; one worker drains once, filters names and may be shut down |
| `JobQueue_dedupe` | Where do two active jobs of a key come from? | 2 rows of one key, 2 producers, with the partial index and without; a worker whose claims may outlive `reclaimAfterMs` and another that sweeps, 1 fault or lost reply, 1 dead-letter operation |
| `SchedulerLeader_takeover` | Does a task fire once a minute, is the lease respected and never cut short, the dead leader replaced? | 3 workers, 2 deaths, lease and minute of 2 ticks, sleeping anywhere |
| `TagCache_races` | Is a response fresh and every entry reachable? | 2 keys of 1 tag of which the index keeps 1, 2 readers, 1 writer |
| `TagCache_shared` | The same across instances with shared tags? | 2 instances, 1 restart, 2 readers, 2 writers, 2 versions |
| `Idempotency_requests` | When may the handler run twice at once, does a key stay locked, is a replay right, and do clients see one key? | 3 requests, 2 fingerprints, both stores, 3 failing handlers, 2 deaths, any number of failed calls, life of 2 ticks |
| `Migrate_runners` | Is what is recorded what was done, is the log of migrations implemented, and do deployments converge? | 2 runners, 4 files, 3 databases, 1 `down`, 1 fault |
| `Secrets_commands` | Does the key open the vault, and is nothing lost? | 2 processes, 2 names, 3 environments, 2 new keys, 1 death |
| `Supervisor_processes` | One child, no change lost, the last source, an orderly end? | both modes, 3 saves, 2 signals, children that fail |
| `Build_commands` | Does a build embed its sources? | 2 processes, 4 command lines, 2 entries, 1 template, 1 change, failures and deaths |
| `GenClient_documents` | Do the methods of the client fit together? | every document of 2 schemas and 2 or 3 operations over the parameters, bodies and responses of `MCGenClient` |
| `GenClient_references` | Is every class the client names defined? Expected to fail: see [below](#where-code-and-documentation-part) | the same documents |

*Why these bounds.* Two workers are a race and every argument about a row
concerns its owner and one other; a second row adds nothing to the lock, which
the proofs confirm for any number, but is needed for deduplication. Two attempts
give a retry and a last failure. `Horizon = ReclaimAfter + 1` is the least that
has a second before, at and after the cutoff. In `SchedulerLeader_takeover` the
clock spans two minutes, and with a third worker two of them want the row of one
that died. Two keys under one tag are needed to move the index between `Look` and
`Swap`, and to exceed a cap of one key, which is the least that drops any; two
readers to store an older response over a newer one. Idempotency needs three
requests: two never overwrite or delete each other's record while the store works
and none expires (`ThirdNeeded`), and the third also has another fingerprint; with
three failing handlers any of the requests may release the key. Deduplication
needs two rows and two producers: a property about pairs, one of which overtakes
the other. `Migrate_runners` has each kind of file that is treated in its own way:
one that fails when run twice, one that does not, one made within the same
second and without an up block, one with a malformed name; an old and a new file
are the least that has an order. `Secrets_commands` can make two keys, so an old
key can be used after a new one; the environment holds no key, the vault's or a
wrong one. Three saves are one that starts a restart, one that finds the channel
full and one that comes during the grace time. One change of the sources is
enough for a stale file.

*What the properties say.* `OwnerWrites`: the conditional UPDATE and the reclaim
cutoff together are a lock, although the outcome statements name only the id;
since a row names one owner, no two workers execute one job
(`ExclusiveExecution`). `Overshoot`: a stale count lets each other worker run a
job once more, and no more than that; `JobQueue_workers` has no slow claims and
no lost replies, which the theorem `BoundedOvershoot` covers.
`DuplicatesExcused`: the SELECT that comes before the INSERT keeps a second job
of the key out through all that can happen to the first, and what it cannot keep
out is named (`jobs.gb` 643 calls it "the portable correctness path"); the index
plays no part in the property, and half of the run has none.
`EventuallySettles`: a crash between any two statements is repaired.
`NoStolenLease`, `AtMostOncePerMinute`, `LeaderReplaced`: the lease.
`LeaseKept`: a refresh computed from an old clock, by a worker that has lost the
row since, must not shorten the lease of the next one. `NeverStale`: entries
stored, read and invalidated in any order. `NoOrphan` of the cache: the index
and the store are written apart, and what the cap cuts off is the only thing
that invalidation loses (`cache.gb` 188: "a dropped key only forgoes eager
deletion"; the test `tagIndexBoundedWhenLarge`), which `NeverStale` of the same
run shows to be harmless. `NoOverlap`: the handler runs twice at once only after
an exposure, whatever handlers, processes and the clock do. `ThirdNeeded`: a
request and its retry cannot bring about the two exposures that destroy a live
record. `ClaimHasOwner`: no path of the flow leaves the key locked.
`ReplayIsFaithful`: what is replayed is a success of the same fingerprint, also
after every exposure; `ImplementsKey`: calls of the store that interleave look
like one key. `AppliedOnce`, `RecordMatches`, `NoGap`, `ExitZeroMeansDone`:
runners that work from old lists are stopped by the primary key, and their block
is undone with it; `ImplementsLog`: so that all of them together look like one
careful operator. `Readable`, `Durable`: a command that is refused, aborted,
given a wrong key or cut off before it writes costs nothing; an init that is cut
off between its two files or runs beside a writer is exempt (`cut`, `clash`),
because the code does lose the vault there. `OneChild`, `NoOrphan` of the
supervisor, `RestartsPaid`, `NoChangeLost`, `LastChangeRuns`, `ShutsDown`: the
channels drop only what is not needed. `BundleFaithful`, `SwaggerWhole`,
`DockerComplete`: what earlier commands left behind does no harm.
`DistinctMethods`, `SignatureFaithful`: names are given before all names are
known, and two lists of parameters make one signature. `NoDanglingClass` is the
sentence of `genclient.go` 317, and false. Each of the others is falsified by a
one-line defect of the code, kept beside the definition it would replace under
the comment "Bug" and listed in `PROJECT.json`.

*Where a property has a premise* (`~mixed`, `exposures = {}`, `~clash`, `~cut`,
`~overlap`, `prompt`, `alone`, `~torn`)
the code does not promise more: the premise is a history variable of the same
run, so the run also goes through the states in which it is false, and the
section on divergences says what happens there.

Deadlock is not checked in `Idempotency_requests`, `Supervisor_processes` and
`GenClient_*`: their requests are answered, their commands have ended
and the client is written. Everywhere else there is always a next step.

## Fairness

`JobQueue!FairSpec` has weak fairness of each worker's loop and of the clock. A
worker process is a loop that sleeps `pollIntervalSec` at most; its handlers
return, because `executeJob` bounds them by `timeoutMs` (a handler without a
timeout that hangs for ever is outside the assumption); a supervisor restarts a
worker that died, which is why `Restart` is in the loop and why a shutdown
(`stopped`) may be final only for one worker of the two. No fairness is assumed
of producers, of operators or of failures. `SchedulerLeader!FairSpec` likewise:
live workers tick, time passes.

`EventuallySettles` is claimed where every priority is polled and every name is
served by some worker that stays: otherwise it is false, see below.

`Migrate!FairSpec`: a process that runs goes on (weak fairness of each runner's
steps), and a deployed instance is started again and again with `migrate up`
(strong fairness of that `Run`, since it is possible only between two runs).
Operators need not run anything. `Supervisor!FairSpec`: the main goroutine, the
watcher and the timer go on, a child boots, and one that is killed dies. A child
need not ever drain, which is what the grace time is for, and nobody need save a
file or send a signal.

## Proofs

TLAPS checks these for every value of the constants that satisfies the module's
`ASSUME`, and nothing is assumed beyond that and the premise given here.

| Theorem | States |
|---|---|
| `JobQueue_proofs!TypeCorrect` | `Spec => []TypeOK` |
| `JobQueue_proofs!MutualExclusion` | `Spec => []ExclusiveExecution`, if `~SlowWorkers` and `~LostReplies` |
| `JobQueue_proofs!OutcomesAreOwned` | `Spec => []OwnerWrites`, if `~SlowWorkers` and `~LostReplies` |
| `JobQueue_proofs!Refinement` | `Spec => ImplementsLifecycle`, if `~SlowWorkers` and `~LostReplies` |
| `JobQueue_proofs!CompletedStays` | `Spec => CompletedIsFinal`, if `~SlowWorkers` and `~LostReplies` |
| `JobQueue_proofs!DuplicatesTraced` | `Spec => []DuplicatesExcused` |
| `JobQueue_proofs!BoundedOvershoot` | `Spec => []Overshoot` |
| `SchedulerLeader_proofs!TypeCorrect` | `Spec => []TypeOK` |
| `SchedulerLeader_proofs!LeaseRespected` | `Spec => NoStolenLease` |
| `SchedulerLeader_proofs!LeaseNotCut` | `Spec => LeaseKept` |
| `SchedulerLeader_proofs!FiresOnce` | `Spec => []AtMostOncePerMinute`, if `Minute <= LeaseSec` |
| `TagCache_proofs!TypeCorrect` | `Spec => []TypeOK` |
| `TagCache_proofs!Fresh` | `Spec => []NeverStale`, if the tag state is in one place: shared tags, or one process with a store that dies with it |
| `TagCache_proofs!Reachable` | `Spec => []NoOrphan`, if the store dies with its process or none restarts |
| `Idempotency_proofs!TypeCorrect` | `Spec => []TypeOK` |
| `Idempotency_proofs!FaithfulReplay` | `Spec => []ReplayIsFaithful` |
| `Idempotency_proofs!NoAbandonedClaim` | `Spec => []ClaimHasOwner` |
| `Idempotency_proofs!OneAtWork` | `Spec => []NoOverlap` |
| `Idempotency_proofs!ThirdRequired` | `Spec => []ThirdNeeded` |
| `Idempotency_proofs!Refinement` | `Spec => ImplementsKey` |
| `Migrate_proofs!TypeCorrect` | `Spec => []TypeOK` |
| `Migrate_proofs!NeverTwice` | `Spec => []AppliedOnce` |
| `Migrate_proofs!TableIsTrue` | `Spec => []RecordMatches` |
| `Migrate_proofs!Contiguous` | `Spec => []NoGap` |
| `Migrate_proofs!SuccessIsComplete` | `Spec => ExitZeroMeansDone` |
| `Migrate_proofs!RunnersKeepTheLog` | `Spec => ImplementsLog` |
| `Secrets_proofs!TypeCorrect` | `Spec => []TypeOK` |
| `Secrets_proofs!StaysReadable` | `Spec => []Readable` |
| `Secrets_proofs!StaysDurable` | `Spec => []Durable` |
| `Supervisor_proofs!TypeCorrect` | `Spec => []TypeOK` |
| `Supervisor_proofs!OneAtATime` | `Spec => []OneChild` |
| `Supervisor_proofs!RestartsArePaid` | `Spec => []RestartsPaid` |
| `Supervisor_proofs!ChangesArrive` | `Spec => []NoChangeLost` |
| `Supervisor_proofs!NothingLeftBehind` | `Spec => []NoOrphan` |
| `Supervisor_proofs!FailuresReported` | `Spec => []FailureReported` |
| `Build_proofs!TypeCorrect` | `Spec => []TypeOK` |
| `Build_proofs!EmbedsTheSources` | `Spec => BundleFaithful` |
| `Build_proofs!EmbedsWholeFiles` | `Spec => SwaggerWhole` |
| `Build_proofs!BothDockerFiles` | `Spec => DockerComplete` |
| `Build_proofs!MethodsDiffer` | `ClientSpec => []DistinctMethods` |
| `Build_proofs!SignaturesHold` | `ClientSpec => []SignatureFaithful` |

*Types.* `TypeOK` alone is not inductive: a retry indexes the backoff list with
the count that the worker carries, and every statement after the SELECT names a
row. `Carries` adds that a worker past its SELECT names a job, and that one past
its claim has counted at least one attempt.

*The lock of the job queue.* `OwnerWrites` is not inductive either: the sweep
must be known not to take the row of a live worker. `Locked` says of each worker
that, from its poll to its outcome, its `since` has not fallen behind the cutoff
(`Fresh`), and that the row it owns is running, carries its id and was locked at
that `since` (`Holds`). `Tick` is the only action that can disturb `Fresh`, and
its guard is the deployment's promise; the sweep cannot disturb `Holds`, because
`lockedAt = since` is no earlier than the cutoff. Exclusion, `CompletedStays`
and the refinement follow: an outcome statement is a `Finish` of the owner, and
the sweep a `Recover` of jobs nobody works on.

*Deduplication* needs neither ownership nor the index. `DuplicatesExcused` alone is
not inductive: it says nothing of a producer between its SELECT and its INSERT.
`Clear` does: as long as no other INSERT of the key has come (`Waiting`), every
active row of the key is excused. The SELECT
establishes it, since it found none; afterwards a row becomes active by an INSERT,
which marks the waiting producers of its key as overtaken, or from a settled
state, which excuses it, or it was active before. So an INSERT that was not
overtaken adds a row beside excused ones only. It holds for slow workers, lost
replies, sweeps and the dead-letter command.

*The overshoot* is an account. `MayRetry(j)` are the workers whose count still
lets them put job j back: they have selected it and would claim it below the
ceiling, or they work on it below the ceiling. `Ledger(j)`: the attempts of the
row and the number of these workers add up to at most the ceiling plus the
number of workers less one, and a queued row leaves room for one claim more: one
attempt more would still be below the ceiling, or the sum is short of that bound. A
claim adds one to the attempts, from that room. A worker whose count reaches the
ceiling leaves the account and can only mark the row failed; one that puts the
row back leaves it too, and so restores the room, and a sweep puts back only
rows with attempts left. The counting is in `Count` and `CountLess`. No premise
about slow workers is needed, only that the workers are finitely many.

*The lease.* `Patient` says that a worker about to take over has seen a lease
that had ended by the clock. The row may have changed since, but then the
conditional UPDATE does nothing. That no lease is cut short (`Recent`) follows
from the order of readings: the lease in the row was granted from a clock that its
holder has read, so a worker that sees itself as the holder is about to write one
from a clock at least as late. Nothing else writes `expiresAt` of a row that
lasts: the refresh names its holder, and a takeover comes after its end.

*Once a minute.* While all ticks are prompt, a worker inside a tick has read the
current second (`Punctual`); one that refreshes or fires holds the row, and a
living holder's lease has not run out (`Holds`); a minute that was fired was
fired once, the lease reaches a whole `LeaseSec` beyond its beginning, and while
it lasts the holder of the row remembers it (`Fired`). A takeover therefore finds
a lease that ended in a later minute, which is where a lease of at least a
minute is needed. Two lemmas about remainders carry the arithmetic.

*Freshness of the cache.* The invariant says of every entry, in the store or in
the hands of a request, that if each generation of its stamp is still current
then its value is at least as new as everything settled, and that a request
between stamp and store is about to write such an entry: the stamp is captured
before the handler reads the data, and an invalidation writes the data before it
advances the generation. It is inductive only where a tag has one generation:
shared tags, or one process with a store that dies with it.

*Reachability.* `Accounted(k, t)` is one entry's part of `NoOrphan`. An entry loses
its record in `Swap` and in `Index`. In `Swap` the compare-and-set makes `doomed`
exactly what the index held. In `Index` the cap may cut it off, and then the tag
must be crowded: the list names each key once and only keys that carry the tag
(`Proper`, kept by `ListedStep`), so a list longer than `MaxRecorded` names more than
`MaxRecorded` such keys (`Many`, a bijection between places and keys). The
assumption on the store is needed: a process that dies between `Store` and `Index`
leaves an entry in a persistent store that no index names.

*Replay.* The invariant ties a completed record to the successful answer of the
request that wrote it and to its fingerprint, and survives every overrun: a
request that overwrites another's record still writes its own truth.

*One request at work.* `Sole`: whoever is at work has its own claim in the store,
alive. It holds as long as there was no exposure (`SoleStep`), and exposures only
grow (`ExposuresGrow`): a handler that fails or a process that dies gives the key
up or leaves it locked, and a claim without looking is at fault only when it meets
a live record, which is the exposure. `ThirdNeeded` says when there is none. `Pair`
strengthens `Sole` for at most two requests that have arrived, without failed calls
and expiries under work: when one of them has lost the key to the other, that
other has taken it and is at work or through, and by the time the first has seen
that the record is gone, it is through; so nobody is left whose record the first
could destroy. A claim that outlives these conditions needs no owner at work, so
`ClaimHasOwner` has an induction of its own.

*The key as clients see it.* From `Sole`, a step without an exposure is a step of
`IdempotentKey`: a claim that succeeds is `Begin` from a free cell, `Complete` and
`Release` are `Succeed` and `Fail` of the one at work, and every
answer is a `Refuse` or a `Replay` of what the cell holds at that moment.

*Migrations.* The invariant ties the open transaction to the runner and the file
that is next for it (`TxOK`), and what a runner read to the directory (`ReadOK`).
`EffectOK` compares effect and record for each file outside of a transaction, and
inside of one for the effect that a rollback would leave. Without a `down` beside
another runner, `AloneOK` adds that the records only grow under an `up`, and
that a `down` knows them exactly. `NoGap` is inductive with these: the next file
of an `up` is the least that is wanted, and every older one it passed over is
recorded still.

*The log of migrations.* `UpOrder` and `DownOrder` say what the invariant means
for the open transaction: an `up` has nothing older left to do, a `down` is at
the newest record. They make `Commit` an `Apply` or a `Revert`. `ExecUndone`
says that what a transaction does is what its end would undo, so that `Settled`
does not move until the commit (`SettledSame`, `SettledOpen`).

*Secrets.* `Roles` says which command may be where, `Apart` who runs beside whom.
`Match`: outside of an init's writes key file and vault belong together, and a
command about to write carries the key of the file. `Holds`: the vault is what
was promised, or the command at work is about to write it. `Blank`: a vault that
is not whole has no content. `Match` needs `~clash` and `~cut`, `Holds` also
`~overlap`, which is why the properties have these premises.

*Supervision.* `Budget` is an account: the children started, the start the main
goroutine is committed to, the restart in the channel, callbacks, a running
timer and events not yet handed on are at most one more than the changes.
`Succession`: every child before the last has ended, and none is alive when the
next is about to be started. `Reported` ties what a worker returns to its child.
`NoChangeLost` is inductive beside them: each stage clears its own mark only in
the step that sets the next (`OnItsWay`), and the step that empties the channel
leaves the places where the property speaks, until a child that is still to read
the sources has been started.

*Builds.* `Own(p)` says what a process has achieved at each step: the swagger
files it has been through are whole in the cache (`Fetched`), the Docker files it
has been through exist (`Kept`), and while it is alone (`AloneOK`) the entries
compiled so far and the templates staged so far are what the sources say
(`MadeOK`). `TornOK`: a torn Docker file is being written, or somebody died in
its write.

*The client.* `Before(i)` are the earlier operations of the name of the i-th.
`MethodsOK`: the i-th method has the signature and the path of the i-th operation,
and carries that name, with their number if there are any.
Of two methods with equal names one is then numbered. If the bases are the same,
the later one has more before it (`BeforeCount`); if they are not, one base is
the other with a number, which is what `ClientAssumption` says of appending a
decimal number to a name, and the premise of the property excludes that.

*Signatures.* `Sift(s, T)`, what a loop over `s` selects, is a recursive
function with a set for its test (`SelectSeq` takes an operator). `SiftLoop`
shows that the function exists and unfolds, by induction over the length of the
list. The induction theorems of the library take an operator as their parameter
too, which the provers cannot instantiate; `Induction` gets the same from the
minimum of a nonempty set of naturals (`WFMin`), which takes none. `Picks` is
what the loop preserves: what it has selected are elements of `T`, each from a
place of its own in the list, and every element of `T` that it has been through
is there. It follows for what `Merge` and `Signature` put together from such
selections (`Joined`) that each parameter that is sent occurs once (`KeyCount`),
that the operation's own definition takes precedence over that of the path, and
that the required ones come first.

Only model-checked is liveness (`EventuallySettles`, `LeaderReplaced`,
`UpConverges`, `LastChangeRuns`, `ShutsDown`), which is beyond the prover: it
needs ENABLED under the fairness of the loops. Every other property of a passing
run is a theorem, under the premises in the table. Proved and not in a run:
`CompletedIsFinal`, `ExclusiveExecution`, `FailureReported`, and the `TypeOK` of
`SchedulerLeader`, `Idempotency`, `Supervisor` and `Build`.

## Where code and documentation part

Met while modelling. The first is a run of its own and a finding in
`PROJECT.json`; the others are reproduced by changing the constants of a
configuration or removing a part of a property, as said.

- **A class that is not written.** "Only emit a class for object-shaped schemas;
  everything else flows through as primitives / containers at the use site"
  (`genclient.go` 317), but a `$ref` to a component that is no object becomes the name
  of a class all the same (380), and the client names a class it does not define
  (`GenClient_references` finds `NoDanglingClass` violated).
- **Stale count.** `claimFromQueue` takes the attempt count from its SELECT
  (`jobs.gb` 512). A worker that sleeps there while another runs the job
  compares the ceiling with a count that is too low, and the job runs more often
  than `docs/18-background-jobs.md:32` says. `Overshoot` bounds by how much;
  without its last two summands it fails in `JobQueue_workers`.
- **A completion that is reported as failed.** `markCompleted` is inside the try
  block of the handler (`jobs.gb` 534): when it commits and the reply is lost, a
  completed job is put back and runs again (`OwnerWrites` fails in
  `JobQueue_workers` with `LostReplies`).
- **Restart of a persistent cache.** Generations without shared tags start from
  0 in each process (`cache.gb` 62) while entries of a persistent store keep
  their stamps; an entry invalidated before it was stored is served after a
  restart (`TagCache`: `Persistent`, not `SharedTags`, one restart).
  `RedisCacheStore` provides no shared tags, though `docs/10-caching.md:236`
  names it as the store that does.
- **Third duplicate.** A duplicate that lost the claim and then reads nothing,
  because the first one failed and released the key, writes its claim
  unconditionally (`idempotency.gb` 225); if a third has claimed the key in between,
  two run at once, against `docs/10-caching.md:253` ("A concurrent duplicate is rejected
  while the first is still in flight"). The in-memory store's delete of an expired
  record (47) does the same to a claim written in between (`NoOverlap` without its
  premise fails in `Idempotency_requests` in either way).
- **Redis that fails open.** A `putIfAbsent` that writes the claim and loses the reply
  answers the request with a conflict with itself, and the key stays locked
  until the claim expires (`ClaimHasOwner` without its premise).
- **A lease below a minute, or late ticks.** The refresh of the leader ignores
  its row count (`scheduler.gb` 240): a worker whose tick is late fires after
  its row was taken. `lastFiredMinute` is per process, so with `leaseSec` below
  60 a takeover may fire a task again in the same minute
  (`AtMostOncePerMinute` without `prompt`), against
  `docs/18-background-jobs.md:384`.
- **init of the secrets** checks and writes in separate steps: two of them, or
  one beside a `set`, leave a key that does not open the vault (`Readable`
  without `clash`), although the help says it "Refuses to overwrite existing
  files" (`secrets.go` 141). A crash after the key is written makes every
  later `init` refuse, and a crash inside `os.WriteFile` loses the vault
  (`cut`).
- **Two downs at once** run the down block of a file twice when its SQL can be
  run twice: the DELETE succeeds on no row as well (`RecordMatches` without
  `mixed`, with `MaxDowns = 2`).

Job queue: the claiming UPDATE checks `status` and not `run_at` (`jobs.gb` 504),
so a retry scheduled since the SELECT runs before it is due (`jobs.gb` 273
promises `run_at <= now`). `reclaimStaleJobs` compares with the queue-wide
`maxAttempts`, whatever the handler declares (`jobs.gb` 455;
`docs/18-background-jobs.md:160`). `claimFromQueue` returns null for an empty
queue and for a lost row, so a worker may take a lower priority while the higher
one has due jobs (`jobs.gb` 466), and a draining worker may stop before the
queue is empty (`jobs.gb` 289). A priority that no worker lists is never polled
(`jobs.gb` 471), although `docs/18-background-jobs.md:128` calls it "lowest".
Without the partial index nothing stops two producers that both passed the
dedupe SELECT, nor a job that comes back beside its successor; `jobs.gb` 643 calls
that SELECT "the portable correctness path" (`DuplicatesExcused` without
`excused`).

Migrations: the `?` placeholders are not accepted by the pgx driver, and MySQL
rejects the TEXT primary key of the schema table, so only SQLite gets past its
first file, whereas `docs/17-migrations.md:8-12` lists all three. Of two files of
one second the second fails once, and from then on counts as applied. When a
file is missing, `down` rolls back an older one. A down block of comments alone
removes the record and leaves the effect, so the next `up` runs it again
(`AppliedOnce` excludes such files). One malformed name stops `status` too. The
DSN the wizard writes (`wizard.go` 234) is one that `splitDSN` refuses.

Secrets: `edit` says "one name=value per line" (`secrets.go` 144) and wants
JSON; saving `null` there makes a later `set` panic; `init` ignores a key in the
environment.

Supervision: directories created after the start are not watched, although the
help says "recursively" (`main.go` 489), and templates are not watched at all. A
signal to `dev`, or to `worker` before it calls `Notify`, ends the command and
leaves the child unless the terminal signals both (`SignalUnhandled`). A
trailing `--job` without a value is ignored.

Build: entry points of one base name overwrite each other; the output directory
is never cleaned; with `--no-sass` a stylesheet of an earlier build is embedded;
two builds of one project race on the stage directory (`BundleFaithful` without
`alone`); a Docker file cut off within its write is kept by every later command
without `--force`.

Client generator: a parameter given by `$ref` is dropped. An
operation called like another with a number ("get2") collides with it. Of several
responses of success outside of the preferred codes one is drawn at random. A
parameter called like a local of the method (`query`, `path`, `url`) collides
with it.

## Not modelled

Within the modelled components: the bounded pool of `runWorker`, `maxJobs` and
what a handler does after `timeoutMs` (local counters of one process, which
would multiply the state of each worker); the derivation of cache and record
keys from a request; whether a cron expression matches a minute; what esbuild,
sass, `geblang` and the database do inside; the text of the Docker files and of
the generated methods; authentication and headers in the client. JSON, SQL text,
logging and metrics are left out everywhere. A malformed payload, which throws
between claim and execution, is the `Crash` of a worker that has claimed.

Not modelled at all, and worth a module when the code changes: the dependency
container (factories are user code that may call back from any goroutine), the
connection pool of the Redis backends, the token buckets and the broadcast hub.
Each is one structure inside one process behind a lock or a channel of the
runtime; their hazards are listed without a property. The scaffolding, help and
wizard of the command line write new files from templates, once, in one process.

The other components and the reason for each are in `PROJECT.json`. Routing,
binding, validation, views, forms and OpenAPI are sequential functions of one
request, better served by their tests; authentication is cryptography; storage
and mail are I/O.
