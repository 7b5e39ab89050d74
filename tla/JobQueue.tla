------------------------------ MODULE JobQueue ------------------------------
(***************************************************************************)
(* The background-job table of Gebweb (src/src/jobs.gb) and the processes  *)
(* that share it: producers that enqueue, workers that poll, claim, run    *)
(* and write the outcome back, the reclaim sweep that recovers the jobs of *)
(* a crashed worker, and the `gebweb worker dlq` command                   *)
(* (src/cmd/gebweb/dlq.go).                                                *)
(*                                                                         *)
(* Each SQL statement is one action: the code opens no transaction, so any *)
(* two statements of any two processes may interleave.  A worker is one    *)
(* execution slot: a `gebweb worker` process, or one task of the pool that *)
(* maxConcurrency starts; locked_by is never read back by the code.        *)
(*                                                                         *)
(* Time.  "Now" is always Horizon and the recorded instants move: a Tick   *)
(* (one second) makes each of them one second older, and 0 stands for      *)
(* every instant Horizon or more seconds ago.  Only the order of instants  *)
(* and their distance from now is ever compared, so no behaviour is lost   *)
(* as long as Horizon exceeds ReclaimAfter; two instants older than        *)
(* Horizon compare as equal, which only adds some.                         *)
(***************************************************************************)
EXTENDS Integers, Sequences, FiniteSets

CONSTANTS
  Jobs,          \* ids that secrets.randomHex may draw, one per row
  NoJob,
  Workers,       \* execution slots
  Producers,     \* callers of gebweb.enqueue
  Names,         \* job names
  Keys,          \* dedupe keys
  NoKey,         \* dedupe_key IS NULL
  Nobody,        \* locked_by IS NULL
  Queues,        \* opts.queues: the priorities a worker drains, highest first
  Priorities,    \* every value the priority column takes
  NoReq,         \* a producer between two calls of enqueue
  Requests,      \* the enqueue calls: [name, key, priority, delay]
  NameFilter,    \* opts.names of each worker; {} means no filter
  HandlerMax,    \* retry ceiling of the handler of each name; 0: no handler
  MaxAttempts,   \* config.maxAttempts
  Backoff,       \* config.backoffMs, in seconds
  ReclaimAfter,  \* config.reclaimAfterMs, in seconds; 0 disables
  Horizon,       \* the instant that stands for now
  PartialIndex,  \* may the database support the partial unique index, or not?
  DrainOnce,     \* the workers started with opts.drainOnce
  Shutdowns,     \* the workers that may be asked to shut down
  SlowWorkers,   \* may a claim outlive ReclaimAfter?
  LostReplies,   \* may an UPDATE commit and report an error all the same?
  MaxFaults,     \* bound on crashes and database errors
  MaxDlqOps      \* bound on uses of the dlq command

ASSUME JobQueueAssumption ==
  /\ Requests \subseteq [name : Names, key : Keys \cup {NoKey},
                         priority : Priorities, delay : Nat]
  /\ NoKey \notin Keys /\ Nobody \notin Workers /\ NoJob \notin Jobs
  /\ NoReq \notin Requests /\ Requests # {}
  /\ Queues \in Seq(Priorities) /\ Len(Queues) > 0
  /\ IsFiniteSet(Workers)
  /\ Shutdowns \subseteq Workers
  /\ NameFilter \in [Workers -> SUBSET Names]
  /\ HandlerMax \in [Names -> Nat]
  /\ MaxAttempts \in Nat
  /\ Backoff \in Seq(Nat) /\ Len(Backoff) > 0
  /\ ReclaimAfter \in Nat /\ Horizon \in Nat /\ ReclaimAfter < Horizon
  /\ PartialIndex \subseteq BOOLEAN /\ DrainOnce \subseteq Workers
  /\ SlowWorkers \in BOOLEAN /\ LostReplies \in BOOLEAN
  /\ MaxFaults \in Nat /\ MaxDlqOps \in Nat

VARIABLES
  \* the gebweb_jobs table, one variable per column that matters
  status,      \* "absent" before the INSERT, "purged" after the DELETE
  attr,        \* name, priority and dedupe_key, set by the INSERT
  attempts, runAt, lockedAt, lockedBy,
  \* the producers
  pending,     \* the request that passed the dedupe check, or NoReq
  overtaken,   \* has another INSERT of its key come since its dedupe check?
  \* the workers
  pc,          \* where the worker loop stands
  since,       \* the `now` read at the start of claimNextJob
  qi,          \* index in Queues of the queue being polled
  cur,         \* the row selected or claimed
  believed,    \* job.attempts: the SELECTed count, plus one once claimed
  reclaimDue,  \* has reclaimThrottleSec passed since the last reclaim?
  \* the environment
  dedupeIdx,   \* is there a partial unique index?
  faults, dlqOps,
  \* a history variable, which no guard reads
  excused      \* rows INSERTed by an overtaken enqueue, or queued after they settled

table  == <<status, attr, attempts, runAt, lockedAt, lockedBy>>
slots  == <<pc, since, qi, cur, believed, reclaimDue>>
calls  == <<pending, overtaken>>
env    == <<dedupeIdx, faults, dlqOps>>
vars   == <<table, calls, slots, env, excused>>

Active == {"pending", "running"}
Status == {"absent", "completed", "failed", "purged"} \cup Active

\* From the first read of the clock to the write of the outcome.
Polling == {"select", "claim"}
Owning  == {"running", "completing", "failing"}
PC == {"start", "restore", "loop", "requeue", "poll", "stopped", "down"}
        \cup Polling \cup Owning

\* Where runWorker begins: it reclaims before it enters its loop.
Entry == IF ReclaimAfter > 0 THEN "start" ELSE "loop"

\* A worker leaves an iteration of its loop: the locals of runWorker,
\* claimNextJob and executeJob go out of scope.
Leave(w, to) ==
  /\ pc'       = [pc EXCEPT ![w] = to]
  /\ since'    = [since EXCEPT ![w] = 0]
  /\ qi'       = [qi EXCEPT ![w] = 1]
  /\ cur'      = [cur EXCEPT ![w] = NoJob]
  /\ believed' = [believed EXCEPT ![w] = 0]

Older(t) == IF t > 0 THEN t - 1 ELSE 0

\* A row locked before this instant is stale; none is where reclaim is disabled.
Cutoff   == IF ReclaimAfter > 0 THEN Horizon - ReclaimAfter ELSE 0

-----------------------------------------------------------------------------
(* The schema: the partial unique index over (name, dedupe_key).           *)

SameKey(at, i, j) ==
  /\ at[i].key # NoKey
  /\ at[i].key = at[j].key
  /\ at[i].name = at[j].name

Indexed(st, j) == st[j] \in Active

IndexAccepts(st, at) ==
  dedupeIdx =>
    \A i, j \in Jobs :
      i # j /\ Indexed(st, i) /\ Indexed(st, j) => ~SameKey(at, i, j)

Init ==
  /\ status   = [j \in Jobs |-> "absent"]
  /\ attr     = [j \in Jobs |-> CHOOSE r \in Requests : TRUE]
  /\ attempts = [j \in Jobs |-> 0]
  /\ runAt    = [j \in Jobs |-> 0]
  /\ lockedAt = [j \in Jobs |-> 0]
  /\ lockedBy = [j \in Jobs |-> Nobody]
  /\ pending  = [p \in Producers |-> NoReq]
  /\ overtaken = [p \in Producers |-> FALSE]
  /\ pc       = [w \in Workers |-> Entry]
  /\ since    = [w \in Workers |-> 0]
  /\ qi       = [w \in Workers |-> 1]
  /\ cur      = [w \in Workers |-> NoJob]
  /\ believed = [w \in Workers |-> 0]
  /\ reclaimDue = [w \in Workers |-> TRUE]
  /\ dedupeIdx \in PartialIndex
  /\ faults = 0 /\ dlqOps = 0
  /\ excused = {}

-----------------------------------------------------------------------------
(* Producers: enqueue.                                                     *)

\* Bug: the SELECT overlooks a job that is being run.
ActiveDuplicateQueued(r) ==
  \E j \in Jobs : /\ status[j] = "pending"
                  /\ attr[j].key = r.key
                  /\ attr[j].name = r.name

ActiveDuplicate(r) ==
  \E j \in Jobs : /\ status[j] \in Active
                  /\ attr[j].key = r.key
                  /\ attr[j].name = r.name

Insert(j, r) ==
  /\ status[j] = "absent"
  /\ status' = [status EXCEPT ![j] = "pending"]
  /\ attr'   = [attr EXCEPT ![j] = r]
  /\ runAt'  = [runAt EXCEPT ![j] = Horizon + r.delay]
  /\ IndexAccepts(status', attr')
  /\ UNCHANGED <<attempts, lockedAt, lockedBy, slots, env>>

\* Without a dedupe key the INSERT is the only statement.
EnqueueUnkeyed(p, r, j) ==
  /\ pending[p] = NoReq
  /\ r.key = NoKey
  /\ Insert(j, r)
  /\ UNCHANGED <<calls, excused>>

\* The dedupe SELECT; a caller that finds an active job returns its id.
EnqueueCheck(p, r) ==
  /\ pending[p] = NoReq
  /\ r.key # NoKey
  /\ ~ActiveDuplicate(r)
  /\ pending' = [pending EXCEPT ![p] = r]
  /\ UNCHANGED <<table, overtaken, slots, env, excused>>

EnqueueInsert(p, j) ==
  /\ pending[p] # NoReq
  /\ Insert(j, pending[p])
  /\ pending' = [pending EXCEPT ![p] = NoReq]
  /\ overtaken' = [q \in Producers |->
       q # p /\ (overtaken[q] \/ (pending[q] # NoReq /\ SameKey(pending, p, q)))]
  /\ excused' = IF overtaken[p] THEN excused \cup {j} ELSE excused

\* The index rejected the INSERT: return the winner's id, or rethrow when the
\* winner has already left the active states.
EnqueueRejected(p) ==
  /\ pending[p] # NoReq
  /\ \E j \in Jobs :
       /\ status[j] = "absent"
       /\ ~IndexAccepts([status EXCEPT ![j] = "pending"],
                        [attr EXCEPT ![j] = pending[p]])
  /\ pending' = [pending EXCEPT ![p] = NoReq]
  /\ overtaken' = [overtaken EXCEPT ![p] = FALSE]
  /\ UNCHANGED <<table, slots, env, excused>>

-----------------------------------------------------------------------------
(* Workers: one turn of the loop in runWorker.                             *)

\* locked_at = NULL, locked_by = NULL
Unlock(S) ==
  /\ lockedAt' = [j \in Jobs |-> IF j \in S THEN 0 ELSE lockedAt[j]]
  /\ lockedBy' = [j \in Jobs |-> IF j \in S THEN Nobody ELSE lockedBy[j]]

\* Bugs: the sweep takes a row a second too early, or looks for rows without an
\* owner.
StaleEarly(j) == status[j] = "running" /\ lockedAt[j] <= Cutoff
StaleUnowned(j) == status[j] = "running" /\ lockedBy[j] = Nobody

Stale(j) == status[j] = "running" /\ lockedAt[j] < Cutoff

\* The first statement of reclaimStaleJobs: out of attempts, to the dlq.
ReclaimFailed(w) ==
  /\ \/ pc[w] = "start" /\ pc' = [pc EXCEPT ![w] = "restore"]
     \/ /\ pc[w] = "loop" /\ reclaimDue[w] /\ ReclaimAfter > 0
        /\ pc' = [pc EXCEPT ![w] = "requeue"]
  /\ LET lost == {j \in Jobs : Stale(j) /\ attempts[j] >= MaxAttempts}
     IN  /\ status'   = [j \in Jobs |-> IF j \in lost THEN "failed" ELSE status[j]]
         /\ Unlock(lost)
  /\ UNCHANGED <<attr, attempts, runAt, calls, since, qi, cur, believed, reclaimDue, env, excused>>

\* The second statement follows within the second, so with the same cutoff:
\* back to the queue.
ReclaimRequeue(w) ==
  /\ pc[w] \in {"restore", "requeue"}
  /\ LET lost == {j \in Jobs : Stale(j) /\ attempts[j] < MaxAttempts}
     IN  /\ status'   = [j \in Jobs |-> IF j \in lost THEN "pending" ELSE status[j]]
         /\ Unlock(lost)
  /\ Leave(w, IF pc[w] = "restore" THEN "loop" ELSE "poll")
  /\ reclaimDue' = [reclaimDue EXCEPT ![w] = FALSE]
  /\ UNCHANGED <<attr, attempts, runAt, calls, env, excused>>

\* claimNextJob reads the clock once and starts at the highest priority.
Poll(w) ==
  /\ \/ pc[w] = "poll"
     \/ pc[w] = "loop" /\ (ReclaimAfter > 0 => ~reclaimDue[w])
  /\ since' = [since EXCEPT ![w] = Horizon]
  /\ qi' = [qi EXCEPT ![w] = 1]
  /\ pc' = [pc EXCEPT ![w] = "select"]
  /\ UNCHANGED <<table, calls, cur, believed, reclaimDue, env, excused>>

\* Bug: one queue too many.
HasLowerPastEnd(w) == qi[w] <= Len(Queues)

HasLower(w) == qi[w] < Len(Queues)

\* claimFromQueue returned null: on to the next priority, or no job at all,
\* which ends the loop of a draining worker.
NextQueue(w) ==
  IF HasLower(w)
  THEN /\ qi' = [qi EXCEPT ![w] = @ + 1]
       /\ pc' = [pc EXCEPT ![w] = "select"]
       /\ cur' = [cur EXCEPT ![w] = NoJob]
       /\ believed' = [believed EXCEPT ![w] = 0]
       /\ UNCHANGED since
  ELSE Leave(w, IF w \in DrainOnce THEN "stopped" ELSE "loop")

Serves(w, n) == NameFilter[w] = {} \/ n \in NameFilter[w]

Due(w, q) ==
  {j \in Jobs : /\ status[j] = "pending"
                /\ runAt[j] <= since[w]
                /\ attr[j].priority = Queues[q]
                /\ Serves(w, attr[j].name)}

Select(w) ==
  /\ pc[w] = "select"
  /\ \E j \in Due(w, qi[w]) :
       /\ \A i \in Due(w, qi[w]) : runAt[j] <= runAt[i]
       /\ cur' = [cur EXCEPT ![w] = j]
       /\ believed' = [believed EXCEPT ![w] = attempts[j]]
  /\ pc' = [pc EXCEPT ![w] = "claim"]
  /\ UNCHANGED <<table, calls, since, qi, reclaimDue, env, excused>>

SelectNothing(w) ==
  /\ pc[w] = "select"
  /\ Due(w, qi[w]) = {}
  /\ NextQueue(w)
  /\ UNCHANGED <<table, calls, reclaimDue, env, excused>>

\* Bug: UPDATE ... WHERE id = ?
ClaimById(j) == TRUE

\* UPDATE ... WHERE id = ? AND status = 'pending'
ClaimGuard(j) == status[j] = "pending"

\* A job with no handler is marked failed without running.
Claim(w) ==
  LET j == cur[w] IN
  /\ pc[w] = "claim"
  /\ ClaimGuard(j)
  /\ status'   = [status EXCEPT ![j] = "running"]
  /\ lockedAt' = [lockedAt EXCEPT ![j] = since[w]]
  /\ lockedBy' = [lockedBy EXCEPT ![j] = w]
  /\ attempts' = [attempts EXCEPT ![j] = @ + 1]
  /\ believed' = [believed EXCEPT ![w] = @ + 1]
  /\ pc' = [pc EXCEPT ![w] = IF HandlerMax[attr[j].name] = 0 THEN "failing"
                                                             ELSE "running"]
  /\ UNCHANGED <<attr, runAt, calls, since, qi, cur, reclaimDue, env, excused>>

\* rowsAffected = 0: another worker took the row after our SELECT.
ClaimLost(w) ==
  /\ pc[w] = "claim"
  /\ ~ClaimGuard(cur[w])
  /\ NextQueue(w)
  /\ UNCHANGED <<table, calls, reclaimDue, env, excused>>

\* The handler returns, or it throws or overruns timeoutMs.
HandlerReturns(w) ==
  /\ pc[w] = "running"
  /\ \E to \in {"completing", "failing"} : pc' = [pc EXCEPT ![w] = to]
  /\ UNCHANGED <<table, calls, since, qi, cur, believed, reclaimDue, env, excused>>

\* The outcome statements are guarded by the id alone; a row that the dlq
\* command has deleted meanwhile is not brought back.
SetOutcome(j, st) ==
  /\ status' = [status EXCEPT ![j] = IF @ = "purged" THEN @ ELSE st]
  /\ Unlock({j})
  /\ UNCHANGED <<attr, attempts>>

WriteOutcome(w, st) ==
  /\ SetOutcome(cur[w], st)
  /\ Leave(w, "loop")
  /\ UNCHANGED <<calls, reclaimDue, env>>

MarkCompleted(w) ==
  /\ pc[w] = "completing"
  /\ WriteOutcome(w, "completed")
  /\ UNCHANGED <<runAt, excused>>

\* markCompleted is inside the try block: its failure is handled as if the
\* handler had thrown, also when the row was completed before the connection
\* broke.
MarkCompletedFails(w) ==
  /\ pc[w] = "completing"
  /\ faults < MaxFaults
  /\ faults' = faults + 1
  /\ pc' = [pc EXCEPT ![w] = "failing"]
  /\ \/ UNCHANGED table
     \/ LostReplies /\ SetOutcome(cur[w], "completed") /\ UNCHANGED runAt
  /\ UNCHANGED <<calls, since, qi, cur, believed, reclaimDue, dedupeIdx, dlqOps, excused>>

\* Bug: one retry too many.
ExhaustedLate(w) == believed[w] > HandlerMax[attr[cur[w]].name]

Exhausted(w) == believed[w] >= HandlerMax[attr[cur[w]].name]

RetryDelay(attempt) ==
  Backoff[IF attempt > Len(Backoff) THEN Len(Backoff) ELSE attempt]

MarkFailed(w) ==
  /\ pc[w] = "failing"
  /\ Exhausted(w)
  /\ WriteOutcome(w, "failed")
  /\ UNCHANGED <<runAt, excused>>

ScheduleRetry(w) ==
  /\ pc[w] = "failing"
  /\ ~Exhausted(w)
  /\ WriteOutcome(w, "pending")
  /\ IndexAccepts(status', attr)
  /\ runAt' = [runAt EXCEPT ![cur[w]] =
                 IF status[cur[w]] = "purged" THEN @
                 ELSE Horizon + RetryDelay(believed[w])]
  /\ excused' = IF status[cur[w]] \in Active \cup {"purged"} THEN excused
                ELSE excused \cup {cur[w]}

\* The unique index rejects the retry: the exception leaves executeJob and
\* ends the worker loop.
ScheduleRetryRejected(w) ==
  /\ pc[w] = "failing"
  /\ ~Exhausted(w)
  /\ status[cur[w]] # "purged"
  /\ ~IndexAccepts([status EXCEPT ![cur[w]] = "pending"], attr)
  /\ Leave(w, "down")
  /\ UNCHANGED <<table, calls, reclaimDue, env, excused>>

\* The process dies, or a statement outside the try block throws.
Crash(w) ==
  /\ pc[w] \notin {"down", "stopped"}
  /\ faults < MaxFaults
  /\ faults' = faults + 1
  /\ Leave(w, "down")
  /\ UNCHANGED <<table, calls, reclaimDue, dedupeIdx, dlqOps, excused>>

\* drainCheck: a graceful shutdown was requested.
Drain(w) ==
  /\ w \in Shutdowns
  /\ pc[w] = "loop"
  /\ pc' = [pc EXCEPT ![w] = "stopped"]
  /\ UNCHANGED <<table, calls, since, qi, cur, believed, reclaimDue, env, excused>>

\* A supervisor, or startInProcessWorker, calls runWorker again.
Restart(w) ==
  /\ pc[w] = "down"
  /\ pc' = [pc EXCEPT ![w] = Entry]
  /\ UNCHANGED <<table, calls, since, qi, cur, believed, reclaimDue, env, excused>>

-----------------------------------------------------------------------------
(* Operators: gebweb worker dlq retry | purge, one id or --all.            *)

Failed == {j \in Jobs : status[j] = "failed"}

Selection == {{j} : j \in Failed} \cup {Failed}

DlqRetry(S) ==
  /\ S # {} /\ dlqOps < MaxDlqOps
  /\ dlqOps' = dlqOps + 1
  /\ status'   = [j \in Jobs |-> IF j \in S THEN "pending" ELSE status[j]]
  /\ IndexAccepts(status', attr)
  /\ attempts' = [j \in Jobs |-> IF j \in S THEN 0 ELSE attempts[j]]
  /\ runAt'    = [j \in Jobs |-> IF j \in S THEN 0 ELSE runAt[j]]
  /\ Unlock(S)
  /\ excused' = excused \cup S
  /\ UNCHANGED <<attr, calls, slots, dedupeIdx, faults>>

DlqPurge(S) ==
  /\ S # {} /\ dlqOps < MaxDlqOps
  /\ dlqOps' = dlqOps + 1
  /\ status' = [j \in Jobs |-> IF j \in S THEN "purged" ELSE status[j]]
  /\ UNCHANGED <<attr, attempts, runAt, lockedAt, lockedBy, calls, slots,
                 dedupeIdx, faults, excused>>

-----------------------------------------------------------------------------
(* Time: one second passes.  Unless SlowWorkers, no worker takes longer    *)
(* than ReclaimAfter from the poll to the outcome, which is what           *)
(* JobConfig.reclaimAfterMs asks of the deployment.                        *)

InTime(w) == Older(since[w]) >= Cutoff

Tick ==
  /\ ~SlowWorkers => \A w \in Workers : pc[w] \in Polling \cup Owning => InTime(w)
  /\ runAt'    = [j \in Jobs |-> Older(runAt[j])]
  /\ lockedAt' = [j \in Jobs |-> Older(lockedAt[j])]
  /\ since'    = [w \in Workers |-> Older(since[w])]
  /\ reclaimDue' = [w \in Workers |-> TRUE]
  /\ UNCHANGED <<status, attr, attempts, lockedBy, calls, pc, qi, cur, believed, env, excused>>

-----------------------------------------------------------------------------
Loop(w) ==
  \/ ReclaimFailed(w) \/ ReclaimRequeue(w)
  \/ Poll(w) \/ Select(w) \/ SelectNothing(w) \/ Claim(w) \/ ClaimLost(w)
  \/ HandlerReturns(w) \/ MarkCompleted(w)
  \/ MarkFailed(w) \/ ScheduleRetry(w) \/ ScheduleRetryRejected(w)
  \/ Restart(w)

Disturb(w) == MarkCompletedFails(w) \/ Crash(w) \/ Drain(w)

Enqueue(p) ==
  \/ \E r \in Requests : EnqueueCheck(p, r)
  \/ \E r \in Requests, j \in Jobs : EnqueueUnkeyed(p, r, j)
  \/ \E j \in Jobs : EnqueueInsert(p, j)
  \/ EnqueueRejected(p)

Next ==
  \/ \E w \in Workers : Loop(w) \/ Disturb(w)
  \/ \E p \in Producers : Enqueue(p)
  \/ \E S \in Selection : DlqRetry(S) \/ DlqPurge(S)
  \/ Tick

Spec == Init /\ [][Next]_vars

(* A worker process keeps taking steps, its handlers return, and time      *)
(* passes.  Producers, operators and failures are under no obligation.     *)
FairSpec == Spec /\ (\A w \in Workers : WF_vars(Loop(w))) /\ WF_vars(Tick)

-----------------------------------------------------------------------------
(* Properties.                                                             *)

Request == [name : Names, key : Keys \cup {NoKey}, priority : Priorities, delay : Nat]

\* The type of the state: the table, the worker loops and the rest.
TableType ==
  /\ status \in [Jobs -> Status]
  /\ attr \in [Jobs -> Request]
  /\ attempts \in [Jobs -> Nat]
  /\ runAt \in [Jobs -> Nat]
  /\ lockedAt \in [Jobs -> Nat]
  /\ lockedBy \in [Jobs -> Workers \cup {Nobody}]

LoopType ==
  /\ pc \in [Workers -> PC]
  /\ since \in [Workers -> 0 .. Horizon]
  /\ qi \in [Workers -> 1 .. Len(Queues)]
  /\ cur \in [Workers -> Jobs \cup {NoJob}]
  /\ believed \in [Workers -> Nat]
  /\ reclaimDue \in [Workers -> BOOLEAN]

RestType ==
  /\ pending \in [Producers -> Requests \cup {NoReq}]
  /\ overtaken \in [Producers -> BOOLEAN]
  /\ dedupeIdx \in PartialIndex
  /\ faults \in 0 .. MaxFaults
  /\ dlqOps \in 0 .. MaxDlqOps
  /\ excused \subseteq Jobs

TypeOK == TableType /\ LoopType /\ RestType

\* jobs.gb: where there is no partial index, "the app-level guard in enqueue is
\* the portable correctness path".  That guard is a SELECT before the INSERT, and
\* a row may stay active for long, through claims, crashes, sweeps and retries.
\* Of two active jobs of one name and key, one was INSERTed although another
\* INSERT had come after its SELECT, or was queued again after it had settled,
\* by the dlq command or by an outcome that came late or was taken for lost.
DuplicatesExcused ==
  \A i, j \in Jobs :
    /\ i # j /\ SameKey(attr, i, j)
    /\ status[i] \in Active /\ status[j] \in Active
    => i \in excused \/ j \in excused

\* No two workers execute the same job at the same time: the conditional
\* UPDATE of claimFromQueue and the reclaim cutoff together are a lock.
ExclusiveExecution ==
  \A v, w \in Workers :
    pc[v] \in Owning /\ pc[w] \in Owning /\ cur[v] = cur[w] => v = w

\* A worker about to write an outcome still holds the row it writes to: the
\* outcome statements check nothing but the id.
OwnerWrites ==
  \A w \in Workers :
    pc[w] \in Owning => status[cur[w]] = "running" /\ lockedBy[cur[w]] = w

\* A completed job is never queued, run or failed again.
CompletedIsFinal ==
  [][\A j \in Jobs : status[j] = "completed" => status'[j] = "completed"]_vars

\* A worker that SELECTed a row before others ran it may still claim it after
\* they put it back, with a count that is too low.  Every other worker can do
\* so once: a job runs at most this often before it settles or is retried by
\* hand, even when claims outlive the reclaim cutoff.
Larger(m, n) == IF m < n THEN n ELSE m
Ceiling(j) == Larger(1, Larger(MaxAttempts, HandlerMax[attr[j].name]))
Overshoot == \A j \in Jobs : attempts[j] <= Ceiling(j) + Cardinality(Workers) - 1

\* Every job that is queued or running ends up completed or failed, even when
\* its worker dies: the reclaim sweep finds it.
EventuallySettles ==
  \A j \in Jobs : status[j] \in Active ~> status[j] \in {"completed", "failed", "purged"}

\* What the queue promises (JobLifecycle): a worker works on the job it has
\* claimed until it has written the outcome or dies.
Lifecycle == INSTANCE JobLifecycle WITH
  working <- [w \in Workers |-> IF pc[w] \in Owning THEN cur[w] ELSE NoJob]

\* The table and the loops of the workers implement that promise.
ImplementsLifecycle == Lifecycle!Spec
=============================================================================
