-------------------------- MODULE JobQueue_proofs --------------------------
(***************************************************************************)
(* Proofs about JobQueue, for every set of jobs, workers, producers and    *)
(* requests.                                                               *)
(***************************************************************************)
EXTENDS JobQueue, FiniteSetTheorems, TLAPS

USE DEF Active, Status, Polling, Owning, PC, Entry, table, slots, calls,
  env, SetOutcome

-----------------------------------------------------------------------------
(* Type correctness.  A retry indexes the backoff list with the count the  *)
(* worker carries, and every statement after the SELECT names its row: the *)
(* type invariant is inductive only together with these two facts.         *)

Carries ==
  \A w \in Workers :
    /\ pc[w] \in Owning \cup {"claim"} => cur[w] \in Jobs
    /\ pc[w] \in Owning => believed[w] > 0

Typed == TypeOK /\ Carries

LEMMA ConstantTypes ==
  /\ Requests \subseteq Request
  /\ (CHOOSE r \in Requests : TRUE) \in Requests
  /\ Len(Queues) \in Nat /\ Len(Queues) > 0
  /\ Horizon \in Nat /\ ReclaimAfter \in Nat /\ ReclaimAfter < Horizon
  /\ MaxFaults \in Nat /\ MaxDlqOps \in Nat
  BY JobQueueAssumption DEF Request

LEMMA RetryDelayType ==
  ASSUME NEW n \in Nat \ {0} PROVE RetryDelay(n) \in Nat
  BY JobQueueAssumption DEF RetryDelay

LEMMA DelayType ==
  ASSUME NEW r \in Request PROVE r.delay \in Nat
  BY DEF Request

\* A worker that leaves its iteration carries nothing.
LEMMA LeaveTyped ==
  ASSUME LoopType, Carries, NEW w \in Workers,
         NEW to \in {"loop", "requeue", "poll", "stopped", "down"}, Leave(w, to),
         reclaimDue' \in [Workers -> BOOLEAN]
  PROVE  LoopType' /\ Carries'
  <1>1. 0 \in 0 .. Horizon /\ 1 \in 1 .. Len(Queues)
    BY ConstantTypes
  <1>2. to \in PC
    OBVIOUS
  <1>3. LoopType'
    BY <1>1, <1>2 DEF Leave, LoopType
  <1>4. Carries'
    BY DEF Leave, LoopType, Carries
  <1> QED
    BY <1>3, <1>4

LEMMA NextQueueTyped ==
  ASSUME LoopType, Carries, NEW w \in Workers, NextQueue(w), UNCHANGED reclaimDue
  PROVE  LoopType' /\ Carries'
  <1>1. CASE HasLower(w)
    <2>1. qi[w] + 1 \in 1 .. Len(Queues)
      BY <1>1, ConstantTypes DEF HasLower, LoopType
    <2>2. /\ pc' = [pc EXCEPT ![w] = "select"] /\ qi' = [qi EXCEPT ![w] = qi[w] + 1]
          /\ cur' = [cur EXCEPT ![w] = NoJob] /\ believed' = [believed EXCEPT ![w] = 0]
          /\ since' = since
      BY <1>1, Zenon DEF NextQueue
    <2>3. LoopType'
      BY <2>1, <2>2 DEF LoopType
    <2>4. Carries'
      BY <2>2 DEF LoopType, Carries
    <2> QED
      BY <2>3, <2>4
  <1>2. CASE ~HasLower(w)
    <2>1. Leave(w, IF w \in DrainOnce THEN "stopped" ELSE "loop")
      BY <1>2 DEF NextQueue
    <2> QED
      BY <2>1, LeaveTyped DEF LoopType
  <1> QED
    BY <1>1, <1>2

LEMMA WriteOutcomeTyped ==
  ASSUME Typed, NEW w \in Workers, pc[w] \in Owning,
         NEW st \in {"completed", "failed", "pending"}, WriteOutcome(w, st),
         runAt' \in [Jobs -> Nat], excused' \subseteq Jobs
  PROVE  Typed'
  <1>1. LoopType' /\ Carries'
    BY LeaveTyped DEF WriteOutcome, Typed, TypeOK, LoopType
  <1>2. TableType' /\ RestType'
    BY DEF WriteOutcome, Unlock, Typed, TypeOK, TableType, RestType, Carries
  <1> QED
    BY <1>1, <1>2 DEF Typed, TypeOK

LEMMA InsertTyped ==
  ASSUME Typed, NEW j \in Jobs, NEW r \in Requests, Insert(j, r)
  PROVE  TableType'
  BY ConstantTypes, DelayType DEF Insert, Typed, TypeOK, TableType

LEMMA TypedInit == Init => Typed
  BY ConstantTypes DEF Init, Typed, TypeOK, TableType, LoopType, RestType, Carries

LEMMA TypedStep == Typed /\ [Next]_vars => Typed'
  <1> SUFFICES ASSUME Typed PROVE [Next]_vars => Typed'
    OBVIOUS
  <1>1. ASSUME NEW w \in Workers, ReclaimFailed(w) PROVE Typed'
    BY <1>1 DEF ReclaimFailed, Unlock, Typed, TypeOK, TableType, LoopType, RestType, Carries
  <1>2. ASSUME NEW w \in Workers, ReclaimRequeue(w) PROVE Typed'
    <2>1. LoopType' /\ Carries'
      BY <1>2, LeaveTyped DEF ReclaimRequeue, Typed, TypeOK, LoopType
    <2>2. TableType' /\ RestType'
      BY <1>2 DEF ReclaimRequeue, Unlock, Typed, TypeOK, TableType, RestType
    <2> QED
      BY <2>1, <2>2 DEF Typed, TypeOK
  <1>3. ASSUME NEW w \in Workers, Poll(w) PROVE Typed'
    BY <1>3, ConstantTypes DEF Poll, Typed, TypeOK, TableType, LoopType, RestType, Carries
  <1>4. ASSUME NEW w \in Workers, Select(w) PROVE Typed'
    <2>1. TableType' /\ RestType'
      BY <1>4 DEF Select, Typed, TypeOK, TableType, RestType
    <2>2. LoopType' /\ Carries'
      BY <1>4 DEF Select, Due, Typed, TypeOK, TableType, LoopType, Carries
    <2> QED
      BY <2>1, <2>2 DEF Typed, TypeOK
  <1>5. ASSUME NEW w \in Workers, SelectNothing(w) PROVE Typed'
    BY <1>5, NextQueueTyped DEF SelectNothing, Typed, TypeOK, TableType, RestType
  <1>6. ASSUME NEW w \in Workers, Claim(w) PROVE Typed'
    <2>1. TableType' /\ RestType'
      BY <1>6, ConstantTypes, SMTT(30) DEF Claim, Typed, TypeOK, TableType, LoopType, RestType, Carries
    <2>2. LoopType' /\ Carries'
      BY <1>6 DEF Claim, Typed, TypeOK, LoopType, Carries
    <2> QED
      BY <2>1, <2>2 DEF Typed, TypeOK
  <1>7. ASSUME NEW w \in Workers, ClaimLost(w) PROVE Typed'
    BY <1>7, NextQueueTyped DEF ClaimLost, Typed, TypeOK, TableType, RestType
  <1>8. ASSUME NEW w \in Workers, HandlerReturns(w) PROVE Typed'
    BY <1>8, SMTT(30) DEF HandlerReturns, Typed, TypeOK, TableType, LoopType, RestType, Carries
  <1>9. ASSUME NEW w \in Workers, MarkCompleted(w) PROVE Typed'
    BY <1>9, WriteOutcomeTyped DEF MarkCompleted, Typed, TypeOK, TableType, RestType
  <1>10. ASSUME NEW w \in Workers, MarkCompletedFails(w) PROVE Typed'
    <2>1. TableType'
      BY <1>10 DEF MarkCompletedFails, Unlock, Typed, TypeOK, TableType
    <2>2. LoopType' /\ Carries'
      BY <1>10 DEF MarkCompletedFails, Typed, TypeOK, LoopType, Carries
    <2>3. RestType'
      BY <1>10, ConstantTypes DEF MarkCompletedFails, Typed, TypeOK, RestType
    <2> QED
      BY <2>1, <2>2, <2>3 DEF Typed, TypeOK
  <1>11. ASSUME NEW w \in Workers, MarkFailed(w) PROVE Typed'
    BY <1>11, WriteOutcomeTyped DEF MarkFailed, Typed, TypeOK, TableType, RestType
  <1>12. ASSUME NEW w \in Workers, ScheduleRetry(w) PROVE Typed'
    <2>1. RetryDelay(believed[w]) \in Nat
      BY <1>12, RetryDelayType DEF ScheduleRetry, Typed, TypeOK, LoopType, Carries
    <2>2. runAt' \in [Jobs -> Nat]
      <3>1. Horizon + RetryDelay(believed[w]) \in Nat
        BY <2>1, ConstantTypes
      <3>2. runAt \in [Jobs -> Nat]
        BY DEF Typed, TypeOK, TableType
      <3> QED
        BY <1>12, <3>1, <3>2 DEF ScheduleRetry
    <2>3. excused' \subseteq Jobs
      BY <1>12 DEF ScheduleRetry, Typed, TypeOK, RestType, Carries
    <2> QED
      BY <1>12, <2>2, <2>3, WriteOutcomeTyped DEF ScheduleRetry
  <1>13. ASSUME NEW w \in Workers, ScheduleRetryRejected(w) PROVE Typed'
    BY <1>13, LeaveTyped
       DEF ScheduleRetryRejected, Typed, TypeOK, TableType, LoopType, RestType
  <1>14. ASSUME NEW w \in Workers, Crash(w) PROVE Typed'
    <2>1. LoopType' /\ Carries'
      BY <1>14, LeaveTyped DEF Crash, Typed, TypeOK, LoopType
    <2>2. TableType' /\ RestType'
      BY <1>14, ConstantTypes DEF Crash, Typed, TypeOK, TableType, RestType
    <2> QED
      BY <2>1, <2>2 DEF Typed, TypeOK
  <1>15. ASSUME NEW w \in Workers, Drain(w) PROVE Typed'
    BY <1>15 DEF Drain, Typed, TypeOK, TableType, LoopType, RestType, Carries
  <1>16. ASSUME NEW w \in Workers, Restart(w) PROVE Typed'
    BY <1>16 DEF Restart, Typed, TypeOK, TableType, LoopType, RestType, Carries
  <1>17. ASSUME NEW p \in Producers, Enqueue(p) PROVE Typed'
    <2> USE DEF Typed, TypeOK, LoopType, RestType, Carries
    <2>1. ASSUME NEW r \in Requests, EnqueueCheck(p, r) PROVE Typed'
      BY <2>1 DEF EnqueueCheck, TableType
    <2>2. ASSUME NEW r \in Requests, NEW j \in Jobs, EnqueueUnkeyed(p, r, j) PROVE Typed'
      <3>1. TableType'
        BY <2>2, InsertTyped DEF EnqueueUnkeyed
      <3> QED
        BY <2>2, <3>1 DEF EnqueueUnkeyed, Insert
    <2>3. ASSUME NEW j \in Jobs, EnqueueInsert(p, j) PROVE Typed'
      <3>1. TableType'
        BY <2>3, InsertTyped DEF EnqueueInsert
      <3> QED
        BY <2>3, <3>1 DEF EnqueueInsert, Insert
    <2>4. ASSUME EnqueueRejected(p) PROVE Typed'
      BY <2>4 DEF EnqueueRejected, TableType
    <2> QED
      BY <1>17, <2>1, <2>2, <2>3, <2>4 DEF Enqueue
  <1>18. ASSUME NEW S \in Selection, DlqRetry(S) PROVE Typed'
    BY <1>18, ConstantTypes, SMTT(30)
       DEF DlqRetry, Selection, Failed, Unlock, Typed, TypeOK, TableType, LoopType, RestType, Carries
  <1>19. ASSUME NEW S \in Selection, DlqPurge(S) PROVE Typed'
    BY <1>19, ConstantTypes
       DEF DlqPurge, Typed, TypeOK, TableType, LoopType, RestType, Carries
  <1>20. ASSUME Tick PROVE Typed'
    <2>1. TableType' /\ RestType'
      BY <1>20 DEF Tick, Older, Typed, TypeOK, TableType, RestType
    <2>2. LoopType' /\ Carries'
      BY <1>20, ConstantTypes DEF Tick, Older, Typed, TypeOK, LoopType, Carries
    <2> QED
      BY <2>1, <2>2 DEF Typed, TypeOK
  <1>21. ASSUME UNCHANGED vars PROVE Typed'
    BY <1>21 DEF vars, Typed, TypeOK, TableType, LoopType, RestType, Carries
  <1> QED
    BY <1>1, <1>2, <1>3, <1>4, <1>5, <1>6, <1>7, <1>8, <1>9, <1>10, <1>11,
       <1>12, <1>13, <1>14, <1>15, <1>16, <1>17, <1>18, <1>19, <1>20, <1>21
       DEF Next, Loop, Disturb

\* In every reachable state the table, the worker loops and the producers are
\* well typed, and a worker past its SELECT names a row.
THEOREM TypeCorrect == Spec => []TypeOK
  <1>1. Typed => TypeOK
    BY DEF Typed
  <1> QED
    BY <1>1, TypedInit, TypedStep, PTL DEF Spec
-----------------------------------------------------------------------------
(* The lock.  When no worker outlives ReclaimAfter and no UPDATE that       *)
(* completes a job is reported as failed, the claim of a worker is still  *)
(* its own: the row carries its id and the instant of its poll, and that   *)
(* instant is not yet old enough for the reclaim sweep.                    *)

Fresh(w) == pc[w] \in Polling \cup Owning => since[w] >= Cutoff

Holds(w) ==
  pc[w] \in Owning =>
    /\ status[cur[w]] = "running"
    /\ lockedBy[cur[w]] = w
    /\ lockedAt[cur[w]] = since[w]

Locked == \A w \in Workers : Fresh(w) /\ Holds(w)

\* What a step has to leave alone for the claim of a worker to survive it.
Untouched(w) ==
  /\ pc'[w] = pc[w] /\ cur'[w] = cur[w] /\ since'[w] = since[w]
  /\ pc[w] \in Owning =>
       /\ status'[cur[w]] = status[cur[w]]
       /\ lockedBy'[cur[w]] = lockedBy[cur[w]]
       /\ lockedAt'[cur[w]] = lockedAt[cur[w]]

LEMMA Frame ==
  ASSUME NEW w \in Workers, Fresh(w), Holds(w), Untouched(w)
  PROVE  Fresh(w)' /\ Holds(w)'
  BY DEF Fresh, Holds, Untouched, Cutoff

LEMMA LeaveFresh ==
  ASSUME Typed, NEW w \in Workers, Leave(w, pc'[w]),
         pc'[w] \notin Polling \cup Owning
  PROVE  Fresh(w)' /\ Holds(w)'
  BY DEF Fresh, Holds

LEMMA LeaveOthers ==
  ASSUME Typed, NEW w \in Workers, NEW to, Leave(w, to)
  PROVE  /\ pc'[w] = to
         /\ \A v \in Workers \ {w} :
              pc'[v] = pc[v] /\ cur'[v] = cur[v] /\ since'[v] = since[v]
  BY DEF Leave, Typed, TypeOK, LoopType

\* The row of a job that a worker holds is neither stale nor held by another.
LEMMA HeldRow ==
  ASSUME Typed, Locked, NEW w \in Workers, pc[w] \in Owning
  PROVE  /\ cur[w] \in Jobs
         /\ status[cur[w]] = "running"
         /\ ~Stale(cur[w])
         /\ \A v \in Workers : pc[v] \in Owning /\ cur[v] = cur[w] => v = w
  <1>1. cur[w] \in Jobs /\ since[w] \in Nat
    BY DEF Typed, TypeOK, LoopType, Carries
  <1>2. since[w] >= Cutoff /\ lockedAt[cur[w]] = since[w] /\ status[cur[w]] = "running"
    BY DEF Locked, Fresh, Holds
  <1>3. ~(since[w] < Cutoff)
    BY <1>1, <1>2, ConstantTypes DEF Cutoff
  <1>4. ~Stale(cur[w])
    BY <1>2, <1>3 DEF Stale
  <1>5. \A v \in Workers : pc[v] \in Owning /\ cur[v] = cur[w] => v = w
    BY DEF Locked, Holds
  <1> QED
    BY <1>1, <1>2, <1>4, <1>5

\* The outcome of one worker touches no row that another one holds.
LEMMA WriteOutcomeLocked ==
  ASSUME Typed, Locked, NEW w \in Workers, pc[w] \in Owning, NEW st,
         WriteOutcome(w, st)
  PROVE  Locked'
  <1>1. pc'[w] = "loop"
    BY LeaveOthers DEF WriteOutcome
  <1>2. ASSUME NEW v \in Workers, v # w PROVE Untouched(v)
    <2>1. pc'[v] = pc[v] /\ cur'[v] = cur[v] /\ since'[v] = since[v]
      BY <1>2, LeaveOthers DEF WriteOutcome
    <2>2. CASE pc[v] \in Owning
      <3>1. cur[v] # cur[w] /\ cur[v] \in Jobs
        BY <1>2, <2>2, HeldRow
      <3> QED
        BY <2>1, <3>1 DEF WriteOutcome, Unlock, Untouched, Typed, TypeOK, TableType
    <2> QED
      BY <2>1, <2>2 DEF Untouched
  <1> QED
    BY <1>1, <1>2, Frame DEF Locked, Fresh, Holds

LEMMA LockedInit == Init => Locked
  BY DEF Init, Locked, Fresh, Holds

\* A step of worker w that leaves the rows alone only has to answer for w.
LEMMA QuietStep ==
  ASSUME Locked, NEW w \in Workers,
         UNCHANGED <<status, lockedAt, lockedBy>>,
         \A v \in Workers \ {w} :
           pc'[v] = pc[v] /\ cur'[v] = cur[v] /\ since'[v] = since[v],
         Fresh(w)' /\ Holds(w)'
  PROVE  Locked'
  BY Frame DEF Locked, Untouched

LEMMA LeaveLocked ==
  ASSUME Typed, Locked, NEW w \in Workers, UNCHANGED <<status, lockedAt, lockedBy>>,
         NEW to \in {"loop", "requeue", "poll", "stopped", "down"}, Leave(w, to)
  PROVE  Locked'
  <1>1. Fresh(w)' /\ Holds(w)'
    BY LeaveOthers DEF Fresh, Holds
  <1> QED
    BY <1>1, QuietStep, LeaveOthers

LEMMA NextQueueLocked ==
  ASSUME Typed, Locked, NEW w \in Workers, UNCHANGED <<status, lockedAt, lockedBy>>,
         NextQueue(w), pc[w] \in Polling
  PROVE  Locked'
  <1>1. CASE HasLower(w)
    <2>1. /\ pc' = [pc EXCEPT ![w] = "select"]
          /\ cur' = [cur EXCEPT ![w] = NoJob]
          /\ since' = since
      BY <1>1, Zenon DEF NextQueue
    <2>2. Fresh(w)' /\ Holds(w)'
      BY <2>1 DEF Locked, Fresh, Holds, Typed, TypeOK, LoopType, Cutoff
    <2>3. \A v \in Workers \ {w} :
            pc'[v] = pc[v] /\ cur'[v] = cur[v] /\ since'[v] = since[v]
      BY <2>1 DEF Typed, TypeOK, LoopType
    <2> QED
      BY <2>2, <2>3, QuietStep
  <1>2. CASE ~HasLower(w)
    BY <1>2, LeaveLocked DEF NextQueue
  <1> QED
    BY <1>1, <1>2

\* A step of anybody but a worker, which no row that a worker holds sees.
LEMMA OutsideStep ==
  ASSUME Typed, Locked, UNCHANGED slots,
         \A j \in Jobs : status[j] = "running" =>
           /\ status'[j] = "running"
           /\ lockedBy'[j] = lockedBy[j]
           /\ lockedAt'[j] = lockedAt[j]
  PROVE  Locked'
  <1>1. ASSUME NEW v \in Workers PROVE Untouched(v)
    BY HeldRow DEF Untouched
  <1> QED
    BY <1>1, Frame DEF Locked

LEMMA LockedStep ==
  ASSUME ~SlowWorkers, ~LostReplies, Typed, Locked
  PROVE  [Next]_vars => Locked'
  <1> USE DEF Typed, TypeOK, LoopType, TableType
  <1>1. ASSUME NEW w \in Workers, ReclaimFailed(w) PROVE Locked'
    <2>1. Fresh(w)' /\ Holds(w)'
      BY <1>1 DEF ReclaimFailed, Fresh, Holds
    <2>2. ASSUME NEW v \in Workers, v # w PROVE Untouched(v)
      BY <1>1, <2>2, HeldRow DEF ReclaimFailed, Unlock, Untouched
    <2> QED
      BY <2>1, <2>2, Frame DEF Locked
  <1>2. ASSUME NEW w \in Workers, ReclaimRequeue(w) PROVE Locked'
    <2>1. Fresh(w)' /\ Holds(w)'
      BY <1>2, LeaveOthers DEF ReclaimRequeue, Fresh, Holds
    <2>2. ASSUME NEW v \in Workers, v # w PROVE Untouched(v)
      <3>1. pc'[v] = pc[v] /\ cur'[v] = cur[v] /\ since'[v] = since[v]
        BY <1>2, <2>2, LeaveOthers DEF ReclaimRequeue
      <3> QED
        BY <1>2, <3>1, HeldRow DEF ReclaimRequeue, Unlock, Untouched
    <2> QED
      BY <2>1, <2>2, Frame DEF Locked
  <1>3. ASSUME NEW w \in Workers, Poll(w) PROVE Locked'
    <2>1. Fresh(w)' /\ Holds(w)'
      BY <1>3, ConstantTypes DEF Poll, Fresh, Holds, Cutoff
    <2> QED
      BY <1>3, <2>1, QuietStep DEF Poll
  <1>4. ASSUME NEW w \in Workers, Select(w) PROVE Locked'
    <2>1. Fresh(w)' /\ Holds(w)'
      BY <1>4 DEF Select, Locked, Fresh, Holds, Cutoff
    <2> QED
      BY <1>4, <2>1, QuietStep DEF Select
  <1>5. ASSUME NEW w \in Workers, SelectNothing(w) PROVE Locked'
    BY <1>5, NextQueueLocked DEF SelectNothing
  <1>6. ASSUME NEW w \in Workers, Claim(w) PROVE Locked'
    <2>1. cur[w] \in Jobs /\ since[w] >= Cutoff
      BY <1>6 DEF Claim, Carries, Locked, Fresh
    <2>2. Fresh(w)' /\ Holds(w)'
      BY <1>6, <2>1 DEF Claim, Fresh, Holds, Cutoff
    <2>3. ASSUME NEW v \in Workers, v # w PROVE Untouched(v)
      BY <1>6, <2>1, <2>3, HeldRow DEF Claim, ClaimGuard, Untouched
    <2> QED
      BY <2>2, <2>3, Frame DEF Locked
  <1>7. ASSUME NEW w \in Workers, ClaimLost(w) PROVE Locked'
    BY <1>7, NextQueueLocked DEF ClaimLost
  <1>8. ASSUME NEW w \in Workers, HandlerReturns(w) \/ MarkCompletedFails(w)
        PROVE Locked'
    <2>1. Fresh(w)' /\ Holds(w)'
      BY <1>8 DEF HandlerReturns, MarkCompletedFails, Locked, Fresh, Holds, Cutoff
    <2> QED
      BY <1>8, <2>1, QuietStep DEF HandlerReturns, MarkCompletedFails
  <1>9. ASSUME NEW w \in Workers, MarkCompleted(w) \/ MarkFailed(w) \/ ScheduleRetry(w)
        PROVE Locked'
    BY <1>9, WriteOutcomeLocked DEF MarkCompleted, MarkFailed, ScheduleRetry
  <1>10. ASSUME NEW w \in Workers, ScheduleRetryRejected(w) \/ Crash(w) PROVE Locked'
    BY <1>10, LeaveLocked DEF ScheduleRetryRejected, Crash
  <1>11. ASSUME NEW w \in Workers, Drain(w) \/ Restart(w) PROVE Locked'
    <2>1. Fresh(w)' /\ Holds(w)'
      BY <1>11 DEF Drain, Restart, Fresh, Holds
    <2> QED
      BY <1>11, <2>1, QuietStep DEF Drain, Restart
  <1>12. ASSUME NEW p \in Producers, Enqueue(p) PROVE Locked'
    BY <1>12, OutsideStep
       DEF Enqueue, EnqueueCheck, EnqueueUnkeyed, EnqueueInsert, EnqueueRejected, Insert
  <1>13. ASSUME NEW S \in Selection, DlqRetry(S) PROVE Locked'
    BY <1>13, OutsideStep DEF DlqRetry, Unlock, Selection, Failed
  <1>14. ASSUME NEW S \in Selection, DlqPurge(S) PROVE Locked'
    BY <1>14, OutsideStep DEF DlqPurge, Selection, Failed
  <1>15. ASSUME Tick PROVE Locked'
    <2>1. ASSUME NEW w \in Workers PROVE Fresh(w)'
      BY <1>15 DEF Tick, InTime, Fresh, Cutoff
    <2>2. ASSUME NEW w \in Workers PROVE Holds(w)'
      BY <1>15, HeldRow DEF Tick, Holds, Locked
    <2> QED
      BY <2>1, <2>2 DEF Locked
  <1>16. ASSUME UNCHANGED vars PROVE Locked'
    BY <1>16 DEF vars, Locked, Fresh, Holds, Cutoff
  <1> QED
    BY <1>1, <1>2, <1>3, <1>4, <1>5, <1>6, <1>7, <1>8, <1>9, <1>10, <1>11,
       <1>12, <1>13, <1>14, <1>15, <1>16 DEF Next, Loop, Disturb

LEMMA LockInvariant ==
  ASSUME ~SlowWorkers, ~LostReplies PROVE Spec => [](Typed /\ Locked)
  <1>1. Typed /\ Locked /\ [Next]_vars => Typed' /\ Locked'
    BY TypedStep, LockedStep
  <1> QED
    BY <1>1, TypedInit, LockedInit, PTL DEF Spec

\* No worker outlives ReclaimAfter and no completion is reported as failed: then
\* a worker that is about to write an outcome still holds the row.
THEOREM OutcomesAreOwned == ASSUME ~SlowWorkers, ~LostReplies PROVE Spec => []OwnerWrites
  <1>1. Locked => OwnerWrites
    BY DEF Locked, Holds, OwnerWrites
  <1> QED
    BY <1>1, LockInvariant, PTL

\* ... and no two workers execute the same job.
THEOREM MutualExclusion == ASSUME ~SlowWorkers, ~LostReplies PROVE Spec => []ExclusiveExecution
  <1>1. Locked => ExclusiveExecution
    BY DEF Locked, Holds, ExclusiveExecution
  <1> QED
    BY <1>1, LockInvariant, PTL

-----------------------------------------------------------------------------
(* Refinement: the table and the loops implement JobLifecycle.  Everything *)
(* the queue promises about the status of a job follows, CompletedIsFinal  *)
(* among it.                                                               *)

Working == [w \in Workers |-> IF pc[w] \in Owning THEN cur[w] ELSE NoJob]

\* A statement that turns the rows of S to st.
LEMMA MoveRows ==
  ASSUME Typed, NEW S \in SUBSET Jobs, NEW st,
         status' = [j \in Jobs |-> IF j \in S THEN st ELSE status[j]]
  PROVE  Lifecycle!Move(S, st)
  BY DEF Lifecycle!Move

LEMMA MoveRow ==
  ASSUME Typed, NEW j \in Jobs, NEW st, status' = [status EXCEPT ![j] = st]
  PROVE  Lifecycle!Move({j}, st)
  BY DEF Lifecycle!Move, Typed, TypeOK, TableType

\* A step after which the same workers own the same jobs.
LEMMA SameWork ==
  ASSUME Typed, \A w \in Workers :
           /\ pc'[w] \in Owning <=> pc[w] \in Owning
           /\ pc[w] \in Owning => cur'[w] = cur[w]
  PROVE  Working' = Working
  BY DEF Working

\* A worker that gives up its job; it must have had one.
LEMMA EndWork ==
  ASSUME Typed, NEW w \in Workers, pc'[w] \notin Owning,
         \A v \in Workers \ {w} : pc'[v] = pc[v] /\ cur'[v] = cur[v]
  PROVE  Working' = [Working EXCEPT ![w] = NoJob]
  BY DEF Working

\* Nobody works on a stale row.
LEMMA NobodyWorksOnStale ==
  ASSUME Typed, Locked, NEW w \in Workers, NEW j \in Jobs, Stale(j)
  PROVE  Working[w] # j
  BY HeldRow, JobQueueAssumption DEF Working

LEMMA LifecycleInit == Init => Lifecycle!Init
  BY DEF Init, Lifecycle!Init

Step == [Lifecycle!Next]_(Lifecycle!vars)

LEMMA Stutter ==
  ASSUME UNCHANGED status, Working' = Working PROVE Step
  BY DEF Step, Lifecycle!vars, Working

LEMMA RecoverStep ==
  ASSUME Typed, Locked, Working' = Working,
         NEW S \in SUBSET Jobs, \A j \in S : Stale(j),
         NEW st \in {"pending", "failed"},
         status' = [j \in Jobs |-> IF j \in S THEN st ELSE status[j]]
  PROVE  Step
  <1>1. Lifecycle!Move(S, st)
    BY MoveRows
  <1>2. \A w \in Workers : Working[w] \notin S
    BY NobodyWorksOnStale
  <1>3. Lifecycle!In(S, "running")
    BY DEF Lifecycle!In, Stale
  <1>4. Lifecycle!Recover(S)
    BY <1>1, <1>2, <1>3 DEF Lifecycle!Recover, Working
  <1> QED
    BY <1>4 DEF Step, Lifecycle!Next

LEMMA FinishStep ==
  ASSUME Typed, Locked, NEW w \in Workers, pc[w] \in Owning,
         NEW st \in {"completed", "pending", "failed"}, WriteOutcome(w, st)
  PROVE  Step
  <1>1. cur[w] \in Jobs /\ status[cur[w]] = "running"
    BY HeldRow
  <1>2. Working[w] = cur[w] /\ Working[w] # NoJob
    BY <1>1, JobQueueAssumption DEF Working
  <1>3. Lifecycle!Move({Working[w]}, st)
    BY <1>1, <1>2, MoveRow DEF WriteOutcome, Typed, TypeOK, TableType
  <1>4. Working' = [Working EXCEPT ![w] = NoJob]
    BY EndWork, LeaveOthers DEF WriteOutcome
  <1>5. Lifecycle!Finish(w)
    BY <1>1, <1>2, <1>3, <1>4 DEF Lifecycle!Finish, Working
  <1> QED
    BY <1>5 DEF Step, Lifecycle!Next

LEMMA LeaveStep ==
  ASSUME Typed, NEW w \in Workers, UNCHANGED status,
         NEW to \in {"loop", "requeue", "poll", "stopped", "down"}, Leave(w, to)
  PROVE  Step
  <1>1. Working' = [Working EXCEPT ![w] = NoJob]
    BY EndWork, LeaveOthers
  <1>2. CASE Working[w] = NoJob
    BY <1>1, <1>2, Stutter DEF Working
  <1>3. CASE Working[w] # NoJob
    <2>1. Lifecycle!Die(w)
      BY <1>1, <1>3 DEF Lifecycle!Die, Working
    <2> QED
      BY <2>1 DEF Step, Lifecycle!Next
  <1> QED
    BY <1>2, <1>3

LEMMA NextQueueStep ==
  ASSUME Typed, NEW w \in Workers, UNCHANGED status, NextQueue(w), pc[w] \in Polling
  PROVE  Step
  <1>1. CASE HasLower(w)
    <2>1. pc' = [pc EXCEPT ![w] = "select"] /\ cur' = [cur EXCEPT ![w] = NoJob]
      BY <1>1, Zenon DEF NextQueue
    <2> QED
      BY <2>1, SameWork, Stutter DEF Typed, TypeOK, LoopType
  <1>2. CASE ~HasLower(w)
    BY <1>2, LeaveStep DEF NextQueue
  <1> QED
    BY <1>1, <1>2

LEMMA SubmitStep ==
  ASSUME Typed, NEW j \in Jobs, NEW r, Insert(j, r)
  PROVE  Step
  <1>1. Lifecycle!Move({j}, "pending")
    BY MoveRow DEF Insert
  <1>2. Working' = Working
    BY SameWork DEF Insert
  <1>3. Lifecycle!Submit(j)
    BY <1>1, <1>2 DEF Lifecycle!Submit, Insert, Working
  <1> QED
    BY <1>3 DEF Step, Lifecycle!Next

LEMMA LifecycleStep ==
  ASSUME ~LostReplies, Typed, Locked PROVE [Next]_vars => Step
  <1>1. ASSUME NEW w \in Workers, ReclaimFailed(w) PROVE Step
    <2>1. Working' = Working
      BY <1>1, SameWork DEF ReclaimFailed, Typed, TypeOK, LoopType
    <2> DEFINE lost == {j \in Jobs : Stale(j) /\ attempts[j] >= MaxAttempts}
    <2>2. status' = [j \in Jobs |-> IF j \in lost THEN "failed" ELSE status[j]]
      BY <1>1 DEF ReclaimFailed
    <2> QED
      BY <2>1, <2>2, RecoverStep
  <1>2. ASSUME NEW w \in Workers, ReclaimRequeue(w) PROVE Step
    <2>1. Working' = Working
      <3>1. pc'[w] \notin Owning /\ pc[w] \notin Owning
        BY <1>2, LeaveOthers DEF ReclaimRequeue
      <3>2. \A v \in Workers \ {w} : pc'[v] = pc[v] /\ cur'[v] = cur[v]
        BY <1>2, LeaveOthers DEF ReclaimRequeue
      <3> QED
        BY <3>1, <3>2, SameWork
    <2> DEFINE lost == {j \in Jobs : Stale(j) /\ attempts[j] < MaxAttempts}
    <2>2. status' = [j \in Jobs |-> IF j \in lost THEN "pending" ELSE status[j]]
      BY <1>2 DEF ReclaimRequeue
    <2> QED
      BY <2>1, <2>2, RecoverStep
  <1>3. ASSUME NEW w \in Workers, Poll(w) \/ Select(w) PROVE Step
    <2>1. pc'[w] \notin Owning /\ pc[w] \notin Owning
      BY <1>3 DEF Poll, Select, Typed, TypeOK, LoopType
    <2>2. \A v \in Workers \ {w} : pc'[v] = pc[v] /\ cur'[v] = cur[v]
      BY <1>3 DEF Poll, Select, Typed, TypeOK, LoopType
    <2>3. Working' = Working
      BY <2>1, <2>2, SameWork
    <2> QED
      BY <1>3, <2>3, Stutter DEF Poll, Select
  <1>4. ASSUME NEW w \in Workers, SelectNothing(w) \/ ClaimLost(w) PROVE Step
    BY <1>4, NextQueueStep DEF SelectNothing, ClaimLost
  <1>5. ASSUME NEW w \in Workers, Claim(w) PROVE Step
    <2>1. cur[w] \in Jobs /\ status[cur[w]] = "pending" /\ Working[w] = NoJob
      BY <1>5 DEF Claim, ClaimGuard, Typed, Carries, Working
    <2>2. Lifecycle!Move({cur[w]}, "running")
      BY <1>5, <2>1, MoveRow DEF Claim
    <2>3. Working' = [Working EXCEPT ![w] = cur[w]]
      <3>1. pc[w] \notin Owning /\ cur' = cur
        BY <1>5 DEF Claim
      <3>2. pc'[w] \in Owning /\ \A v \in Workers \ {w} : pc'[v] = pc[v]
        BY <1>5 DEF Claim, Typed, TypeOK, LoopType
      <3> QED
        BY <3>1, <3>2 DEF Working
    <2>4. Lifecycle!Take(w, cur[w])
      BY <2>1, <2>2, <2>3 DEF Lifecycle!Take, Working
    <2> QED
      BY <2>1, <2>4 DEF Step, Lifecycle!Next, Lifecycle!Take
  <1>6. ASSUME NEW w \in Workers, HandlerReturns(w) \/ MarkCompletedFails(w) PROVE Step
    <2>1. Working' = Working
      BY <1>6, SameWork DEF HandlerReturns, MarkCompletedFails, Typed, TypeOK, LoopType
    <2> QED
      BY <1>6, <2>1, Stutter DEF HandlerReturns, MarkCompletedFails
  <1>7. ASSUME NEW w \in Workers, MarkCompleted(w) \/ MarkFailed(w) \/ ScheduleRetry(w)
        PROVE Step
    BY <1>7, FinishStep DEF MarkCompleted, MarkFailed, ScheduleRetry
  <1>8. ASSUME NEW w \in Workers, ScheduleRetryRejected(w) \/ Crash(w) PROVE Step
    BY <1>8, LeaveStep DEF ScheduleRetryRejected, Crash
  <1>9. ASSUME NEW w \in Workers, Drain(w) \/ Restart(w) PROVE Step
    <2>1. Working' = Working
      BY <1>9, SameWork DEF Drain, Restart, Typed, TypeOK, LoopType
    <2> QED
      BY <1>9, <2>1, Stutter DEF Drain, Restart
  <1>10. ASSUME NEW p \in Producers, Enqueue(p) PROVE Step
    <2>1. CASE \E r \in Requests : EnqueueCheck(p, r)
      BY <2>1, SameWork, Stutter DEF EnqueueCheck
    <2>2. CASE \E r \in Requests, j \in Jobs : EnqueueUnkeyed(p, r, j)
      BY <2>2, SubmitStep DEF EnqueueUnkeyed
    <2>3. CASE \E j \in Jobs : EnqueueInsert(p, j)
      BY <2>3, SubmitStep DEF EnqueueInsert
    <2>4. CASE EnqueueRejected(p)
      BY <2>4, SameWork, Stutter DEF EnqueueRejected
    <2> QED
      BY <1>10, <2>1, <2>2, <2>3, <2>4 DEF Enqueue
  <1>11. ASSUME NEW S \in Selection, DlqRetry(S) \/ DlqPurge(S) PROVE Step
    <2>1. S \in SUBSET Jobs /\ Lifecycle!In(S, "failed")
      BY DEF Selection, Failed, Lifecycle!In
    <2>2. Working' = Working
      BY <1>11, SameWork DEF DlqRetry, DlqPurge
    <2>3. Lifecycle!Revive(S) \/ Lifecycle!Discard(S)
      BY <1>11, <2>1, <2>2, MoveRows
         DEF DlqRetry, DlqPurge, Lifecycle!Revive, Lifecycle!Discard, Working
    <2> QED
      BY <2>1, <2>3 DEF Step, Lifecycle!Next
  <1>12. ASSUME Tick PROVE Step
    <2>1. Working' = Working
      BY <1>12, SameWork DEF Tick
    <2> QED
      BY <1>12, <2>1, Stutter DEF Tick
  <1>13. ASSUME UNCHANGED vars PROVE Step
    <2>1. Working' = Working
      BY <1>13, SameWork DEF vars
    <2> QED
      BY <1>13, <2>1, Stutter DEF vars
  <1> QED
    BY <1>1, <1>2, <1>3, <1>4, <1>5, <1>6, <1>7, <1>8, <1>9, <1>10, <1>11, <1>12, <1>13
       DEF Next, Loop, Disturb

\* Under the same two conditions the queue implements JobLifecycle.
THEOREM Refinement == ASSUME ~SlowWorkers, ~LostReplies PROVE Spec => ImplementsLifecycle
  <1>1. Typed /\ Locked /\ [Next]_vars => [Lifecycle!Next]_(Lifecycle!vars)
    BY LifecycleStep DEF Step
  <1> QED
    BY <1>1, LifecycleInit, LockInvariant, PTL
       DEF Spec, ImplementsLifecycle, Lifecycle!Spec

\* A completed job is never queued, run or failed again: every statement of a
\* worker whose claim still stands names a running row.
THEOREM CompletedStays == ASSUME ~SlowWorkers, ~LostReplies PROVE Spec => CompletedIsFinal
  <1> DEFINE Kept == \A j \in Jobs : status[j] = "completed" => status'[j] = "completed"
  <1>1. ASSUME Typed, Step PROVE Kept
    <2>1. CASE Lifecycle!Next
      BY <2>1 DEF Lifecycle!Next, Lifecycle!Submit, Lifecycle!Take, Lifecycle!Finish,
         Lifecycle!Die, Lifecycle!Recover, Lifecycle!Revive, Lifecycle!Discard,
         Lifecycle!Move, Lifecycle!In
    <2>2. CASE UNCHANGED Lifecycle!vars
      BY <2>2 DEF Lifecycle!vars
    <2> QED
      BY <1>1, <2>1, <2>2 DEF Step
  <1>2. Typed /\ Locked /\ [Next]_vars => [Kept]_vars
    BY <1>1, LifecycleStep
  <1> QED
    BY <1>2, LockInvariant, PTL DEF Spec, CompletedIsFinal

-----------------------------------------------------------------------------
(* Deduplication, with or without the partial unique index, and with slow  *)
(* workers, lost replies and failures of any number.  A request that has   *)
(* passed the dedupe SELECT and has not been overtaken since meets no      *)
(* active row of its key but the excused ones: this is what its INSERT     *)
(* relies on, and it must survive every statement of everybody else.       *)

Waiting(p) == pending[p] # NoReq /\ ~overtaken[p]

Clear ==
  \A p \in Producers, j \in Jobs :
    /\ Waiting(p) /\ status[j] \in Active
    /\ attr[j].key = pending[p].key /\ attr[j].name = pending[p].name
    => j \in excused

\* Only a request with a key waits.
KeyedOnly == \A p \in Producers : pending[p] # NoReq => pending[p].key # NoKey

Traced == DuplicatesExcused /\ Clear /\ KeyedOnly

LEMMA TracedInit == Init => Traced
  BY DEF Init, Traced, DuplicatesExcused, Clear, KeyedOnly, Waiting

\* A step of anybody but a producer: the rows it brings back are excused.
LEMMA TracedFrame ==
  ASSUME Traced, UNCHANGED <<attr, pending, overtaken>>, excused \subseteq excused',
         \A j \in Jobs : status'[j] \in Active => status[j] \in Active \/ j \in excused'
  PROVE  Traced'
  BY DEF Traced, DuplicatesExcused, Clear, KeyedOnly, Waiting, SameKey

\* The INSERT of a request that has no key.
LEMMA UnkeyedTraced ==
  ASSUME Typed, Traced, NEW p \in Producers, NEW r \in Requests, NEW j \in Jobs,
         EnqueueUnkeyed(p, r, j)
  PROVE  Traced'
  <1>1. /\ status' = [status EXCEPT ![j] = "pending"] /\ attr' = [attr EXCEPT ![j] = r]
        /\ r.key = NoKey /\ UNCHANGED <<pending, overtaken, excused>>
    BY DEF EnqueueUnkeyed, Insert
  <1>2. attr'[j] = r /\ \A i \in Jobs \ {j} : attr'[i] = attr[i] /\ status'[i] = status[i]
    BY <1>1 DEF Typed, TypeOK, TableType
  <1>3. DuplicatesExcused'
    BY <1>1, <1>2 DEF Traced, DuplicatesExcused, SameKey
  <1>4. Clear' /\ KeyedOnly'
    BY <1>1, <1>2 DEF Traced, Clear, KeyedOnly, Waiting
  <1> QED
    BY <1>3, <1>4 DEF Traced

\* The SELECT has seen that there is no active row of the key.
LEMMA CheckTraced ==
  ASSUME Typed, Traced, NEW p \in Producers, NEW r \in Requests, EnqueueCheck(p, r)
  PROVE  Traced'
  <1>1. /\ pending' = [pending EXCEPT ![p] = r] /\ r.key # NoKey /\ ~ActiveDuplicate(r)
        /\ UNCHANGED <<status, attr, overtaken, excused>>
    BY DEF EnqueueCheck
  <1>2. pending'[p] = r /\ \A q \in Producers \ {p} : pending'[q] = pending[q]
    BY <1>1 DEF Typed, TypeOK, RestType
  <1>3. DuplicatesExcused'
    BY <1>1 DEF Traced, DuplicatesExcused, SameKey
  <1>4. Clear' /\ KeyedOnly'
    BY <1>1, <1>2 DEF Traced, Clear, KeyedOnly, Waiting, ActiveDuplicate
  <1> QED
    BY <1>3, <1>4 DEF Traced

\* An INSERT overtakes the waiting requests of its key.
LEMMA InsertTraced ==
  ASSUME Typed, Traced, NEW p \in Producers, NEW j \in Jobs, EnqueueInsert(p, j)
  PROVE  Traced'
  <1>1. /\ status' = [status EXCEPT ![j] = "pending"] /\ pending[p] # NoReq
        /\ attr' = [attr EXCEPT ![j] = pending[p]]
        /\ pending' = [pending EXCEPT ![p] = NoReq]
        /\ overtaken' = [q \in Producers |->
             q # p /\ (overtaken[q] \/ (pending[q] # NoReq /\ SameKey(pending, p, q)))]
        /\ excused' = IF overtaken[p] THEN excused \cup {j} ELSE excused
    BY DEF EnqueueInsert, Insert
  <1>2. /\ attr'[j] = pending[p]
        /\ \A i \in Jobs \ {j} : attr'[i] = attr[i] /\ status'[i] = status[i]
    BY <1>1 DEF Typed, TypeOK, TableType
  <1>3. pending'[p] = NoReq /\ \A q \in Producers \ {p} : pending'[q] = pending[q]
    BY <1>1 DEF Typed, TypeOK, RestType
  <1>4. excused \subseteq excused' /\ (overtaken[p] => j \in excused')
    BY <1>1
  <1>5. DuplicatesExcused'
    <2>1. CASE overtaken[p]
      BY <1>2, <1>4, <2>1 DEF Traced, DuplicatesExcused, SameKey
    <2>2. CASE ~overtaken[p]
      <3>1. \A i \in Jobs \ {j} :
              status[i] \in Active /\ attr[i].key = pending[p].key
              /\ attr[i].name = pending[p].name => i \in excused
        BY <1>1, <2>2 DEF Traced, Clear, Waiting
      <3> QED
        BY <1>2, <1>4, <3>1 DEF Traced, DuplicatesExcused, SameKey
    <2> QED
      BY <2>1, <2>2
  <1>6. Clear'
    <2> SUFFICES ASSUME NEW q \in Producers, NEW i \in Jobs, Waiting(q)', status'[i] \in Active,
                        attr'[i].key = pending'[q].key, attr'[i].name = pending'[q].name
                 PROVE  i \in excused'
      BY DEF Clear
    <2>1. q # p /\ pending'[q] = pending[q] /\ Waiting(q) /\ ~SameKey(pending, p, q)
      BY <1>1, <1>3 DEF Waiting
    <2>2. pending[p].key # NoKey
      BY <1>1 DEF Traced, KeyedOnly
    <2>3. i # j
      BY <1>2, <2>1, <2>2 DEF SameKey
    <2> QED
      BY <1>2, <1>4, <2>1, <2>3 DEF Traced, Clear
  <1>7. KeyedOnly'
    BY <1>3 DEF Traced, KeyedOnly
  <1> QED
    BY <1>5, <1>6, <1>7 DEF Traced

LEMMA RejectedTraced ==
  ASSUME Typed, Traced, NEW p \in Producers, EnqueueRejected(p)
  PROVE  Traced'
  <1>1. /\ pending' = [pending EXCEPT ![p] = NoReq]
        /\ overtaken' = [overtaken EXCEPT ![p] = FALSE]
        /\ UNCHANGED <<status, attr, excused>>
    BY DEF EnqueueRejected
  <1>2. /\ pending'[p] = NoReq
        /\ \A q \in Producers \ {p} : pending'[q] = pending[q] /\ overtaken'[q] = overtaken[q]
    BY <1>1 DEF Typed, TypeOK, RestType
  <1> QED
    BY <1>1, <1>2 DEF Traced, DuplicatesExcused, SameKey, Clear, KeyedOnly, Waiting

LEMMA TracedStep ==
  ASSUME Typed, Traced PROVE [Next]_vars => Traced'
  <1> USE DEF Typed, TypeOK, TableType, Carries
  <1>1. ASSUME NEW w \in Workers, ReclaimFailed(w) \/ ReclaimRequeue(w) PROVE Traced'
    BY <1>1, TracedFrame DEF ReclaimFailed, ReclaimRequeue, Stale
  <1>2. ASSUME NEW w \in Workers, Claim(w) PROVE Traced'
    BY <1>2, TracedFrame DEF Claim, ClaimGuard
  <1>3. ASSUME NEW w \in Workers, MarkCompleted(w) \/ MarkCompletedFails(w) \/ MarkFailed(w)
        PROVE Traced'
    BY <1>3, TracedFrame DEF MarkCompleted, MarkCompletedFails, MarkFailed, WriteOutcome
  <1>4. ASSUME NEW w \in Workers, ScheduleRetry(w) PROVE Traced'
    <2>1. excused \subseteq excused'
      BY <1>4 DEF ScheduleRetry
    <2>2. \A j \in Jobs : status'[j] \in Active => status[j] \in Active \/ j \in excused'
      BY <1>4 DEF ScheduleRetry, WriteOutcome
    <2> QED
      BY <1>4, <2>1, <2>2, TracedFrame DEF ScheduleRetry, WriteOutcome
  <1>5. ASSUME NEW w \in Workers,
               \/ Poll(w) \/ Select(w) \/ SelectNothing(w) \/ ClaimLost(w)
               \/ HandlerReturns(w) \/ Crash(w)
               \/ ScheduleRetryRejected(w) \/ Drain(w) \/ Restart(w)
        PROVE Traced'
    BY <1>5, TracedFrame
       DEF Poll, Select, SelectNothing, ClaimLost, HandlerReturns,
           Crash, ScheduleRetryRejected, Drain, Restart
  <1>6. ASSUME NEW p \in Producers, Enqueue(p) PROVE Traced'
    BY <1>6, UnkeyedTraced, CheckTraced, InsertTraced, RejectedTraced DEF Enqueue
  <1>7. ASSUME NEW S \in Selection, DlqRetry(S) PROVE Traced'
    BY <1>7, TracedFrame DEF DlqRetry
  <1>8. ASSUME NEW S \in Selection, DlqPurge(S) PROVE Traced'
    BY <1>8, TracedFrame DEF DlqPurge
  <1>9. ASSUME Tick \/ UNCHANGED vars PROVE Traced'
    BY <1>9, TracedFrame DEF Tick, vars
  <1> QED
    BY <1>1, <1>2, <1>3, <1>4, <1>5, <1>6, <1>7, <1>8, <1>9 DEF Next, Loop, Disturb

\* Of two active jobs of a name and key, one comes from an INSERT that another
\* had overtaken, or had settled before: the SELECT of enqueue sees to the rest,
\* on a database without the partial index too.
THEOREM DuplicatesTraced == Spec => []DuplicatesExcused
  <1>1. Typed /\ Traced /\ [Next]_vars => Typed' /\ Traced'
    BY TypedStep, TracedStep
  <1>2. Traced => DuplicatesExcused
    BY DEF Traced
  <1> QED
    BY <1>1, <1>2, TypedInit, TracedInit, PTL DEF Spec

-----------------------------------------------------------------------------
(* The attempt count.  Every execution of row j that a worker may still    *)
(* follow by a retry is one the row has not yet been given back for: the   *)
(* count of the row and the number of such workers are bounded together.   *)
(* Slow workers are not excluded here.                                     *)

\* The workers whose count still allows them to put row j back.
MayRetry(j) ==
  {w \in Workers :
     /\ cur[w] = j
     /\ \/ pc[w] = "claim" /\ believed[w] + 1 < Ceiling(j)
        \/ pc[w] \in Owning /\ believed[w] < Ceiling(j)}

Limit(j) == Ceiling(j) + Cardinality(Workers) - 1

\* A queued row is one execution short of the bound, so that it can be claimed.
Ledger(j) ==
  /\ attempts[j] + Cardinality(MayRetry(j)) <= Limit(j)
  /\ status[j] = "absent" => attempts[j] = 0
  /\ status[j] = "pending" /\ Workers # {} =>
       \/ attempts[j] + 1 < Ceiling(j)
       \/ attempts[j] + Cardinality(MayRetry(j)) < Limit(j)

Ledgers == \A j \in Jobs : Ledger(j)

LEMMA CeilingType ==
  ASSUME Typed, NEW j \in Jobs
  PROVE  /\ Ceiling(j) \in Nat /\ Ceiling(j) >= 1 /\ Ceiling(j) >= MaxAttempts
         /\ Ceiling(j) >= HandlerMax[attr[j].name]
         /\ MaxAttempts \in Nat /\ HandlerMax[attr[j].name] \in Nat
  <1>1. attr[j].name \in Names
    BY DEF Typed, TypeOK, TableType, Request
  <1>2. MaxAttempts \in Nat /\ HandlerMax[attr[j].name] \in Nat
    BY <1>1, JobQueueAssumption
  <1> QED
    BY <1>2 DEF Ceiling, Larger

\* Any set of workers is finite and no larger than Workers.
LEMMA Count ==
  ASSUME NEW S \in SUBSET Workers
  PROVE  /\ IsFiniteSet(S) /\ Cardinality(S) \in Nat /\ Cardinality(Workers) \in Nat
         /\ Cardinality(S) <= Cardinality(Workers)
         /\ \A w \in Workers \ S : Cardinality(S) < Cardinality(Workers)
  <1>1. IsFiniteSet(Workers)
    BY JobQueueAssumption
  <1>2. IsFiniteSet(S) /\ Cardinality(S) <= Cardinality(Workers)
        /\ (Cardinality(Workers) = Cardinality(S) => Workers = S)
    BY <1>1, FS_Subset
  <1>3. Cardinality(S) \in Nat /\ Cardinality(Workers) \in Nat
    BY <1>1, <1>2, FS_CardinalityType
  <1> QED
    BY <1>2, <1>3

LEMMA CountLess ==
  ASSUME NEW S \in SUBSET Workers, NEW T \in SUBSET S
  PROVE  /\ Cardinality(S) \in Nat /\ Cardinality(T) \in Nat
         /\ Cardinality(T) <= Cardinality(S)
         /\ \A w \in S \ T : Cardinality(T) < Cardinality(S)
  <1>1. IsFiniteSet(S) /\ T \in SUBSET Workers
    BY Count
  <1>2. Cardinality(T) <= Cardinality(S) /\ (Cardinality(S) = Cardinality(T) => S = T)
    BY <1>1, FS_Subset
  <1>3. Cardinality(S) \in Nat /\ Cardinality(T) \in Nat
    BY <1>1, Count
  <1> QED
    BY <1>2, <1>3

\* A row whose count stays, that is not queued by this step, and that no worker
\* starts to rely on.
LEMMA LedgerFrame ==
  ASSUME Typed, Typed', NEW j \in Jobs, Ledger(j),
         attempts'[j] = attempts[j], attr'[j] = attr[j],
         MayRetry(j)' \subseteq MayRetry(j),
         status'[j] \in {"pending", "absent"} => status'[j] = status[j]
  PROVE  Ledger(j)'
  <1>1. Ceiling(j)' = Ceiling(j) /\ Limit(j)' = Limit(j)
    BY DEF Ceiling, Limit
  <1>2. MayRetry(j) \in SUBSET Workers
    BY DEF MayRetry
  <1>3. /\ Cardinality(MayRetry(j)) \in Nat /\ Cardinality(MayRetry(j)') \in Nat
        /\ Cardinality(MayRetry(j)') <= Cardinality(MayRetry(j))
    BY <1>2, CountLess
  <1>4. attempts[j] \in Nat /\ Limit(j) \in Int
    BY CeilingType, Count DEF Typed, TypeOK, TableType, Limit
  <1> QED
    BY <1>1, <1>3, <1>4 DEF Ledger

\* A step of w that does not make it rely on row j.
LEMMA RetrySubset ==
  ASSUME Typed, NEW w \in Workers, NEW j \in Jobs, attr'[j] = attr[j],
         \A v \in Workers \ {w} :
           pc'[v] = pc[v] /\ cur'[v] = cur[v] /\ believed'[v] = believed[v],
         w \in MayRetry(j)' => w \in MayRetry(j)
  PROVE  MayRetry(j)' \subseteq MayRetry(j)
  BY DEF MayRetry, Ceiling

LEMMA RetrySame ==
  ASSUME NEW j \in Jobs, attr'[j] = attr[j], UNCHANGED <<pc, cur, believed>>
  PROVE  MayRetry(j)' = MayRetry(j)
  BY DEF MayRetry, Ceiling

\* A row with no attempts, which any number of workers may rely on.
FreshLedgers == \A j \in Jobs : attempts[j] = 0 /\ status[j] # "absent" => Ledger(j)

LEMMA LedgerFresh == Typed => FreshLedgers
  <1> SUFFICES ASSUME Typed, NEW j \in Jobs, attempts[j] = 0, status[j] # "absent"
               PROVE  Ledger(j)
    BY DEF FreshLedgers
  <1>1. MayRetry(j) \in SUBSET Workers
    BY DEF MayRetry
  <1>2. /\ Cardinality(MayRetry(j)) \in Nat /\ Cardinality(Workers) \in Nat
        /\ Cardinality(MayRetry(j)) <= Cardinality(Workers)
    BY <1>1, Count
  <1>3. CASE Ceiling(j) > 1
    BY <1>2, <1>3, CeilingType DEF Ledger, Limit
  <1>4. CASE Ceiling(j) = 1
    <2>1. \A w \in Workers : believed[w] \in Nat /\ (pc[w] \in Owning => believed[w] > 0)
      BY DEF Typed, TypeOK, LoopType, Carries
    <2>2. MayRetry(j) = {}
      BY <1>4, <2>1 DEF MayRetry
    <2>3. \A w \in Workers : Cardinality(MayRetry(j)) < Cardinality(Workers)
      BY <1>1, <2>2, Count
    <2>4. Cardinality(MayRetry(j)) = 0
      BY <2>2, FS_EmptySet
    <2> QED
      BY <1>2, <1>4, <2>3, <2>4 DEF Ledger, Limit
  <1> QED
    BY <1>3, <1>4, CeilingType

LEMMA LeaveRetry ==
  ASSUME Typed, UNCHANGED attr, NEW w \in Workers, NEW j \in Jobs,
         NEW to \in {"loop", "requeue", "poll", "stopped", "down"}, Leave(w, to)
  PROVE  MayRetry(j)' \subseteq MayRetry(j) \ {w}
  <1>1. pc'[w] = to /\ \A v \in Workers \ {w} :
          pc'[v] = pc[v] /\ cur'[v] = cur[v] /\ believed'[v] = believed[v]
    BY DEF Leave, Typed, TypeOK, LoopType
  <1> QED
    BY <1>1 DEF MayRetry, Ceiling

\* A worker that writes an outcome no longer counts; one that puts the row back
\* did count before.
LEMMA OutcomeLedger ==
  ASSUME Typed, Typed', Ledgers, NEW w \in Workers, pc[w] = "failing" \/ pc[w] = "completing",
         NEW st \in {"completed", "failed", "pending"}, WriteOutcome(w, st),
         st = "pending" => pc[w] = "failing" /\ ~Exhausted(w),
         NEW j \in Jobs
  PROVE  Ledger(j)'
  <1>1. MayRetry(j)' \subseteq MayRetry(j) \ {w}
    BY LeaveRetry DEF WriteOutcome
  <1>2. attempts'[j] = attempts[j] /\ attr'[j] = attr[j]
    BY DEF WriteOutcome
  <1>3. CASE cur[w] = j /\ st = "pending" /\ status[j] # "purged"
    <2>1. believed[w] < Ceiling(j)
      BY <1>3, CeilingType DEF Exhausted, Typed, TypeOK, LoopType
    <2>2. w \in MayRetry(j) \ MayRetry(j)' /\ MayRetry(j) \in SUBSET Workers
      BY <1>1, <1>3, <2>1 DEF MayRetry
    <2>3. /\ Cardinality(MayRetry(j)) \in Nat /\ Cardinality(MayRetry(j)') \in Nat
          /\ Cardinality(MayRetry(j)') < Cardinality(MayRetry(j))
      BY <1>1, <2>2, CountLess
    <2>4. Limit(j) \in Int /\ Limit(j)' = Limit(j) /\ attempts[j] \in Nat
      BY <1>2, CeilingType, Count DEF Limit, Ceiling, Typed, TypeOK, TableType
    <2>5. status'[j] = "pending" /\ Ledger(j)
      BY <1>3 DEF WriteOutcome, Typed, TypeOK, TableType, Ledgers
    <2> QED
      BY <1>2, <2>3, <2>4, <2>5 DEF Ledger
  <1>4. CASE ~(cur[w] = j /\ st = "pending" /\ status[j] # "purged")
    <2>1. status'[j] \in {"pending", "absent"} => status'[j] = status[j]
      BY <1>4 DEF WriteOutcome, Typed, TypeOK, TableType
    <2> QED
      BY <1>1, <1>2, <2>1, LedgerFrame DEF Ledgers
  <1> QED
    BY <1>3, <1>4

LEMMA QuietLedger ==
  ASSUME Typed, Typed', Ledgers, UNCHANGED <<status, attr, attempts>>,
         \A j \in Jobs : MayRetry(j)' \subseteq MayRetry(j)
  PROVE  Ledgers'
  BY LedgerFrame DEF Ledgers

\* A worker that selects row j starts to count for it, but only while the row is
\* two executions short of its ceiling.
LEMMA SelectLedger ==
  ASSUME Typed, Typed', Ledgers, NEW w \in Workers, Select(w)
  PROVE  Ledgers'
  <1> SUFFICES ASSUME NEW j \in Jobs PROVE Ledger(j)'
    BY DEF Ledgers
  <1>1. /\ pc[w] = "select" /\ pc'[w] = "claim" /\ cur'[w] \in Jobs
        /\ believed'[w] = attempts[cur'[w]] /\ status[cur'[w]] = "pending"
        /\ \A v \in Workers \ {w} :
             pc'[v] = pc[v] /\ cur'[v] = cur[v] /\ believed'[v] = believed[v]
    BY DEF Select, Due, Typed, TypeOK, LoopType
  <1>2. UNCHANGED <<status, attr, attempts>>
    BY DEF Select, table
  <1>3. CASE w \in MayRetry(j)'
    <2>1. Ceiling(j)' = Ceiling(j) /\ Limit(j)' = Limit(j)
      BY <1>2 DEF Ceiling, Limit
    <2>2. attempts[j] + 1 < Ceiling(j)
      BY <1>1, <1>3, <2>1 DEF MayRetry
    <2>3. MayRetry(j)' \in SUBSET Workers
      BY DEF MayRetry
    <2>4. /\ Cardinality(MayRetry(j)') \in Nat /\ Cardinality(Workers) \in Nat
          /\ Cardinality(MayRetry(j)') <= Cardinality(Workers)
      BY <2>3, Count
    <2>5. attempts[j] \in Nat /\ Ceiling(j) \in Nat
      BY CeilingType DEF Typed, TypeOK, TableType
    <2> QED
      BY <1>2, <2>1, <2>2, <2>4, <2>5 DEF Ledger, Ledgers, Limit
  <1>4. CASE w \notin MayRetry(j)'
    BY <1>1, <1>2, <1>4, RetrySubset, LedgerFrame DEF Ledgers
  <1> QED
    BY <1>3, <1>4

\* The claim is the only statement that raises the count, and the worker counts
\* for the row after it exactly when it did before.
LEMMA ClaimLedger ==
  ASSUME Typed, Typed', Ledgers, NEW w \in Workers, Claim(w)
  PROVE  Ledgers'
  <1> SUFFICES ASSUME NEW j \in Jobs PROVE Ledger(j)'
    BY DEF Ledgers
  <1>1. /\ pc[w] = "claim" /\ pc'[w] \in Owning /\ cur' = cur /\ attr' = attr
        /\ believed'[w] = believed[w] + 1 /\ believed[w] \in Nat
        /\ \A v \in Workers \ {w} :
             pc'[v] = pc[v] /\ believed'[v] = believed[v]
    BY DEF Claim, Typed, TypeOK, LoopType
  <1>2. MayRetry(j)' = MayRetry(j)
    BY <1>1 DEF MayRetry, Ceiling
  <1>3. CASE j = cur[w]
    <2>1. status[j] = "pending" /\ status'[j] = "running" /\ attempts'[j] = attempts[j] + 1
      BY <1>3 DEF Claim, ClaimGuard, Typed, TypeOK, TableType
    <2>2. Ceiling(j)' = Ceiling(j) /\ Limit(j)' = Limit(j)
      BY <1>1 DEF Ceiling, Limit
    <2>3. /\ Ceiling(j) \in Nat /\ attempts[j] \in Nat /\ Cardinality(Workers) \in Nat
          /\ Cardinality(MayRetry(j)) \in Nat
          /\ Cardinality(MayRetry(j)) <= Cardinality(Workers)
      BY CeilingType, Count DEF Typed, TypeOK, TableType, MayRetry
    <2> QED
      BY <1>2, <2>1, <2>2, <2>3 DEF Ledger, Ledgers, Limit
  <1>4. CASE j # cur[w]
    <2>1. attempts'[j] = attempts[j] /\ status'[j] = status[j]
      BY <1>4 DEF Claim, Typed, TypeOK, TableType
    <2> QED
      BY <1>1, <1>2, <2>1, LedgerFrame DEF Ledgers
  <1> QED
    BY <1>3, <1>4

\* The sweep puts a row back only below MaxAttempts, and the sweeper itself
\* relies on no row.
LEMMA SweepLedger ==
  ASSUME Typed, Typed', Ledgers, NEW w \in Workers, ReclaimRequeue(w)
  PROVE  Ledgers'
  <1> SUFFICES ASSUME NEW j \in Jobs PROVE Ledger(j)'
    BY DEF Ledgers
  <1>1. MayRetry(j)' \subseteq MayRetry(j) \ {w} /\ w \notin MayRetry(j)
    BY LeaveRetry DEF ReclaimRequeue, MayRetry
  <1>2. attempts' = attempts /\ attr' = attr
    BY DEF ReclaimRequeue
  <1>3. CASE Stale(j) /\ attempts[j] < MaxAttempts
    <2>1. MayRetry(j)' \in SUBSET Workers /\ w \in Workers \ MayRetry(j)'
      BY <1>1 DEF MayRetry
    <2>2. /\ Cardinality(MayRetry(j)') \in Nat /\ Cardinality(Workers) \in Nat
          /\ Cardinality(MayRetry(j)') < Cardinality(Workers)
      BY <2>1, Count
    <2>3. Ceiling(j)' = Ceiling(j) /\ Limit(j)' = Limit(j)
      BY <1>2 DEF Ceiling, Limit
    <2>4. attempts[j] \in Nat /\ Ceiling(j) \in Nat /\ attempts[j] < Ceiling(j)
      BY <1>3, CeilingType DEF Typed, TypeOK, TableType
    <2>5. status'[j] = "pending"
      BY <1>3 DEF ReclaimRequeue
    <2> QED
      BY <1>2, <2>2, <2>3, <2>4, <2>5 DEF Ledger, Limit
  <1>4. CASE ~(Stale(j) /\ attempts[j] < MaxAttempts)
    <2>1. status'[j] = status[j]
      BY <1>4 DEF ReclaimRequeue
    <2> QED
      BY <1>1, <1>2, <2>1, LedgerFrame DEF Ledgers
  <1> QED
    BY <1>3, <1>4

LEMMA LedgersInit == Init => Ledgers
  <1> SUFFICES ASSUME Init, NEW j \in Jobs PROVE Ledger(j)
    BY DEF Ledgers
  <1>1. MayRetry(j) = {}
    BY DEF Init, MayRetry
  <1>2. Cardinality(MayRetry(j)) = 0 /\ Cardinality(Workers) \in Nat
    BY <1>1, FS_EmptySet, Count
  <1>3. Ceiling(j) \in Nat /\ Ceiling(j) >= 1
    BY TypedInit, CeilingType
  <1> QED
    BY <1>2, <1>3 DEF Init, Ledger, Limit

\* An INSERT finds the count at 0, and DlqRetry resets it.
LEMMA InsertLedger ==
  ASSUME Typed, Typed', Ledgers, NEW i \in Jobs, NEW r, Insert(i, r)
  PROVE  Ledgers'
  <1> SUFFICES ASSUME NEW j \in Jobs PROVE Ledger(j)'
    BY DEF Ledgers
  <1>1. UNCHANGED <<attempts, pc, cur, believed>>
    BY DEF Insert, slots
  <1>2. CASE j = i
    <2>1. attempts'[j] = 0 /\ status'[j] = "pending"
      BY <1>1, <1>2 DEF Insert, Ledgers, Ledger, Typed, TypeOK, TableType
    <2>2. FreshLedgers'
      BY LedgerFresh, PTL
    <2> QED
      BY <2>1, <2>2 DEF FreshLedgers
  <1>3. CASE j # i
    <2>1. attr'[j] = attr[j] /\ status'[j] = status[j]
      BY <1>3 DEF Insert, Typed, TypeOK, TableType
    <2> QED
      BY <1>1, <2>1, RetrySame, LedgerFrame DEF Ledgers
  <1> QED
    BY <1>2, <1>3

LEMMA LedgersStep ==
  ASSUME Typed, Ledgers PROVE [Next]_vars => Ledgers'
  <1> SUFFICES ASSUME [Next]_vars PROVE Ledgers'
    OBVIOUS
  <1> Typed'
    BY TypedStep
  <1>1. ASSUME NEW w \in Workers, ReclaimFailed(w) PROVE Ledgers'
    <2>1. ASSUME NEW j \in Jobs PROVE Ledger(j)'
      <3>1. MayRetry(j)' \subseteq MayRetry(j)
        <4>1. /\ attr' = attr /\ cur' = cur /\ believed' = believed
              /\ pc'[w] \notin Owning \cup {"claim"}
              /\ \A v \in Workers \ {w} : pc'[v] = pc[v]
          BY <1>1 DEF ReclaimFailed, Typed, TypeOK, LoopType
        <4> QED
          BY <4>1 DEF MayRetry, Ceiling
      <3>2. /\ attempts' = attempts /\ attr' = attr
            /\ status'[j] \in {"pending", "absent"} => status'[j] = status[j]
        BY <1>1 DEF ReclaimFailed
      <3> QED
        BY <3>1, <3>2, LedgerFrame DEF Ledgers
    <2> QED
      BY <2>1 DEF Ledgers
  <1>2. ASSUME NEW w \in Workers, ReclaimRequeue(w) PROVE Ledgers'
    BY <1>2, SweepLedger
  <1>3. ASSUME NEW w \in Workers, Select(w) PROVE Ledgers'
    BY <1>3, SelectLedger
  <1>4. ASSUME NEW w \in Workers, Claim(w) PROVE Ledgers'
    BY <1>4, ClaimLedger
  <1>5. ASSUME NEW w \in Workers, SelectNothing(w) \/ ClaimLost(w) PROVE Ledgers'
    <2>1. UNCHANGED <<status, attr, attempts>> /\ NextQueue(w) /\ pc[w] \in Polling
      BY <1>5 DEF SelectNothing, ClaimLost, table
    <2>2. ASSUME NEW j \in Jobs PROVE MayRetry(j)' \subseteq MayRetry(j)
      <3>1. CASE HasLower(w)
        <4>1. /\ pc' = [pc EXCEPT ![w] = "select"]
              /\ cur' = [cur EXCEPT ![w] = NoJob]
              /\ believed' = [believed EXCEPT ![w] = 0]
          BY <2>1, <3>1, Zenon DEF NextQueue
        <4> QED
          BY <2>1, <4>1 DEF MayRetry, Ceiling, Typed, TypeOK, LoopType
      <3>2. CASE ~HasLower(w)
        BY <2>1, <3>2, LeaveRetry DEF NextQueue
      <3> QED
        BY <3>1, <3>2
    <2> QED
      BY <2>1, <2>2, QuietLedger
  <1>6. ASSUME NEW w \in Workers,
               Poll(w) \/ HandlerReturns(w) \/ Drain(w) \/ Restart(w)
        PROVE Ledgers'
    <2>1. UNCHANGED <<status, attr, attempts, cur, believed>>
      BY <1>6 DEF Poll, HandlerReturns, Drain, Restart, table
    <2>2. /\ pc'[w] \in Owning => pc[w] \in Owning
          /\ pc'[w] # "claim"
          /\ \A v \in Workers \ {w} : pc'[v] = pc[v]
      BY <1>6 DEF Poll, HandlerReturns, Drain, Restart, Typed, TypeOK, LoopType
    <2>3. ASSUME NEW j \in Jobs PROVE MayRetry(j)' \subseteq MayRetry(j)
      BY <2>1, <2>2 DEF MayRetry, Ceiling
    <2> QED
      BY <2>1, <2>3, QuietLedger
  <1>7. ASSUME NEW w \in Workers, ScheduleRetryRejected(w) \/ Crash(w) PROVE Ledgers'
    <2>1. Leave(w, "down") /\ UNCHANGED <<status, attr, attempts>>
      BY <1>7 DEF ScheduleRetryRejected, Crash, table
    <2> QED
      BY <2>1, LeaveRetry, QuietLedger
  <1>8. ASSUME NEW w \in Workers, MarkCompleted(w) \/ MarkFailed(w) \/ ScheduleRetry(w)
        PROVE Ledgers'
    BY <1>8, OutcomeLedger DEF MarkCompleted, MarkFailed, ScheduleRetry, Ledgers
  <1>9. ASSUME NEW p \in Producers, Enqueue(p) PROVE Ledgers'
    <2>1. CASE \/ \E r \in Requests : EnqueueCheck(p, r)
               \/ EnqueueRejected(p)
      BY <2>1, RetrySame, QuietLedger DEF EnqueueCheck, EnqueueRejected, table, slots
    <2>2. CASE \/ \E r \in Requests, j \in Jobs : EnqueueUnkeyed(p, r, j)
               \/ \E j \in Jobs : EnqueueInsert(p, j)
      BY <2>2, InsertLedger DEF EnqueueUnkeyed, EnqueueInsert
    <2> QED
      BY <1>9, <2>1, <2>2 DEF Enqueue
  <1>10. ASSUME NEW S \in Selection, DlqRetry(S) PROVE Ledgers'
    <2>1. FreshLedgers'
      BY LedgerFresh, PTL
    <2>2. ASSUME NEW j \in Jobs PROVE Ledger(j)'
      <3>1. CASE j \in S
        BY <1>10, <2>1, <3>1 DEF DlqRetry, FreshLedgers
      <3>2. CASE j \notin S
        <4>1. attempts'[j] = attempts[j] /\ status'[j] = status[j] /\ attr' = attr
              /\ UNCHANGED <<pc, cur, believed>>
          BY <1>10, <3>2 DEF DlqRetry, slots
        <4> QED
          BY <4>1, RetrySame, LedgerFrame DEF Ledgers
      <3> QED
        BY <3>1, <3>2
    <2> QED
      BY <2>2 DEF Ledgers
  <1>11. ASSUME NEW S \in Selection, DlqPurge(S) PROVE Ledgers'
    <2>1. ASSUME NEW j \in Jobs PROVE Ledger(j)'
      <3>1. /\ UNCHANGED <<attempts, attr, pc, cur, believed>>
            /\ status'[j] \in {"pending", "absent"} => status'[j] = status[j]
        BY <1>11 DEF DlqPurge, slots
      <3> QED
        BY <3>1, RetrySame, LedgerFrame DEF Ledgers
    <2> QED
      BY <2>1 DEF Ledgers
  <1>12. ASSUME NEW w \in Workers, MarkCompletedFails(w) PROVE Ledgers'
    <2>1. ASSUME NEW j \in Jobs PROVE Ledger(j)'
      <3>1. /\ UNCHANGED <<attempts, attr, cur, believed>>
            /\ pc' = [pc EXCEPT ![w] = "failing"] /\ pc[w] = "completing"
            /\ status'[j] \in {"pending", "absent"} => status'[j] = status[j]
        BY <1>12 DEF MarkCompletedFails, Typed, TypeOK, TableType
      <3>2. MayRetry(j)' \subseteq MayRetry(j)
        BY <3>1 DEF MayRetry, Ceiling, Typed, TypeOK, LoopType
      <3> QED
        BY <3>1, <3>2, LedgerFrame DEF Ledgers
    <2> QED
      BY <2>1 DEF Ledgers
  <1>13. ASSUME Tick \/ UNCHANGED vars PROVE Ledgers'
    <2>1. UNCHANGED <<status, attr, attempts, pc, cur, believed>>
      BY <1>13 DEF Tick, vars, table, slots
    <2> QED
      BY <2>1, RetrySame, QuietLedger
  <1> QED
    BY <1>1, <1>2, <1>3, <1>4, <1>5, <1>6, <1>7, <1>8, <1>9, <1>10, <1>11, <1>12,
       <1>13 DEF Next, Loop, Disturb

\* A job runs at most once more per additional worker than its ceiling allows
\* before it settles: no assumption on how long claims take, on the index or on
\* failures.
THEOREM BoundedOvershoot == Spec => []Overshoot
  <1>1. Typed /\ Ledgers => Overshoot
    <2> SUFFICES ASSUME Typed, Ledgers, NEW j \in Jobs PROVE attempts[j] <= Limit(j)
      BY DEF Overshoot, Limit
    <2>1. MayRetry(j) \in SUBSET Workers
      BY DEF MayRetry
    <2> QED
      BY <2>1, Count, CeilingType
         DEF Ledgers, Ledger, Limit, Typed, TypeOK, TableType
  <1>2. Typed /\ Ledgers /\ [Next]_vars => Typed' /\ Ledgers'
    BY TypedStep, LedgersStep
  <1> QED
    BY <1>1, <1>2, TypedInit, LedgersInit, PTL DEF Spec
=============================================================================
