--------------------------- MODULE SchedulerLeader ---------------------------
(***************************************************************************)
(* Leader election and firing of scheduled tasks (src/src/scheduler.gb).   *)
(* Every worker calls tick between two polls of the job table; the row of  *)
(* gebweb_scheduler_leader holds a lease and only its holder should fire.  *)
(* Each SQL statement is one action.  One task is modelled, due every      *)
(* minute: tasks do not interact.  A worker id is host:pid, so a process   *)
(* that restarts is another worker.                                        *)
(***************************************************************************)
EXTENDS Integers, FiniteSets

CONSTANTS
  Workers,
  Nobody,       \* no row yet
  LeaseSec,     \* config.leaseSec
  Minute,       \* 60, in the clock's unit
  Start,        \* the clock when the first worker starts
  MaxClock,     \* bound on the clock
  MaxCrashes    \* bound on the workers that die

ASSUME SchedulerAssumption ==
  /\ Nobody \notin Workers
  /\ LeaseSec \in Nat \ {0} /\ Minute \in Nat \ {0}
  /\ Start \in Nat /\ Start >= Minute /\ MaxClock \in Nat /\ Start <= MaxClock
  /\ MaxCrashes \in Nat

VARIABLES
  clock,
  leader, expiresAt,       \* the row
  pc, now, seen,           \* the locals of tryAcquireLeader
  minute,                  \* currentMinute of tick
  lastFired,               \* task["lastFiredMinute"], in each worker's memory
  fires,                   \* how often the task has fired in each minute
  prompt                   \* have all ticks been prompt so far? (history)

row  == <<leader, expiresAt>>
vars == <<clock, row, pc, now, seen, minute, lastFired, fires, prompt>>

NotSeen == [holder |-> Nobody, expiresAt |-> 0]
MinuteOf(t) == t - (t % Minute)
Minutes == {MinuteOf(t) : t \in Start .. MaxClock}

Init ==
  /\ clock = Start
  /\ leader = Nobody /\ expiresAt = 0
  /\ pc  = [w \in Workers |-> "idle"]
  /\ now = [w \in Workers |-> 0]
  /\ seen = [w \in Workers |-> NotSeen]
  /\ minute = [w \in Workers |-> 0]
  /\ lastFired = [w \in Workers |-> 0]
  /\ fires = [m \in Minutes |-> 0]
  /\ prompt = TRUE

Goto(w, from, to) == pc[w] = from /\ pc' = [pc EXCEPT ![w] = to]

\* The tick returns; its locals are forgotten.
Return(w) ==
  /\ pc'   = [pc EXCEPT ![w] = "idle"]
  /\ now'  = [now EXCEPT ![w] = 0]
  /\ seen' = [seen EXCEPT ![w] = NotSeen]

-----------------------------------------------------------------------------
(* tryAcquireLeader.                                                       *)

Expiry(w) == now[w] + LeaseSec

\* The first SELECT.
Look(w) ==
  /\ Goto(w, "idle", IF leader = Nobody THEN "insert" ELSE "read")
  /\ now' = [now EXCEPT ![w] = clock]
  /\ UNCHANGED <<clock, row, seen, minute, lastFired, fires, prompt>>

\* The INSERT; a second one violates the primary key and is swallowed.
InsertRow(w) ==
  /\ Goto(w, "insert", "read")
  /\ IF leader = Nobody
     THEN leader' = w /\ expiresAt' = Expiry(w)
     ELSE UNCHANGED row
  /\ UNCHANGED <<clock, now, seen, minute, lastFired, fires, prompt>>

\* The second SELECT.
Read(w) ==
  /\ pc[w] = "read"
  /\ seen' = [seen EXCEPT ![w] = [holder |-> leader, expiresAt |-> expiresAt]]
  /\ \/ /\ leader = w
        /\ pc' = [pc EXCEPT ![w] = "refresh"]
     \/ /\ leader # w
        /\ expiresAt <= now[w]
        /\ pc' = [pc EXCEPT ![w] = "takeover"]
  /\ UNCHANGED <<clock, row, now, minute, lastFired, fires, prompt>>

StandDown(w) ==
  /\ pc[w] = "read"
  /\ leader # w
  /\ expiresAt > now[w]
  /\ Return(w)
  /\ UNCHANGED <<clock, row, minute, lastFired, fires, prompt>>

\* Bug: no WHERE clause.
RefreshBlind(w) == TRUE

\* UPDATE ... WHERE leader_id = self; its row count is not looked at.
RefreshGuard(w) == leader = w

Refresh(w) ==
  /\ Goto(w, "refresh", "leading")
  /\ expiresAt' = IF RefreshGuard(w) THEN Expiry(w) ELSE expiresAt
  /\ UNCHANGED <<clock, leader, now, seen, minute, lastFired, fires, prompt>>

\* Bugs: no WHERE clause, one without the lease, one that names the worker.
TakeoverBlind(w) == TRUE
TakeoverFromHolder(w) == leader = seen[w].holder
TakeoverFromSelf(w) == leader = w

\* UPDATE ... WHERE leader_id = holder AND expires_at = expiresAt.
TakeoverGuard(w) == leader = seen[w].holder /\ expiresAt = seen[w].expiresAt

Takeover(w) ==
  /\ Goto(w, "takeover", "leading")
  /\ TakeoverGuard(w)
  /\ leader' = w
  /\ expiresAt' = Expiry(w)
  /\ UNCHANGED <<clock, now, seen, minute, lastFired, fires, prompt>>

TakeoverLost(w) ==
  /\ pc[w] = "takeover"
  /\ ~TakeoverGuard(w)
  /\ Return(w)
  /\ UNCHANGED <<clock, row, minute, lastFired, fires, prompt>>

-----------------------------------------------------------------------------
(* The rest of tick.                                                       *)

CurrentMinute == MinuteOf(clock)

ReadMinute(w) ==
  /\ Goto(w, "leading", "firing")
  /\ minute' = [minute EXCEPT ![w] = CurrentMinute]
  /\ UNCHANGED <<clock, row, now, seen, lastFired, fires, prompt>>

Fire(w) ==
  /\ pc[w] = "firing"
  /\ lastFired' = [lastFired EXCEPT ![w] = minute[w]]
  /\ fires' = IF lastFired[w] = minute[w] THEN fires
              ELSE [fires EXCEPT ![minute[w]] = @ + 1]
  /\ minute' = [minute EXCEPT ![w] = 0]
  /\ Return(w)
  /\ UNCHANGED <<clock, row, prompt>>

TickOf(w) ==
  \/ Look(w) \/ InsertRow(w) \/ Read(w) \/ StandDown(w) \/ Refresh(w)
  \/ Takeover(w) \/ TakeoverLost(w) \/ ReadMinute(w) \/ Fire(w)

-----------------------------------------------------------------------------
Dead == {w \in Workers : pc[w] = "dead"}

Crash(w) ==
  /\ w \notin Dead
  /\ Cardinality(Dead) < MaxCrashes
  /\ pc' = [pc EXCEPT ![w] = "dead"]
  /\ now' = [now EXCEPT ![w] = 0]
  /\ seen' = [seen EXCEPT ![w] = NotSeen]
  /\ minute' = [minute EXCEPT ![w] = 0]
  /\ UNCHANGED <<clock, row, lastFired, fires, prompt>>

\* "A leader refreshes its lease on every tick": no tick is running and the
\* leader's lease outlasts the second that passes.
InTime ==
  /\ \A w \in Workers : pc[w] \in {"idle", "dead"}
  /\ leader \in Workers \ Dead => clock + 1 < expiresAt

\* A tick may be slow and a leader late; the history remembers it.
Pass ==
  /\ clock < MaxClock
  /\ clock' = clock + 1
  /\ prompt' = (prompt /\ InTime)
  /\ UNCHANGED <<row, pc, now, seen, minute, lastFired, fires>>

Next ==
  \/ \E w \in Workers : TickOf(w) \/ Crash(w)
  \/ Pass

Spec == Init /\ [][Next]_vars

\* Live workers keep ticking and time passes.
FairSpec == Spec /\ WF_vars(Pass) /\ \A w \in Workers : WF_vars(TickOf(w))

-----------------------------------------------------------------------------
(* Properties.                                                             *)

PC == {"idle", "insert", "read", "refresh", "takeover", "leading", "firing", "dead"}

\* The type of the state.
TypeOK ==
  /\ clock \in Start .. MaxClock
  /\ leader \in Workers \cup {Nobody} /\ expiresAt \in Nat
  /\ pc \in [Workers -> PC]
  /\ now \in [Workers -> Nat]
  /\ seen \in [Workers -> [holder : Workers \cup {Nobody}, expiresAt : Nat]]
  /\ minute \in [Workers -> Minutes \cup {0}]
  /\ lastFired \in [Workers -> Minutes \cup {0}]
  /\ fires \in [Minutes -> Nat]
  /\ prompt \in BOOLEAN

\* The row passes from one worker to another only once its lease has run out,
\* however long the new one slept between its SELECT and its UPDATE.
NoStolenLease ==
  [][leader # Nobody /\ leader' # leader => expiresAt <= clock]_vars

\* A lease once granted is never cut short: not by a worker that read the clock
\* long ago and writes now, to a row that has changed hands or has come back.
LeaseKept == [][expiresAt' >= expiresAt]_vars

\* Workers whose ticks are prompt fire a task at most once in a minute, across
\* the death of a leader and the takeover by another.
AtMostOncePerMinute == prompt => \A m \in Minutes : fires[m] <= 1

\* A dead leader is replaced, by way of a takeover after its lease has run out.
LeaderReplaced ==
  leader \in Dead /\ expiresAt <= MaxClock ~> leader \notin Dead
=============================================================================
