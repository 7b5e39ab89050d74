---------------------------- MODULE JobLifecycle ----------------------------
(***************************************************************************)
(* What the job queue promises to the code that enqueues jobs and to the   *)
(* handlers that run them, without a table, a clock or a lock: a job is    *)
(* worked on by one worker at a time, only that worker decides what        *)
(* becomes of it, a job whose worker is gone is put back or given up, and  *)
(* a completed job stays completed.                                        *)
(***************************************************************************)
CONSTANTS Jobs, Workers, NoJob

VARIABLES
  status,    \* where each job stands
  working    \* the job each worker is working on, or NoJob

vars == <<status, working>>

Live == {"pending", "running"}

Init ==
  /\ status  = [j \in Jobs |-> "absent"]
  /\ working = [w \in Workers |-> NoJob]

Move(S, st) == status' = [j \in Jobs |-> IF j \in S THEN st ELSE status[j]]

In(S, st) == \A j \in S : status[j] = st

Submit(j) ==
  /\ status[j] = "absent"
  /\ Move({j}, "pending")
  /\ UNCHANGED working

Take(w, j) ==
  /\ working[w] = NoJob
  /\ status[j] = "pending"
  /\ Move({j}, "running")
  /\ working' = [working EXCEPT ![w] = j]

\* Done, to be retried, or given up: by the worker that took it.
Finish(w) ==
  /\ working[w] # NoJob
  /\ status[working[w]] = "running"
  /\ \E st \in {"completed", "pending", "failed"} : Move({working[w]}, st)
  /\ working' = [working EXCEPT ![w] = NoJob]

Die(w) ==
  /\ working[w] # NoJob
  /\ working' = [working EXCEPT ![w] = NoJob]
  /\ UNCHANGED status

\* Running jobs that nobody works on any more.
Recover(S) ==
  /\ In(S, "running")
  /\ \A w \in Workers : working[w] \notin S
  /\ \E st \in {"pending", "failed"} : Move(S, st)
  /\ UNCHANGED working

Revive(S) == In(S, "failed") /\ Move(S, "pending") /\ UNCHANGED working

Discard(S) == In(S, "failed") /\ Move(S, "purged") /\ UNCHANGED working

Next ==
  \/ \E j \in Jobs : Submit(j)
  \/ \E w \in Workers, j \in Jobs : Take(w, j)
  \/ \E w \in Workers : Finish(w) \/ Die(w)
  \/ \E S \in SUBSET Jobs : Recover(S) \/ Revive(S) \/ Discard(S)

Spec == Init /\ [][Next]_vars
=============================================================================
