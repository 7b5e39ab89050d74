--------------------------- MODULE Supervisor_proofs ---------------------------
(***************************************************************************)
(* Proofs about Supervisor, for any number of saves, signals and exit      *)
(* codes.                                                                  *)
(***************************************************************************)
EXTENDS Supervisor, TLAPS

Bit(b) == IF b THEN 1 ELSE 0

\* A start the main goroutine is committed to.
Owing == pc \in {"check", "start"} \/ (mode = "dev" /\ pc \in {"grace", "kill"})

\* Every start and every restart on its way is paid for by a change, but for the
\* first; so are timers and callbacks.
Budget ==
  /\ source <= saves /\ events["other"] <= saves
  /\ callbacks + Bit(debounce) + events["source"] <= source
  /\ last + Bit(Owing) + restart + callbacks + Bit(debounce) + events["source"]
       <= 1 + source

\* Children come one after the other, the next when the last has been waited for.
Succession ==
  /\ \A c \in Ids : /\ c < last => child[c] = "exited"
                    /\ c > last => child[c] = "unborn"
                    /\ c = last => child[c] # "unborn"
  /\ pc = "check" => last = 0
  /\ pc \in {"started", "select", "grace", "kill", "idle"} => last \in Ids
  /\ pc \in {"start", "idle"} => \A c \in Ids : ~Alive(c)

\* What the exit code of a worker stands for.
Reported ==
  mode = "worker" /\ pc = "off" /\ code # Signalled =>
    /\ \A c \in Ids : ~Alive(c)
    /\ code = 0 => last \in Ids /\ status[last] = 0

Inv == TypeOK /\ Budget /\ Succession /\ Reported

LEMMA InvInit == Init => Inv
  <1>1. MaxSaves \in Nat /\ MaxSignals \in Nat
    BY SupervisorAssumption
  <1>2. Init => TypeOK
    <2>1. /\ 0 \in 0 .. MaxSaves /\ 0 \in 0 .. MaxSaves + 1 /\ 0 \in 0 .. MaxSignals
          /\ Unset \in 0 .. Unset /\ 0 \in 0 .. 1
      BY <1>1 DEF Unset
    <2> QED
      BY <2>1 DEF Init, TypeOK
  <1>3. Init => Budget
    BY <1>1 DEF Init, Budget, Owing, Bit
  <1>4. Init => Succession /\ Reported
    BY DEF Init, Succession, Reported, Ids
  <1> QED
    BY <1>2, <1>3, <1>4 DEF Inv

-----------------------------------------------------------------------------
(* A step of the application.                                              *)

LEMMA ChildStep ==
  ASSUME Inv, NEW c \in Ids,
         UNCHANGED <<mode, pc, code, watch, restart, last, signals, sigs>>,
         Alive(c), Alive(c)' \/ child'[c] = "exited",
         \A d \in Ids \ {c} : child'[d] = child[d] /\ status'[d] = status[d],
         child' \in [Ids -> {"unborn", "booting", "running", "stopping", "killed", "exited"}],
         loaded' \in [Ids -> 0 .. MaxSaves], status' \in [Ids -> 0 .. Unset]
  PROVE  Inv'
  <1>1. TypeOK'
    BY DEF Inv, TypeOK, watch
  <1>2. Budget'
    BY DEF Inv, Budget, Owing, Bit, watch
  <1>3. c = last
    BY DEF Inv, TypeOK, Succession, Alive, Ids
  <1>4. Succession'
    BY <1>3 DEF Inv, Succession, Alive
  <1>5. Reported'
    BY DEF Inv, Reported, Alive
  <1> QED
    BY <1>1, <1>2, <1>4, <1>5 DEF Inv

LEMMA ApplicationStep ==
  ASSUME Inv, NEW c \in Ids, Load(c) \/ ExitItself(c) \/ DieOfKill(c)
  PROVE  Inv'
  <1> USE DEF Inv, TypeOK
  <1>1. CASE Load(c)
    <2>1. /\ Alive(c) /\ child' = [child EXCEPT ![c] = "running"]
          /\ loaded' = [loaded EXCEPT ![c] = source] /\ status' = status
          /\ UNCHANGED <<mode, pc, code, watch, restart, last, signals, sigs>>
      BY <1>1 DEF Load, Alive
    <2>2. /\ Alive(c)'
          /\ \A d \in Ids \ {c} : child'[d] = child[d] /\ status'[d] = status[d]
          /\ child' \in [Ids -> {"unborn", "booting", "running", "stopping", "killed", "exited"}]
          /\ loaded' \in [Ids -> 0 .. MaxSaves] /\ status' \in [Ids -> 0 .. Unset]
      BY <2>1 DEF Alive
    <2> HIDE DEF Inv
    <2> QED
      BY <2>1, <2>2, ChildStep
  <1>2. ASSUME NEW how \in 0 .. Unset, Alive(c), Ended(c, how) PROVE Inv'
    <2>1. /\ child' = [child EXCEPT ![c] = "exited"]
          /\ status' = [status EXCEPT ![c] = how] /\ loaded' = loaded
          /\ UNCHANGED <<mode, pc, code, watch, restart, last, signals, sigs>>
      BY <1>2 DEF Ended
    <2>2. /\ child'[c] = "exited"
          /\ \A d \in Ids \ {c} : child'[d] = child[d] /\ status'[d] = status[d]
          /\ child' \in [Ids -> {"unborn", "booting", "running", "stopping", "killed", "exited"}]
          /\ loaded' \in [Ids -> 0 .. MaxSaves] /\ status' \in [Ids -> 0 .. Unset]
      BY <2>1
    <2> HIDE DEF Inv
    <2> QED
      BY <1>2, <2>1, <2>2, ChildStep
  <1>3. CASE ExitItself(c)
    <2>1. ExitCodes \subseteq 0 .. Unset /\ 0 \in 0 .. Unset
      BY SupervisorAssumption DEF Unset
    <2>2. Alive(c) /\ \E how \in 0 .. Unset : Ended(c, how)
      BY <1>3, <2>1 DEF ExitItself, Alive
    <2> HIDE DEF Inv
    <2> QED
      BY <1>2, <2>2
  <1>4. CASE DieOfKill(c)
    <2>1. Alive(c) /\ Signalled \in 0 .. Unset /\ Ended(c, Signalled)
      BY <1>4 DEF DieOfKill, Alive, Signalled, Unset
    <2> HIDE DEF Inv
    <2> QED
      BY <1>2, <2>1
  <1> QED
    BY <1>1, <1>3, <1>4

-----------------------------------------------------------------------------
(* A step of the watcher: the children are left alone.                     *)

LEMMA WatcherStep ==
  ASSUME Inv,
         \/ \E k \in DOMAIN events : Save(k) \/ Event(k)
         \/ DebounceExpires \/ SendRestart
  PROVE  Inv'
  <1>1. UNCHANGED <<mode, pc, code, process, signals, sigs>> /\ Watched
    BY DEF Save, Event, DebounceExpires, SendRestart
  <1>2. Succession' /\ Reported'
    BY <1>1 DEF Inv, Succession, Reported, Alive, process
  <1>3. DOMAIN events = {"source", "other"}
    BY DEF Inv, TypeOK
  <1>4. /\ MaxSaves \in Nat /\ saves \in Nat /\ source \in Nat /\ restart \in {0, 1}
        /\ callbacks \in Nat /\ last \in Nat
        /\ events["source"] \in Nat /\ events["other"] \in Nat
        /\ Bit(debounce) = IF debounce THEN 1 ELSE 0
        /\ Bit(Owing) \in {0, 1} /\ Bit(Owing)' = Bit(Owing)
    BY <1>1, SupervisorAssumption DEF Inv, TypeOK, Bit, Owing
  <1> DEFINE Paid ==
        /\ source \in 0 .. MaxSaves /\ saves \in 0 .. MaxSaves
        /\ events \in [{"source", "other"} -> 0 .. MaxSaves]
        /\ debounce \in BOOLEAN /\ callbacks \in 0 .. MaxSaves /\ restart \in 0 .. 1
        /\ Budget
  <1>5. ASSUME Paid' PROVE Inv'
    BY <1>1, <1>2, <1>5 DEF Inv, TypeOK, process
  <1>6. ASSUME NEW k \in DOMAIN events, Save(k) PROVE Paid'
    <2>1. /\ saves < MaxSaves /\ saves' = saves + 1
          /\ source' = IF k = "source" THEN source + 1 ELSE source
          /\ events' = [events EXCEPT ![k] = events[k] + 1]
          /\ debounce' = debounce /\ callbacks' = callbacks /\ restart' = restart
          /\ last' = last
      BY <1>6 DEF Save, process
    <2> QED
      BY <1>1, <1>3, <1>4, <2>1 DEF Inv, TypeOK, Budget, Bit
  <1>7. ASSUME NEW k \in DOMAIN events, Event(k) PROVE Paid'
    <2>1. /\ events[k] > 0 /\ events' = [events EXCEPT ![k] = events[k] - 1]
          /\ debounce' = (debounce \/ k = "source")
          /\ UNCHANGED <<saves, source, callbacks, restart, last>>
      BY <1>7 DEF Event, Arms, process
    <2> QED
      BY <1>1, <1>3, <1>4, <2>1 DEF Inv, TypeOK, Budget, Bit
  <1>8. CASE DebounceExpires
    <2>1. /\ debounce /\ debounce' = FALSE /\ callbacks' = callbacks + 1
          /\ UNCHANGED <<saves, source, events, restart, last>>
      BY <1>8 DEF DebounceExpires, process
    <2>2. Bit(debounce) = 1 /\ Bit(debounce') = 0
      BY <2>1 DEF Bit
    <2>3. Budget'
      BY <1>1, <1>4, <2>1, <2>2 DEF Inv, Budget
    <2>4. callbacks' \in 0 .. MaxSaves
      BY <1>4, <2>1, <2>2 DEF Inv, TypeOK, Budget
    <2>5. Paid'
      BY <2>1, <2>3, <2>4 DEF Inv, TypeOK
    <2> QED
      BY <1>5, <2>5
  <1>9. CASE SendRestart
    <2>1. /\ callbacks > 0 /\ callbacks' = callbacks - 1 /\ restart' = 1
          /\ UNCHANGED <<saves, source, events, debounce, last>>
      BY <1>9 DEF SendRestart, Offered, process
    <2>2. Paid'
      BY <1>1, <1>3, <1>4, <2>1 DEF Inv, TypeOK, Budget, Bit
    <2> QED
      BY <1>5, <2>2
  <1> QED
    BY <1>5, <1>6, <1>7, <1>8, <1>9

-----------------------------------------------------------------------------
(* A step of the main goroutine or a signal: nothing changes on disk.      *)

\* The budget is kept by what does not commit to more starts.
LEMMA BudgetKept ==
  ASSUME Inv, UNCHANGED watch, last' \in Nat, restart' \in {0, 1},
         last' + Bit(Owing)' + restart' <= last + Bit(Owing) + restart
  PROVE  Budget'
  <1>1. /\ source' = source /\ saves' = saves /\ events' = events
        /\ callbacks' = callbacks /\ debounce' = debounce
    BY DEF watch
  <1>2. /\ callbacks \in Nat /\ source \in Nat /\ events["source"] \in Nat
        /\ last \in Nat /\ restart \in Nat
        /\ Bit(debounce) \in {0, 1} /\ Bit(debounce)' = Bit(debounce)
        /\ Bit(Owing) \in {0, 1} /\ Bit(Owing)' \in {0, 1}
    BY <1>1, SupervisorAssumption DEF Inv, TypeOK, Bit
  <1> QED
    BY <1>1, <1>2 DEF Inv, Budget

\* What becomes of the last child changes nothing for the others.
LEMMA LastKilled ==
  ASSUME Inv, last \in Ids,
         child' \in {Terminated(last), Killed(last), child}
  PROVE  /\ child' \in [Ids -> {"unborn", "booting", "running", "stopping", "killed", "exited"}]
         /\ \A c \in Ids \ {last} : child'[c] = child[c]
  BY DEF Inv, TypeOK, Terminated, Killed

\* The command ends, or looks about.
LEMMA QuietStep ==
  ASSUME Inv,
         UNCHANGED <<mode, watch, restart, process>>,
         signals' \in 0 .. MaxSignals, sigs' \in 0 .. 1,
         \/ UNCHANGED <<pc, code>>
         \/ pc = "check" /\ pc' = "start" /\ UNCHANGED code
         \/ pc = "started" /\ pc' = "select" /\ UNCHANGED code
         \/ pc \in {"check", "start"} /\ pc' = "off" /\ code' \in {1, 2}
  PROVE  Inv'
  <1>1. Owing' => Owing
    BY DEF Owing, watch
  <1>2. Budget'
    <2>1. Bit(Owing)' <= Bit(Owing) /\ Bit(Owing) \in Nat /\ Bit(Owing)' \in Nat
      BY <1>1 DEF Bit
    <2>2. last \in Nat /\ restart \in {0, 1} /\ last' = last /\ restart' = restart
      BY SupervisorAssumption DEF Inv, TypeOK, process
    <2> QED
      BY <2>1, <2>2, BudgetKept
  <1>3. Succession'
    <2>1. pc' = "start" => \A c \in Ids : ~Alive(c)
      <3>1. pc = "check" => \A c \in Ids : child[c] = "unborn"
        BY DEF Inv, Succession, Ids
      <3> QED
        BY <3>1 DEF Inv, Succession, Alive
    <2> QED
      BY <2>1 DEF Inv, Succession, Alive, process
  <1>4. Reported'
    <2>1. pc \in {"check", "start"} => \A c \in Ids : ~Alive(c)
      <3>1. pc = "check" => \A c \in Ids : child[c] = "unborn"
        BY DEF Inv, Succession, Ids
      <3> QED
        BY <3>1 DEF Inv, Succession, Alive
    <2> QED
      BY <2>1 DEF Inv, Reported, Alive, process
  <1>5. TypeOK'
    BY DEF Inv, TypeOK, watch, process, Unset
  <1> QED
    BY <1>2, <1>3, <1>4, <1>5 DEF Inv

\* The budget pays for the child that is to be started.
LEMMA NextChild == ASSUME Inv, pc = "start" PROVE last + 1 \in Ids
  <1>1. /\ source \in Nat /\ source <= MaxSaves /\ callbacks \in Nat
        /\ events["source"] \in Nat /\ Bit(debounce) \in Nat
        /\ last \in Nat /\ restart \in Nat /\ MaxSaves \in Nat
        /\ Bit(Owing) = 1
    BY SupervisorAssumption DEF Inv, TypeOK, Bit, Owing
  <1> QED
    BY <1>1 DEF Inv, Budget, Ids

LEMMA StartStep == ASSUME Inv, Start PROVE Inv'
  <1>1. /\ pc = "start" /\ pc' = "started" /\ last' = last + 1
        /\ child' = [child EXCEPT ![last + 1] = "booting"]
        /\ UNCHANGED <<mode, code, watch, restart, loaded, status, signals, sigs>>
    BY DEF Start, Goto
  <1>2. last \in Nat /\ MaxSaves \in Nat /\ restart \in {0, 1}
    BY SupervisorAssumption DEF Inv, TypeOK
  <1>3. last + 1 \in Ids
    BY <1>1, NextChild
  <1>4. TypeOK'
    BY <1>1, <1>2, <1>3 DEF Inv, TypeOK, Ids, watch
  <1>5. Budget'
    <2>1. Bit(Owing) = 1 /\ Bit(Owing)' = 0
      BY <1>1 DEF Bit, Owing
    <2> QED
      BY <1>1, <1>2, <2>1, BudgetKept
  <1>6. Succession'
    <2>1. child'[last'] = "booting" /\ \A c \in Ids \ {last'} : child'[c] = child[c]
      BY <1>1, <1>3 DEF Inv, TypeOK
    <2>2. last \in Ids => child[last] = "exited"
      BY <1>1 DEF Inv, TypeOK, Succession, Alive
    <2> QED
      BY <1>1, <1>2, <1>3, <2>1, <2>2 DEF Inv, Succession, Ids
  <1>7. Reported'
    BY <1>1 DEF Reported
  <1> QED
    BY <1>4, <1>5, <1>6, <1>7 DEF Inv

\* The child is gone and has been waited for.
LEMMA ChildDoneStep == ASSUME Inv, ChildDone PROVE Inv'
  <1>1. /\ last \in Ids /\ child[last] = "exited"
        /\ UNCHANGED <<mode, watch, restart, process, signals, sigs>>
        /\ \/ /\ mode = "dev" /\ code' = code
              /\ \/ pc = "select" /\ pc' = "idle"
                 \/ pc \in {"grace", "kill"} /\ pc' = "start"
           \/ /\ mode = "worker" /\ pc' = "off"
              /\ \/ pc \in {"select", "grace"} /\ code' = ChildExitCode(last)
                 \/ pc = "kill" /\ code' = 1
    BY SupervisorAssumption DEF ChildDone, Goto, Quit, Inv, TypeOK
  <1>2. \A c \in Ids : ~Alive(c)
    BY <1>1 DEF Inv, TypeOK, Succession, Alive, Ids
  <1>3. code' \in 0 .. Unset
    BY <1>1 DEF Inv, TypeOK, ChildExitCode, Signalled, Unset
  <1>4. TypeOK'
    BY <1>1, <1>3 DEF Inv, TypeOK, watch, process
  <1>5. Budget'
    <2>1. Owing' => Owing
      BY <1>1 DEF Owing
    <2>2. Bit(Owing)' <= Bit(Owing) /\ Bit(Owing) \in Nat /\ Bit(Owing)' \in Nat
      BY <2>1 DEF Bit
    <2>3. last \in Nat /\ restart \in {0, 1} /\ last' = last /\ restart' = restart
      BY <1>1, SupervisorAssumption DEF Inv, TypeOK, process
    <2> QED
      BY <1>1, <2>2, <2>3, BudgetKept
  <1>6. Succession'
    BY <1>1, <1>2 DEF Inv, Succession, Alive, process
  <1>7. Reported'
    <2>1. ASSUME mode = "worker", code' = 0 PROVE status[last] = 0
      BY <1>1, <2>1 DEF ChildExitCode
    <2>2. mode' = mode /\ last' = last /\ status' = status /\ child' = child
      BY <1>1 DEF process
    <2> QED
      BY <1>1, <1>2, <2>1, <2>2 DEF Reported, Alive
  <1> QED
    BY <1>4, <1>5, <1>6, <1>7 DEF Inv

\* The last child is told to stop or is killed, and the main goroutine waits or
\* has died.
LEMMA StopStep ==
  ASSUME Inv,
         UNCHANGED <<mode, watch, last, loaded, status>>,
         signals' \in 0 .. MaxSignals, sigs' \in 0 .. 1,
         last \in Ids, child' \in {Terminated(last), Killed(last), child},
         \/ /\ pc = "select" /\ pc' = "grace" /\ UNCHANGED code
            /\ IF mode = "dev" THEN restart = 1 /\ restart' = 0 ELSE UNCHANGED restart
         \/ pc = "grace" /\ pc' = "kill" /\ UNCHANGED <<code, restart>>
         \/ pc' = "off" /\ code' = Signalled /\ UNCHANGED restart
  PROVE  Inv'
  <1>1. /\ child' \in [Ids -> {"unborn", "booting", "running", "stopping", "killed", "exited"}]
        /\ \A c \in Ids \ {last} : child'[c] = child[c]
    BY LastKilled
  <1>2. TypeOK'
    BY <1>1 DEF Inv, TypeOK, watch, Signalled, Unset
  <1>3. Budget'
    <2>1. last \in Nat /\ restart \in {0, 1} /\ restart' \in {0, 1} /\ last' = last
      BY SupervisorAssumption DEF Inv, TypeOK
    <2>2. \/ restart = 1 /\ restart' = 0
          \/ restart' = restart /\ (Owing' => Owing)
      BY DEF Owing
    <2>3. /\ Bit(Owing) \in {0, 1} /\ Bit(Owing)' \in {0, 1}
          /\ (Owing' => Owing) => Bit(Owing)' <= Bit(Owing)
      BY DEF Bit
    <2>4. Bit(Owing)' + restart' <= Bit(Owing) + restart
      BY <2>1, <2>2, <2>3
    <2> QED
      BY <2>1, <2>3, <2>4, BudgetKept
  <1>4. Succession'
    <2>1. child'[last] # "unborn"
      BY DEF Inv, TypeOK, Succession, Terminated, Killed, Alive
    <2>2. last' = last /\ last \in Nat
      BY SupervisorAssumption DEF Inv, TypeOK
    <2>3. \A c \in Ids : c < last \/ c > last => child'[c] = child[c]
      BY <1>1, <2>2 DEF Ids
    <2> QED
      BY <2>1, <2>2, <2>3 DEF Inv, Succession, Ids
  <1>5. Reported'
    BY DEF Reported
  <1> QED
    BY <1>2, <1>3, <1>4, <1>5 DEF Inv

LEMMA ResumeStep == ASSUME Inv, Resume PROVE Inv'
  <1>1. /\ pc = "idle" /\ pc' = "start" /\ restart = 1 /\ restart' = 0
        /\ UNCHANGED <<mode, code, watch, process, signals, sigs>>
    BY DEF Resume, Goto
  <1>2. TypeOK'
    BY <1>1 DEF Inv, TypeOK, watch, process
  <1>3. Budget'
    <2>1. last \in Nat /\ last' = last
      BY <1>1, SupervisorAssumption DEF Inv, TypeOK, process
    <2>2. Bit(Owing) = 0 /\ Bit(Owing)' = 1
      BY <1>1 DEF Bit, Owing
    <2> QED
      BY <1>1, <2>1, <2>2, BudgetKept
  <1>4. Succession' /\ Reported'
    BY <1>1 DEF Inv, Succession, Reported, Alive, process
  <1> QED
    BY <1>2, <1>3, <1>4 DEF Inv

-----------------------------------------------------------------------------
LEMMA InvStep == Inv /\ [Next]_vars => Inv'
  <1> SUFFICES ASSUME Inv, [Next]_vars PROVE Inv'
    OBVIOUS
  <1>0. MaxSignals \in Nat /\ signals \in 0 .. MaxSignals /\ sigs \in 0 .. 1
    BY SupervisorAssumption DEF Inv, TypeOK
  <1>1. CASE Check \/ Attend
    BY <1>0, <1>1, QuietStep DEF Check, Attend, Goto
  <1>2. CASE CheckFails \/ StartFails
    <2>1. /\ pc \in {"check", "start"} /\ pc' = "off" /\ code' \in {1, 2}
          /\ UNCHANGED <<mode, watch, restart, process, signals, sigs>>
      BY <1>2 DEF CheckFails, StartFails, Quit
    <2> QED
      BY <1>0, <2>1, QuietStep
  <1>3. CASE Start
    BY <1>3, StartStep
  <1>4. CASE ChildDone
    BY <1>4, ChildDoneStep
  <1>5. CASE Resume
    BY <1>5, ResumeStep
  <1>6. CASE Terminate
    <2>1. last \in Ids
      BY <1>6 DEF Terminate, Goto, Inv, Succession
    <2> QED
      BY <1>0, <1>6, <2>1, StopStep DEF Terminate, Goto
  <1>7. CASE GraceExpires
    <2>1. last \in Ids
      BY <1>7 DEF GraceExpires, AfterKill, Goto, Inv, Succession
    <2> QED
      BY <1>0, <1>7, <2>1, StopStep DEF GraceExpires, AfterKill, Goto
  <1>8. CASE Signal
    <2>1. /\ signals' \in 0 .. MaxSignals /\ sigs' \in 0 .. 1
          /\ UNCHANGED <<mode, pc, code, watch, restart, process>>
      BY <1>0, <1>8 DEF Signal
    <2> QED
      BY <2>1, QuietStep
  <1>9. ASSUME NEW both \in BOOLEAN, SignalUnhandled(both) PROVE Inv'
    <2>1. /\ signals' \in 0 .. MaxSignals /\ sigs' = sigs
          /\ pc' = "off" /\ code' = Signalled
          /\ child' = IF both /\ last \in Ids THEN Terminated(last) ELSE child
          /\ UNCHANGED <<mode, watch, restart, last, loaded, status>>
      BY <1>0, <1>9 DEF SignalUnhandled
    <2>2. CASE last \in Ids
      BY <1>0, <2>1, <2>2, StopStep
    <2>3. CASE last \notin Ids
      <3>1. child' = child
        BY <2>1, <2>3
      <3>2. TypeOK'
        BY <1>0, <2>1, <3>1 DEF Inv, TypeOK, watch, Signalled, Unset
      <3>3. Budget'
        <4>1. last \in Nat /\ restart \in {0, 1}
          BY SupervisorAssumption DEF Inv, TypeOK
        <4>2. Bit(Owing) \in Nat /\ Bit(Owing)' = 0
          BY <2>1 DEF Bit, Owing
        <4> QED
          BY <2>1, <4>1, <4>2, BudgetKept
      <3>4. Succession' /\ Reported'
        BY <2>1, <3>1 DEF Inv, Succession, Reported
      <3> QED
        BY <3>2, <3>3, <3>4 DEF Inv
    <2> QED
      BY <2>2, <2>3
  <1>10. CASE Watcher \/ \E k \in DOMAIN events : Save(k)
    BY <1>10, WatcherStep DEF Watcher
  <1>11. CASE \E c \in Ids : Load(c) \/ ExitItself(c) \/ DieOfKill(c)
    BY <1>11, ApplicationStep
  <1>12. CASE UNCHANGED vars
    <2>1. UNCHANGED <<mode, pc, code, watch, restart, process, signals, sigs>>
      BY <1>12 DEF vars
    <2> QED
      BY <1>0, <2>1, QuietStep
  <1> QED
    BY <1>1, <1>2, <1>3, <1>4, <1>5, <1>6, <1>7, <1>8, <1>9, <1>10, <1>11, <1>12
       DEF Next, Main

LEMMA InvAlways == Spec => []Inv
  BY InvInit, InvStep, PTL DEF Spec

-----------------------------------------------------------------------------
(* No change is lost: each stage hands it to the next.                     *)

\* A change of the sources that is on its way to a restart.
OnItsWay == events["source"] > 0 \/ debounce \/ callbacks > 0 \/ restart = 1

LEMMA SaveKeepsChange ==
  ASSUME Inv, NEW k \in DOMAIN events, Save(k), NoChangeLost
  PROVE  NoChangeLost'
  <1>1. /\ k \in {"source", "other"} /\ events["source"] \in Nat
        /\ source' = IF k = "source" THEN source + 1 ELSE source
        /\ events' = [events EXCEPT ![k] = events[k] + 1]
        /\ UNCHANGED <<mode, pc, debounce, callbacks, restart, last, child, loaded>>
    BY SupervisorAssumption DEF Inv, TypeOK, Save, process
  <1>2. CASE k = "source"
    <2>1. events'["source"] > 0
      BY <1>1, <1>2 DEF Inv, TypeOK
    <2> QED
      BY <2>1 DEF NoChangeLost
  <1>3. CASE k = "other"
    <2>1. events'["source"] = events["source"] /\ source' = source
      BY <1>1, <1>3 DEF Inv, TypeOK
    <2> QED
      BY <1>1, <2>1 DEF NoChangeLost
  <1> QED
    BY <1>1, <1>2, <1>3

LEMMA HandOn ==
  ASSUME Inv, Watcher, NoChangeLost
  PROVE  NoChangeLost'
  <1>1. UNCHANGED <<mode, pc, source, last, child, loaded>>
    BY DEF Watcher, Event, DebounceExpires, SendRestart, process
  <1>2. OnItsWay => OnItsWay'
    <2>1. ASSUME NEW k \in DOMAIN events, Event(k), OnItsWay PROVE OnItsWay'
      <3>1. /\ k \in {"source", "other"}
            /\ events' = [events EXCEPT ![k] = events[k] - 1]
            /\ debounce' = (debounce \/ k = "source")
            /\ UNCHANGED <<callbacks, restart>>
        BY <2>1 DEF Inv, TypeOK, Event, Arms
      <3>2. k = "other" => events'["source"] = events["source"]
        BY <3>1 DEF Inv, TypeOK
      <3> QED
        BY <2>1, <3>1, <3>2 DEF OnItsWay
    <2>2. CASE DebounceExpires
      <3>1. callbacks' = callbacks + 1 /\ callbacks \in Nat
        BY <2>2, SupervisorAssumption DEF DebounceExpires, Inv, TypeOK
      <3> QED
        BY <3>1 DEF OnItsWay
    <2>3. CASE SendRestart
      BY <2>3 DEF SendRestart, Offered, OnItsWay
    <2> QED
      BY <2>1, <2>2, <2>3 DEF Watcher
  <1> QED
    BY <1>1, <1>2 DEF NoChangeLost, OnItsWay

LEMMA ChildKeepsChange ==
  ASSUME Inv, NEW c \in Ids, Load(c) \/ ExitItself(c) \/ DieOfKill(c), NoChangeLost
  PROVE  NoChangeLost'
  <1>1. UNCHANGED <<mode, pc, watch, restart, last>>
    BY DEF Load, ExitItself, DieOfKill, Ended
  <1>2. mode = "dev" /\ pc \in {"started", "select", "idle"} => last \in Ids
    BY DEF Inv, Succession
  <1>3. ASSUME last \in Ids, Load(c), child[last] = "booting" \/ loaded[last] = source
        PROVE  child'[last] = "booting" \/ loaded'[last] = source
    BY <1>3 DEF Load, Inv, TypeOK
  <1>4. ASSUME last \in Ids, ExitItself(c) \/ DieOfKill(c),
               child[last] = "booting" \/ loaded[last] = source
        PROVE  child'[last] = "booting" \/ loaded'[last] = source
    <2>1. /\ child[c] # "booting" /\ child' = [child EXCEPT ![c] = "exited"]
          /\ loaded' = loaded
      BY <1>4 DEF ExitItself, DieOfKill, Ended
    <2> QED
      BY <1>4, <2>1 DEF Inv, TypeOK
  <1> QED
    BY <1>1, <1>2, <1>3, <1>4 DEF NoChangeLost, watch

LEMMA MainKeepsChange ==
  ASSUME Inv, Main, NoChangeLost
  PROVE  NoChangeLost'
  <1>1. CASE Check \/ Terminate \/ GraceExpires \/ Resume
    <2>1. pc' \in {"start", "grace", "kill"}
      BY <1>1 DEF Check, Terminate, GraceExpires, AfterKill, Resume, Goto
    <2> QED
      BY <2>1 DEF NoChangeLost
  <1>2. CASE Start
    <2>1. last + 1 \in Ids
      BY <1>2, NextChild DEF Start, Goto
    <2>2. child'[last'] = "booting"
      BY <1>2, <2>1 DEF Start, Inv, TypeOK
    <2> QED
      BY <2>2 DEF NoChangeLost
  <1>3. CASE Attend \/ ChildDone
    <2>1. UNCHANGED <<mode, watch, restart, process>>
      BY <1>3 DEF Attend, ChildDone
    <2>2. UNCHANGED <<mode, source, events, debounce, callbacks, restart, last, child, loaded>>
      BY <2>1 DEF watch, process
    <2>3. pc' \in {"started", "select", "idle"} => pc \in {"started", "select", "idle"}
      BY <1>3 DEF Attend, ChildDone, Goto, Quit
    <2> QED
      BY <2>2, <2>3 DEF NoChangeLost
  <1> QED
    BY <1>1, <1>2, <1>3 DEF Main

LEMMA ChangeStep == Inv /\ NoChangeLost /\ [Next]_vars => NoChangeLost'
  <1> SUFFICES ASSUME Inv, NoChangeLost, [Next]_vars PROVE NoChangeLost'
    OBVIOUS
  <1>1. CASE Main
    BY <1>1, MainKeepsChange
  <1>2. CASE Watcher
    BY <1>2, HandOn
  <1>3. CASE \E k \in DOMAIN events : Save(k)
    BY <1>3, SaveKeepsChange
  <1>4. CASE \E c \in Ids : Load(c) \/ ExitItself(c) \/ DieOfKill(c)
    BY <1>4, ChildKeepsChange
  <1>5. CASE CheckFails \/ StartFails \/ \E both \in BOOLEAN : SignalUnhandled(both)
    <2>1. pc' = "off"
      BY <1>5 DEF CheckFails, StartFails, SignalUnhandled, Quit
    <2> QED
      BY <2>1 DEF NoChangeLost
  <1>6. CASE Signal \/ UNCHANGED vars
    <2>1. UNCHANGED <<mode, pc, watch, restart, process>>
      BY <1>6 DEF Signal, vars
    <2> QED
      BY <2>1 DEF NoChangeLost, watch, process
  <1> QED
    BY <1>1, <1>2, <1>3, <1>4, <1>5, <1>6 DEF Next

-----------------------------------------------------------------------------
\* The state has its type: the children started and the callbacks under way are
\* never more than the changes account for.
THEOREM TypeCorrect == Spec => []TypeOK
  BY InvAlways, PTL DEF Inv

\* Two versions of the application never run at once.
THEOREM OneAtATime == Spec => []OneChild
  <1>1. Inv => OneChild
    BY DEF Inv, TypeOK, Succession, OneChild, Alive, Ids
  <1> QED
    BY <1>1, InvAlways, PTL

\* A restart costs a change.
THEOREM RestartsArePaid == Spec => []RestartsPaid
  <1>1. Inv => RestartsPaid
    <2> SUFFICES ASSUME Inv PROVE RestartsPaid
      OBVIOUS
    <2>1. /\ Bit(Owing) \in Nat /\ Bit(debounce) \in Nat /\ events["source"] \in Nat
          /\ last \in Nat /\ restart \in Nat /\ callbacks \in Nat /\ source \in Nat
      BY SupervisorAssumption DEF Inv, TypeOK, Bit
    <2> QED
      BY <2>1 DEF Inv, Budget, RestartsPaid
  <1> QED
    BY <1>1, InvAlways, PTL

\* A change of the sources is never lost on its way from the watcher to a child.
THEOREM ChangesArrive == Spec => []NoChangeLost
  <1>1. Init => NoChangeLost
    BY DEF Init, NoChangeLost
  <1> QED
    BY <1>1, InvAlways, ChangeStep, PTL DEF Spec

\* A worker command that ends by itself leaves no application behind.
THEOREM NothingLeftBehind == Spec => []NoOrphan
  <1>1. Inv => NoOrphan
    BY DEF Inv, Reported, NoOrphan
  <1> QED
    BY <1>1, InvAlways, PTL

\* A worker that failed or was killed is never reported as a success.
THEOREM FailuresReported == Spec => []FailureReported
  <1>1. Inv => FailureReported
    BY DEF Inv, Reported, FailureReported, Signalled
  <1> QED
    BY <1>1, InvAlways, PTL
=============================================================================
