----------------------------- MODULE Supervisor -----------------------------
(***************************************************************************)
(* gebweb dev (main.go, runDev) and gebweb worker (runWorker and           *)
(* worker_signals.go): both start the application as a child process.  dev *)
(* restarts it when a source changes, worker hands it the signals it gets  *)
(* and ends with its exit code.                                            *)
(*                                                                         *)
(* The watcher, the debounce timer, the restart channel and the child run  *)
(* beside the main goroutine.  A child reads all sources at one moment     *)
(* while it boots.                                                         *)
(***************************************************************************)
EXTENDS Naturals

CONSTANTS
  Modes,        \* the commands that may be run: "dev", "worker"
  ExitCodes,    \* exit codes of an application that ends by itself
  MaxSaves,     \* bound on the changes of files
  MaxSignals    \* bound on the signals sent to the command

ASSUME SupervisorAssumption ==
  /\ Modes \subseteq {"dev", "worker"}
  /\ ExitCodes \subseteq 0 .. 255 /\ 0 \in ExitCodes
  /\ MaxSaves \in Nat /\ MaxSignals \in Nat

Ids == 1 .. MaxSaves + 1
Signalled == 256    \* what ExitCode reports as -1: ended by a signal
Unset     == 257

VARIABLES
  mode,
  pc,           \* of the main goroutine
  code,         \* its exit code
  source,       \* the number of changes of .gb and .yaml files
  saves,
  events,       \* changes the watcher has not handed on: to sources, to other files
  debounce,     \* is the timer running?
  callbacks,    \* expired timers that have not reached the channel
  restart,      \* what is in the channel: buffered, one place
  last,         \* the child that was started last
  child,        \* the state of each
  loaded,       \* the change of the sources it has read
  status,       \* how it ended
  signals,      \* how many were sent
  sigs          \* what is in the channel of signal.Notify: buffered, one place

watch   == <<source, saves, events, debounce, callbacks>>
process == <<last, child, loaded, status>>
vars    == <<mode, pc, code, watch, restart, process, signals, sigs>>

Alive(c) == child[c] \in {"booting", "running", "stopping", "killed"}

Init ==
  /\ mode \in Modes
  /\ pc = "check" /\ code = Unset
  /\ source = 0 /\ saves = 0
  /\ events = [k \in {"source", "other"} |-> 0]
  /\ debounce = FALSE /\ callbacks = 0 /\ restart = 0
  /\ last = 0
  /\ child = [c \in Ids |-> "unborn"]
  /\ loaded = [c \in Ids |-> 0] /\ status = [c \in Ids |-> Unset]
  /\ signals = 0 /\ sigs = 0

Goto(from, to) == pc = from /\ pc' = to /\ UNCHANGED code
Quit(from, c)  == pc = from /\ pc' = "off" /\ code' = c

-----------------------------------------------------------------------------
(* The application.                                                        *)

\* It reads the sources, and from then on handles SIGTERM.
Load(c) ==
  /\ child[c] = "booting"
  /\ child'  = [child EXCEPT ![c] = "running"]
  /\ loaded' = [loaded EXCEPT ![c] = source]
  /\ UNCHANGED <<mode, pc, code, watch, restart, last, status, signals, sigs>>

Ended(c, how) ==
  /\ child'  = [child EXCEPT ![c] = "exited"]
  /\ status' = [status EXCEPT ![c] = how]
  /\ UNCHANGED <<mode, pc, code, watch, restart, last, loaded, signals, sigs>>

\* It ends by itself, or has drained.
ExitItself(c) ==
  \/ child[c] = "running" /\ \E e \in ExitCodes : Ended(c, e)
  \/ child[c] = "stopping" /\ Ended(c, 0)

DieOfKill(c) == child[c] = "killed" /\ Ended(c, Signalled)

\* SIGTERM ends it while it boots; SIGTERM to a process that is gone does nothing.
Terminated(c) ==
  CASE child[c] = "booting" -> [child EXCEPT ![c] = "killed"]
    [] child[c] = "running" -> [child EXCEPT ![c] = "stopping"]
    [] OTHER                -> child

Killed(c) == IF Alive(c) THEN [child EXCEPT ![c] = "killed"] ELSE child

-----------------------------------------------------------------------------
(* dev: the watcher's goroutine.                                           *)

Watched == mode = "dev" /\ pc \notin {"check", "off"}

\* A file of src/ is saved, in a directory that was there at the start.
Save(k) ==
  /\ Watched /\ saves < MaxSaves
  /\ saves'  = saves + 1
  /\ source' = IF k = "source" THEN source + 1 ELSE source
  /\ events' = [events EXCEPT ![k] = @ + 1]
  /\ UNCHANGED <<mode, pc, code, debounce, callbacks, restart, process, signals, sigs>>

\* Bug: every file counts.
ArmsAny(k) == TRUE

Arms(k) == k = "source"

\* A change of another file is passed over; one of a source starts the timer anew.
Event(k) ==
  /\ Watched /\ events[k] > 0
  /\ events' = [events EXCEPT ![k] = @ - 1]
  /\ debounce' = (debounce \/ Arms(k))
  /\ UNCHANGED <<mode, pc, code, source, saves, callbacks, restart, process, signals, sigs>>

DebounceExpires ==
  /\ Watched /\ debounce
  /\ debounce' = FALSE
  /\ callbacks' = callbacks + 1
  /\ UNCHANGED <<mode, pc, code, source, saves, events, restart, process, signals, sigs>>

\* Bug: the channel has no buffer.
OfferedUnbuffered == IF pc \in {"select", "idle"} THEN 1 ELSE restart

\* What is in the channel after a send that gives up when it is full.
Offered == 1

SendRestart ==
  /\ Watched /\ callbacks > 0
  /\ callbacks' = callbacks - 1
  /\ restart' = Offered
  /\ UNCHANGED <<mode, pc, code, source, saves, events, debounce, process, signals, sigs>>

-----------------------------------------------------------------------------
(* Both: the child is started, ends, is told to stop, is killed.           *)

\* No project, no entry file, an unknown flag, assets that do not compile.
CheckFails ==
  /\ Quit("check", IF mode = "dev" THEN 1 ELSE 2) \/ Quit("check", 1)
  /\ UNCHANGED <<mode, watch, restart, process, signals, sigs>>

Check ==
  /\ Goto("check", "start")
  /\ UNCHANGED <<mode, watch, restart, process, signals, sigs>>

Start ==
  /\ Goto("start", "started")
  /\ last' = last + 1
  /\ child' = [child EXCEPT ![last + 1] = "booting"]
  /\ UNCHANGED <<mode, watch, restart, loaded, status, signals, sigs>>

StartFails ==
  /\ Quit("start", 1)
  /\ UNCHANGED <<mode, watch, restart, process, signals, sigs>>

\* The child is waited for; a worker calls signal.Notify.
Attend ==
  /\ Goto("started", "select")
  /\ UNCHANGED <<mode, watch, restart, process, signals, sigs>>

ChildExitCode(c) == IF status[c] = Signalled THEN 1 ELSE status[c]

\* <-done
ChildDone ==
  /\ last \in Ids /\ child[last] = "exited"
  /\ IF mode = "dev"
     THEN Goto("select", "idle") \/ Goto("grace", "start") \/ Goto("kill", "start")
     ELSE \/ Quit("select", ChildExitCode(last)) \/ Quit("grace", ChildExitCode(last))
          \/ Quit("kill", 1)
  /\ UNCHANGED <<mode, watch, restart, process, signals, sigs>>

\* <-restart or <-sigs
Terminate ==
  /\ Goto("select", "grace")
  /\ IF mode = "dev" THEN restart = 1 /\ restart' = 0 /\ UNCHANGED sigs
                     ELSE sigs = 1 /\ sigs' = 0 /\ UNCHANGED restart
  /\ child' = Terminated(last)
  /\ UNCHANGED <<mode, watch, last, loaded, status, signals>>

\* Bug: nobody waits for the child that was killed.
AfterKillAtOnce == IF mode = "dev" THEN Goto("grace", "start") ELSE Quit("grace", 1)

\* Bug: the child has all the time it wants.
AfterKillNever == FALSE /\ Goto("grace", "grace")

AfterKill == Goto("grace", "kill")

\* time.After: 2 s in dev, 30 s for a worker.
GraceExpires ==
  /\ AfterKill
  /\ child' = Killed(last)
  /\ UNCHANGED <<mode, watch, restart, last, loaded, status, signals, sigs>>

\* dev waits for a change after the child has ended by itself.
Resume ==
  /\ Goto("idle", "start")
  /\ restart = 1 /\ restart' = 0
  /\ UNCHANGED <<mode, watch, process, signals, sigs>>

-----------------------------------------------------------------------------
(* Signals to the command.                                                 *)

\* worker, once it has called Notify: a second one is dropped while one waits.
Signal ==
  /\ mode = "worker" /\ pc \in {"select", "grace", "kill"}
  /\ signals < MaxSignals
  /\ signals' = signals + 1
  /\ sigs' = 1
  /\ UNCHANGED <<mode, pc, code, watch, restart, process>>

\* dev at any time, and worker before Notify: it dies, and so does the child only
\* if the terminal sends the signal to both.
SignalUnhandled(both) ==
  /\ pc \in IF mode = "dev" THEN {"start", "started", "select", "grace", "kill", "idle"}
                            ELSE {"start", "started"}
  /\ signals < MaxSignals
  /\ signals' = signals + 1
  /\ pc' = "off" /\ code' = Signalled
  /\ child' = IF both /\ last \in Ids THEN Terminated(last) ELSE child
  /\ UNCHANGED <<mode, watch, restart, last, loaded, status, sigs>>

-----------------------------------------------------------------------------
Main == Check \/ Start \/ Attend \/ ChildDone \/ Terminate \/ GraceExpires \/ Resume

Watcher == (\E k \in DOMAIN events : Event(k)) \/ DebounceExpires \/ SendRestart

Next ==
  \/ Main \/ CheckFails \/ StartFails
  \/ Watcher
  \/ \E k \in DOMAIN events : Save(k)
  \/ \E c \in Ids : Load(c) \/ ExitItself(c) \/ DieOfKill(c)
  \/ Signal
  \/ \E both \in BOOLEAN : SignalUnhandled(both)

Spec == Init /\ [][Next]_vars

\* Goroutines and timers go on, a child boots and dies when it is killed; it may
\* take for ever to drain.
FairSpec ==
  /\ Spec
  /\ WF_vars(Main) /\ WF_vars(Watcher)
  /\ \A c \in Ids : WF_vars(Load(c)) /\ WF_vars(DieOfKill(c))

-----------------------------------------------------------------------------
(* Properties.                                                             *)

TypeOK ==
  /\ mode \in Modes
  /\ pc \in {"check", "start", "started", "select", "grace", "kill", "idle", "off"}
  /\ code \in 0 .. Unset
  /\ source \in 0 .. MaxSaves /\ saves \in 0 .. MaxSaves
  /\ events \in [{"source", "other"} -> 0 .. MaxSaves]
  /\ debounce \in BOOLEAN /\ callbacks \in 0 .. MaxSaves /\ restart \in 0 .. 1
  /\ last \in 0 .. MaxSaves + 1
  /\ child \in [Ids -> {"unborn", "booting", "running", "stopping", "killed", "exited"}]
  /\ loaded \in [Ids -> 0 .. MaxSaves] /\ status \in [Ids -> 0 .. Unset]
  /\ signals \in 0 .. MaxSignals /\ sigs \in 0 .. 1

\* Two versions of the application never run at once, they would share a port:
\* the next child starts when the last is gone, also after one that had to be
\* killed or ended on its own while it was being told to.
OneChild == \A c, d \in Ids : Alive(c) /\ Alive(d) => c = d

\* A restart costs an event of the watcher, of which the model has one a save: a
\* burst of them and callbacks that find the channel full never start more
\* children than there were events.
RestartsPaid == last + restart + callbacks <= 1 + source

\* A worker command that ends by itself leaves no application behind.
NoOrphan ==
  mode = "worker" /\ pc = "off" /\ code # Signalled => \A c \in Ids : ~Alive(c)

\* A worker that failed, or was killed after the grace time, is never reported
\* as a success to the process manager that decides whether to start it again.
FailureReported ==
  mode = "worker" /\ pc = "off" /\ code = 0 => last \in Ids /\ status[last] = 0

\* A change is never lost between watcher, timer, channel and child: as long as dev
\* attends to a child, or waits after it ended, that child is still to read the
\* sources, or has read the last change, or a restart for that change is on its way.
\* A change may come at any moment, and each stage drops what it holds already.
NoChangeLost ==
  mode = "dev" /\ pc \in {"started", "select", "idle"}
  => \/ child[last] = "booting" \/ loaded[last] = source
     \/ events["source"] > 0 \/ debounce \/ callbacks > 0 \/ restart = 1

\* Whenever the sources have changed, dev has in the end started a child that read the
\* last change, whatever it was doing when the change came.
LastChangeRuns ==
  mode = "dev" => <>[](pc = "off" \/ (last \in Ids /\ loaded[last] = source))

\* A worker that gets a signal ends, although the application does not drain.
ShutsDown == (mode = "worker" /\ sigs = 1) ~> (pc = "off")
=============================================================================
