---------------------------- MODULE Supervision ----------------------------
(***************************************************************************)
(* The controller as a process: cli.main with its health file and the lock *)
(* of the health slot, the health check, the monitor that kills a stalled  *)
(* process, and s6, which restarts what has ended.                         *)
(*                                                                         *)
(* A process is a number that is never used again: what (pid, starttime,   *)
(* instance_id) names.  A pid is used again once its process is reaped.    *)
(* s6-supervise and the operator are external, `finish` is ours.           *)
(***************************************************************************)
EXTENDS Naturals

CONSTANTS
  Service,     \* the processes s6 may start, one after the other
  ByHand,      \* the processes somebody may start by hand next to it
  Pids

ASSUME SupervisionAssumption ==
  /\ Service \subseteq Nat \ {0} /\ ByHand \subseteq Nat \ {0}
  /\ Service \cap ByHand = {}
  /\ 0 \notin Pids

Processes == Service \cup ByHand
None == 0      \* no process, no pid

Terminal == {"stopped", "permanent_failure"}
States == {"starting", "running", "fault", "stopping"} \cup Terminal
Codes == {"0", "75", "78", "signal"}

\* none -> new -> locked -> init -> run -> leaving -> done -> dead -> gone;
\* a process that finds the slot taken is refused instead.
Phases == {"none", "new", "locked", "init", "run", "leaving", "done", "refused",
           "dead", "gone"}

VARIABLES
  phase,     \* where each process is
  pidOf,     \* its pid
  code,      \* its exit code, once decided
  hung,      \* the processes that do not go on any more
  term,      \* the processes told to stop by SIGTERM
  lock,      \* who holds the lock of the health slot
  file,      \* the health file: whose record, its state, and is it too old
  child,     \* s6: the process it supervises, until it has reaped it
  wanted,    \* s6: the service is wanted up
  finish,    \* s6: the code `finish` works on, or "no"
  monitor    \* the monitor: where check_once is and what it has seen

process == <<phase, pidOf, code, hung, term>>
s6 == <<child, wanted, finish>>
vars == <<process, lock, file, s6, monitor>>

Alive == {i \in Processes : phase[i] \notin {"none", "dead", "gone"}}
Held == {i \in Processes : phase[i] \notin {"none", "gone"}}  \* have a pid

Round(at, pid, snapshot, pinned) ==
  [at |-> at, pid |-> pid, snapshot |-> snapshot, pinned |-> pinned]
Idle == Round("idle", None, None, None)

Init ==
  /\ phase = [i \in Processes |-> "none"]
  /\ pidOf = [i \in Processes |-> None]
  /\ code = [i \in Processes |-> "0"]
  /\ hung = {} /\ term = {}
  /\ lock = None
  /\ file = [of |-> None, pid |-> None, state |-> "stopped", old |-> FALSE]
  /\ child = None /\ wanted = TRUE /\ finish = "no"
  /\ monitor = Idle

-----------------------------------------------------------------------------
(* cli.main and _run. *)

At(i, p) == phase[i] = p /\ i \notin hung
Goto(i, p) == phase' = [phase EXCEPT ![i] = p]
Record(i, state) == file' = [of |-> i, pid |-> pidOf[i], state |-> state, old |-> FALSE]

\* The end of process i, however it comes: the kernel drops its locks.
Ends(i, how) ==
  /\ Goto(i, "dead")
  /\ code' = [code EXCEPT ![i] = how]
  /\ hung' = hung \ {i} /\ term' = term \ {i}
  /\ lock' = IF lock = i THEN None ELSE lock
  /\ UNCHANGED pidOf

Spawn(i, pid) ==
  /\ phase[i] = "none"
  /\ \A j \in Held : pidOf[j] # pid
  /\ Goto(i, "new")
  /\ pidOf' = [pidOf EXCEPT ![i] = pid]
  /\ UNCHANGED <<code, hung, term, lock, file, monitor>>

\* Mutant: the record of the refusal goes into the file all the same.
TakeSlotRecords(i) ==
  /\ At(i, "new")
  /\ IF lock = None
     THEN Goto(i, "locked") /\ lock' = i /\ UNCHANGED <<code, file>>
     ELSE /\ Goto(i, "refused") /\ code' = [code EXCEPT ![i] = "78"]
          /\ Record(i, "permanent_failure") /\ UNCHANGED lock
  /\ UNCHANGED <<pidOf, hung, term, s6, monitor>>

\* The slot's lock comes first; who does not get it leaves the file alone.
TakeSlot(i) ==
  /\ At(i, "new")
  /\ IF lock = None
     THEN Goto(i, "locked") /\ lock' = i /\ UNCHANGED code
     ELSE Goto(i, "refused") /\ code' = [code EXCEPT ![i] = "78"] /\ UNCHANGED lock
  /\ UNCHANGED <<pidOf, hung, term, file, s6, monitor>>

PublishStarting(i) ==
  /\ At(i, "locked")
  /\ Goto(i, "init") /\ Record(i, "starting")
  /\ UNCHANGED <<pidOf, code, hung, term, lock, s6, monitor>>

\* Configuration, credentials, identity and version of the device: the code
\* is decided, and what is left is to clean up and write it down.
PreflightFails(i) == \E c \in {"75", "78"} :
  /\ At(i, "init")
  /\ Goto(i, "leaving") /\ code' = [code EXCEPT ![i] = c]
  /\ UNCHANGED <<pidOf, hung, term, lock, file, s6, monitor>>

\* The signal handlers are installed and Runtime runs.
Ready(i) ==
  /\ At(i, "init")
  /\ Goto(i, "run")
  /\ UNCHANGED <<pidOf, code, hung, term, lock, file, s6, monitor>>

\* A completed control cycle is published.
Cycle(i) ==
  /\ At(i, "run")
  /\ Record(i, "running")
  /\ UNCHANGED <<process, lock, s6, monitor>>

\* A fault is published when it is found; Runtime and MQTT are stopped later.
Faults(i) == \E c \in {"75", "78"} :
  /\ At(i, "run")
  /\ Goto(i, "leaving") /\ code' = [code EXCEPT ![i] = c] /\ Record(i, "fault")
  /\ UNCHANGED <<pidOf, hung, term, lock, s6, monitor>>

Stops(i) ==
  /\ At(i, "run") /\ i \in term
  /\ Goto(i, "leaving") /\ Record(i, "stopping")
  /\ UNCHANGED <<pidOf, code, hung, term, lock, s6, monitor>>

Final(c) == IF c = "78" THEN "permanent_failure" ELSE "stopped"

\* The last record, then the slot is free.
WriteFinal(i) ==
  /\ At(i, "leaving")
  /\ Goto(i, "done") /\ Record(i, Final(code[i])) /\ lock' = None
  /\ UNCHANGED <<pidOf, code, hung, term, s6, monitor>>

Exit(i) ==
  /\ At(i, "done") \/ At(i, "refused")
  /\ Ends(i, code[i])
  /\ UNCHANGED <<file, s6, monitor>>

\* An uncaught exception, the OOM killer, a kill from outside.
Crash(i) ==
  /\ i \in Alive
  /\ Ends(i, "signal")
  /\ UNCHANGED <<file, s6, monitor>>

\* A read, a lock or the interpreter's exit that never comes back.
Hang(i) ==
  /\ i \in Alive \ hung
  /\ hung' = hung \cup {i}
  /\ UNCHANGED <<phase, pidOf, code, term, lock, file, s6, monitor>>

\* Ten seconds since the start without a cycle, or two since the last cycle.
Expire ==
  /\ file.state \in {"starting", "running"} /\ ~file.old
  /\ file' = [of |-> file.of, pid |-> file.pid, state |-> file.state, old |-> TRUE]
  /\ UNCHANGED <<process, lock, s6, monitor>>

-----------------------------------------------------------------------------
(* s6-supervise (external) and finish. *)

S6Start(i) == \E pid \in Pids :
  /\ wanted /\ child = None /\ finish = "no"
  /\ \A j \in Service : j < i => phase[j] # "none"
  /\ Spawn(i, pid)
  /\ child' = i
  /\ UNCHANGED <<wanted, finish>>

\* Somebody runs the program by hand, next to the service.
StartByHand(i) == \E pid \in Pids : Spawn(i, pid) /\ UNCHANGED s6

Reaped(i) ==
  /\ Goto(i, "gone")
  /\ pidOf' = [pidOf EXCEPT ![i] = None] /\ code' = [code EXCEPT ![i] = "0"]

S6Reap ==
  /\ child # None /\ phase[child] = "dead"
  /\ Reaped(child) /\ finish' = code[child] /\ child' = None
  /\ UNCHANGED <<hung, term, lock, file, wanted, monitor>>

Reap(i) ==
  /\ phase[i] = "dead" /\ i # child
  /\ Reaped(i)
  /\ UNCHANGED <<hung, term, lock, file, s6, monitor>>

\* 78 makes it exit 125, upon which s6 does not want the service up any more;
\* 75 makes it sleep, which is only time.
Finish ==
  /\ finish # "no"
  /\ finish' = "no" /\ wanted' = (wanted /\ finish # "78")
  /\ UNCHANGED <<process, lock, file, child, monitor>>

\* s6-svc -d: SIGTERM, for which there is a handler once Runtime runs.
OperatorStops ==
  /\ wanted /\ wanted' = FALSE
  /\ IF child = None \/ child \notin Alive THEN UNCHANGED <<process, lock>>
     ELSE IF phase[child] \in {"run", "leaving"}
     THEN term' = term \cup {child} /\ UNCHANGED <<phase, pidOf, code, hung, lock>>
     ELSE Ends(child, "signal")
  /\ UNCHANGED <<file, child, finish, monitor>>

\* ... and SIGKILL after timeout-kill.
S6Kills ==
  /\ child \in term /\ ~wanted
  /\ Ends(child, "signal")
  /\ UNCHANGED <<file, s6, monitor>>

OperatorStarts ==
  /\ ~wanted /\ wanted' = TRUE
  /\ UNCHANGED <<process, lock, file, child, finish, monitor>>

-----------------------------------------------------------------------------
(* health.check_health and health_monitor.check_once. *)

\* Mutant: whoever has the pid now will do.
SameProcessByPid(i, pid) == \E j \in Held : pidOf[j] = pid

\* process_starttime(pid) answers for whoever has the pid now.
SameProcess(i, pid) == \E j \in Held : pidOf[j] = pid /\ j = i

Renewing ==
  file.state \in {"starting", "running"} /\ SameProcess(file.of, file.pid)

\* Mutant: a start may take as long as it likes.
StatusGraceless ==
  CASE file.of # None /\ file.state \in Terminal -> file.state
    [] Renewing /\ file.state = "starting" -> "starting"
    [] Renewing /\ file.state = "running" /\ ~file.old -> "healthy"
    [] OTHER -> "stale"

\* Terminal records speak for themselves; any other is its writer's while that
\* is there and renews it, and a fault or a stop is stale at once.
Status ==
  CASE file.of # None /\ file.state \in Terminal -> file.state
    [] Renewing /\ file.state = "starting" /\ ~file.old -> "starting"
    [] Renewing /\ file.state = "running" /\ ~file.old -> "healthy"
    [] OTHER -> "stale"

S6Up == child # None

\* Each question of check_once and where it goes on; a "no" ends this round.
Ask(from, answer, next) ==
  /\ monitor.at = from
  /\ monitor' = IF answer THEN next ELSE Idle
  /\ UNCHANGED <<process, lock, file, s6>>

ReadStatus ==
  Ask("idle", S6Up /\ wanted,
      Round("status", IF S6Up THEN pidOf[child] ELSE None, None, None))

CheckHealth ==
  Ask("status", Status = "stale" /\ file.pid = monitor.pid,
      Round("snapshot", monitor.pid, file.of, None))

\* pidfd_open, of whoever has the pid now.
Pin == \E j \in Processes \cup {None} :
  /\ IF j = None THEN \A i \in Held : pidOf[i] # monitor.pid
                 ELSE j \in Held /\ pidOf[j] = monitor.pid
  /\ Ask("snapshot", j # None, Round("pinned", monitor.pid, monitor.snapshot, j))

\* Mutant: the start time is not compared again.
IdentifyByPid ==
  Ask("pinned", monitor.pinned \in Held, Round("identified", monitor.pid, monitor.snapshot, monitor.pinned))

\* Signal 0 to the pinned process, and the start time of its pid.
Identify ==
  Ask("pinned", monitor.pinned \in Held /\ SameProcess(monitor.snapshot, monitor.pid),
      Round("identified", monitor.pid, monitor.snapshot, monitor.pinned))

CheckAgain ==
  Ask("identified", Status = "stale" /\ file.of = monitor.snapshot,
      Round("stale", monitor.pid, monitor.snapshot, monitor.pinned))

ReadStatusAgain ==
  Ask("stale", S6Up /\ wanted /\ pidOf[child] = monitor.pid,
      Round("kill", monitor.pid, monitor.snapshot, monitor.pinned))

\* A signal through the pidfd reaches the pinned process or nobody.
Kill ==
  /\ monitor.at = "kill"
  /\ monitor' = Idle
  /\ IF monitor.pinned \in Alive THEN Ends(monitor.pinned, "signal")
                                 ELSE UNCHANGED <<process, lock>>
  /\ UNCHANGED <<file, s6>>

-----------------------------------------------------------------------------
Main(i) ==
  \/ TakeSlot(i) \/ PublishStarting(i) \/ PreflightFails(i) \/ Ready(i)
  \/ Cycle(i) \/ Faults(i) \/ Stops(i) \/ WriteFinal(i) \/ Exit(i)

Supervise ==
  \/ \E i \in Service : S6Start(i)
  \/ S6Reap \/ Finish

Monitor ==
  \/ ReadStatus \/ CheckHealth \/ Pin \/ Identify \/ CheckAgain
  \/ ReadStatusAgain \/ Kill

Next ==
  \/ \E i \in Processes :
       Main(i) \/ Crash(i) \/ Hang(i) \/ Reap(i)
  \/ \E i \in ByHand : StartByHand(i)
  \/ Supervise \/ OperatorStops \/ S6Kills \/ OperatorStarts
  \/ Monitor \/ Expire

SafetySpec == Init /\ [][Next]_vars

\* The monitor's loop goes on, and what is not renewed grows old.  Processes
\* may hang, crash and take their time; nothing is assumed of the operator.
Spec == SafetySpec /\ WF_vars(Monitor) /\ WF_vars(Expire)

-----------------------------------------------------------------------------
(* Properties. *)

\* Types.
TypeOK ==
  /\ phase \in [Processes -> Phases]
  /\ pidOf \in [Processes -> Pids \cup {None}]
  /\ code \in [Processes -> Codes]
  /\ hung \subseteq Processes /\ term \subseteq Processes
  /\ lock \in Processes \cup {None}
  /\ file \in [of : Processes \cup {None}, pid : Pids \cup {None}, state : States, old : BOOLEAN]
  /\ child \in Processes \cup {None}
  /\ wanted \in BOOLEAN /\ finish \in Codes \cup {"no"}
  /\ monitor \in [at : {"idle", "status", "snapshot", "pinned", "identified",
                        "stale", "kill"},
                  pid : Pids \cup {None}, snapshot : Processes \cup {None},
                  pinned : Processes \cup {None}]

\* From its first record on the health file is the lock holder's alone: no
\* contender, no dying predecessor and no late refusal replaces it.
FileIsHolders ==
  lock # None /\ phase[lock] # "locked" => file.of = lock

\* What the Docker health check calls healthy or starting holds the slot, and
\* is not somebody who has got the pid of a dead writer; it may at most have
\* died this moment.
HealthyHoldsSlot ==
  Status \in {"healthy", "starting"} =>
    lock = file.of \/ phase[file.of] = "dead"

\* The monitor's signal kills nobody but the process whose stale record it
\* read, and this is the one s6 supervises, however often the pid and the
\* record have changed hands since.
KillsTheJudged ==
  [][Kill /\ monitor.pinned \in Alive =>
       monitor.pinned = monitor.snapshot /\ monitor.pinned = child]_vars

\* A process of the service that hangs after its first record and before its
\* last does not stay: it is killed, or the service is not wanted any more.
HungIsKilled ==
  \A i \in Processes :
    child = i /\ i \in hung /\ phase[i] \in {"init", "run", "leaving"}
      ~> i \notin Alive \/ ~wanted

\* A process that has recorded a fault, and is on its way out with 75, gets
\* there, so that s6 waits its five seconds (docs/design.md:274).
FaultExitsWith75 ==
  [][Kill /\ monitor.pinned \in Alive \ hung =>
       ~(file.of = monitor.pinned /\ file.state = "fault"
           /\ code[monitor.pinned] = "75")]_vars

=============================================================================
