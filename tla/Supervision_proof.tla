-------------------------- MODULE Supervision_proof --------------------------
(***************************************************************************)
(* The safety of Supervision, for any number of processes and pids.        *)
(***************************************************************************)
EXTENDS Supervision, TLAPS

Holding == {"locked", "init", "run", "leaving"}

\* Who holds the lock is between taking the slot and its last record, and
\* nobody else is there.
LockFitsPhase ==
  /\ lock # None => phase[lock] \in Holding
  /\ \A i \in Processes : phase[i] \in Holding => lock = i

\* No two processes have the same pid; one has a pid from its start until it
\* is reaped.
PidsDiffer ==
  /\ \A i \in Held : pidOf[i] \in Pids
  /\ \A i, j \in Held : pidOf[i] = pidOf[j] => i = j

\* The record of a process that is still there names its pid, and says
\* "starting" or the like only between its first and its last record.
RecordFitsWriter ==
  /\ IF file.of = None THEN file.pid = None ELSE phase[file.of] # "none"
  /\ file.of \in Held => file.pid = pidOf[file.of]
  /\ file.of \in Held /\ file.state \notin Terminal =>
       phase[file.of] \in {"init", "run", "leaving", "dead"}

ChildIsHeld == child # None => child \in Held

Later(at) == monitor.at \in at

\* What check_once knows of the processes it has seen: each has the pid s6
\* gave it or is gone, which nothing undoes.
MonitorFits ==
  /\ Later({"status", "snapshot", "pinned", "identified", "stale", "kill"}) =>
       monitor.pid \in Pids
  /\ Later({"snapshot", "pinned", "identified", "stale", "kill"}) =>
       /\ monitor.snapshot # None /\ phase[monitor.snapshot] # "none"
       /\ monitor.snapshot \in Held => pidOf[monitor.snapshot] = monitor.pid
  /\ Later({"pinned", "identified", "stale", "kill"}) =>
       /\ monitor.pinned # None /\ phase[monitor.pinned] # "none"
       /\ monitor.pinned \in Held => pidOf[monitor.pinned] = monitor.pid
  /\ Later({"identified", "stale", "kill"}) => monitor.pinned = monitor.snapshot
  /\ Later({"kill"}) /\ monitor.pinned \in Held => monitor.pinned = child

IInv ==
  /\ TypeOK
  /\ LockFitsPhase
  /\ FileIsHolders
  /\ PidsDiffer
  /\ RecordFitsWriter
  /\ ChildIsHeld
  /\ MonitorFits

\* The invariant holds when nothing has been started.
LEMMA InitInvariant == Init => IInv
  BY SupervisionAssumption
     DEF Init, IInv, TypeOK, LockFitsPhase, FileIsHolders, PidsDiffer,
         RecordFitsWriter, ChildIsHeld, MonitorFits, Later, Held, Idle, Round, None,
         Phases, States, Codes, Terminal, Holding

\* The end of a process, by itself or by a signal: its pid stays with it until
\* it is reaped, its lock does not.
LEMMA EndsInvariant ==
  ASSUME IInv, NEW i \in Processes, i \in Held, NEW how \in Codes, Ends(i, how),
         file' = file, child' = child, finish' = finish, wanted' \in BOOLEAN,
         monitor' \in {monitor, Idle}
  PROVE  IInv'
  <1> USE SupervisionAssumption DEF IInv, TypeOK
  <1>1. /\ phase' = [phase EXCEPT ![i] = "dead"]
        /\ pidOf' = pidOf
        /\ lock' = IF lock = i THEN None ELSE lock
    BY DEF Ends, Goto
  <1>2. Held' = Held
    BY <1>1 DEF Held
  <1>3. monitor' \in [at : {"idle", "status", "snapshot", "pinned", "identified",
                           "stale", "kill"},
                     pid : Pids \cup {None}, snapshot : Processes \cup {None},
                     pinned : Processes \cup {None}]
    BY DEF Idle, Round
  <1>4. TypeOK'
    BY <1>3 DEF Ends, Goto, Phases, None
  <1>5. LockFitsPhase' /\ FileIsHolders'
    BY <1>1 DEF LockFitsPhase, FileIsHolders, Holding, None, Processes
  <1>6. PidsDiffer' /\ ChildIsHeld'
    BY <1>1, <1>2 DEF PidsDiffer, ChildIsHeld
  <1>7. RecordFitsWriter'
    BY <1>1, <1>2 DEF RecordFitsWriter, Held
  <1>8. CASE monitor' = monitor
    BY <1>1, <1>2, <1>4, <1>5, <1>6, <1>7, <1>8 DEF MonitorFits, Later
  <1>9. CASE monitor' = Idle
    BY <1>4, <1>5, <1>6, <1>7, <1>9 DEF MonitorFits, Later, Idle, Round
  <1> QED
    BY <1>8, <1>9

\* A question of check_once changes nothing but what the monitor knows.
LEMMA AskInvariant ==
  ASSUME IInv, NEW from, NEW answer \in BOOLEAN,
         NEW at \in {"status", "snapshot", "pinned", "identified", "stale", "kill"},
         NEW pid \in Pids \cup {None}, NEW snapshot \in Processes \cup {None},
         NEW pinned \in Processes \cup {None},
         Ask(from, answer, Round(at, pid, snapshot, pinned)),
         answer => MonitorFits'
  PROVE  IInv'
  <1>1. monitor' = Idle \/ monitor' = Round(at, pid, snapshot, pinned)
    BY DEF Ask
  <1>2. TypeOK'
    BY <1>1 DEF IInv, TypeOK, Ask, process, s6, Idle, Round
  <1>3. MonitorFits'
    <2>1. CASE ~answer
      BY <2>1 DEF Ask, MonitorFits, Later, Idle, Round
    <2> QED
      BY <2>1
  <1>4. Held' = Held
    BY DEF Ask, process, Held
  <1> QED
    BY <1>2, <1>3, <1>4
       DEF IInv, Ask, process, s6, LockFitsPhase, FileIsHolders, PidsDiffer,
           RecordFitsWriter, ChildIsHeld

\* Taking the slot, or being refused.
LEMMA TakeSlotInvariant ==
  ASSUME IInv, NEW i \in Processes, TakeSlot(i)
  PROVE  IInv'
  <1> USE SupervisionAssumption DEF IInv, TypeOK
  <1>1. /\ phase[i] = "new" /\ UNCHANGED <<pidOf, hung, term, file, child, wanted, finish, monitor>>
        /\ \/ lock = None /\ phase' = [phase EXCEPT ![i] = "locked"] /\ lock' = i /\ code' = code
           \/ /\ lock # None /\ phase' = [phase EXCEPT ![i] = "refused"] /\ lock' = lock
              /\ code' = [code EXCEPT ![i] = "78"]
    BY DEF TakeSlot, At, Goto, s6
  <1>2. Held' = Held
    BY <1>1 DEF Held
  <1>3. phase' \in [Processes -> Phases] /\ code' \in [Processes -> Codes]
    BY <1>1 DEF Phases, Codes
  <1>4. TypeOK'
    BY <1>1, <1>3 DEF TypeOK
  <1>5. LockFitsPhase' /\ FileIsHolders'
    BY <1>1 DEF LockFitsPhase, FileIsHolders, Holding, None, Processes
  <1>6. PidsDiffer' /\ ChildIsHeld'
    BY <1>1, <1>2 DEF PidsDiffer, ChildIsHeld
  <1>7. RecordFitsWriter'
    BY <1>1, <1>2 DEF RecordFitsWriter, Held
  <1>8. \A j \in Processes : phase[j] # "none" => phase'[j] # "none"
    BY <1>1
  <1>9. MonitorFits'
    BY <1>1, <1>2, <1>8 DEF MonitorFits, Later
  <1> QED
    BY <1>4, <1>5, <1>6, <1>7, <1>9

\* Each question of check_once.
LEMMA MonitorInvariant ==
  ASSUME IInv, ReadStatus \/ CheckHealth \/ Pin \/ Identify \/ CheckAgain \/ ReadStatusAgain
  PROVE  IInv'
  <1> USE SupervisionAssumption
  <1>1. /\ monitor.pid \in Pids \cup {None} /\ monitor.snapshot \in Processes \cup {None}
        /\ monitor.pinned \in Processes \cup {None}
    BY DEF IInv, TypeOK
  <1>2. None \notin Processes /\ None \notin Pids
    BY DEF None, Processes
  <1>3. CASE ReadStatus
    <2> DEFINE pid == IF S6Up THEN pidOf[child] ELSE None
    <2>1. S6Up => pid \in Pids
      BY DEF IInv, ChildIsHeld, PidsDiffer, S6Up
    <2>2. pid \in Pids \cup {None}
      BY <2>1
    <2>3. S6Up /\ wanted => MonitorFits'
      BY <1>3, <2>1, <2>2 DEF ReadStatus, Ask, MonitorFits, Later, Round
    <2> QED
      BY <1>3, <2>2, <2>3, AskInvariant DEF ReadStatus, S6Up, IInv, TypeOK
  <1>4. CASE CheckHealth
    <2> DEFINE answer == Status = "stale" /\ file.pid = monitor.pid
    <2>1. /\ monitor.at = "status" /\ UNCHANGED <<phase, pidOf>>
          /\ answer => monitor' = Round("snapshot", monitor.pid, file.of, None)
      BY <1>4 DEF CheckHealth, Ask, process
    <2>2. answer => (file.of # None /\ phase[file.of] # "none")
      BY <1>2, <2>1 DEF IInv, RecordFitsWriter, MonitorFits, Later
    <2>4. answer => MonitorFits'
      BY <1>1, <2>1, <2>2 DEF MonitorFits, Later, Round, Held, IInv, RecordFitsWriter
    <2> QED
      BY <1>1, <1>4, <2>4, AskInvariant DEF CheckHealth, IInv, TypeOK
  <1>5. CASE Pin
    <2> PICK j \in Processes \cup {None} :
          /\ IF j = None THEN \A i \in Held : pidOf[i] # monitor.pid
                         ELSE j \in Held /\ pidOf[j] = monitor.pid
          /\ Ask("snapshot", j # None, Round("pinned", monitor.pid, monitor.snapshot, j))
      BY <1>5 DEF Pin
    <2>1. j # None => MonitorFits'
      BY <1>1, <1>2 DEF Ask, MonitorFits, Later, Round, Held, IInv, process
    <2> QED
      BY <1>1, <2>1, AskInvariant
  <1>6. CASE Identify
    <2> DEFINE answer == monitor.pinned \in Held /\ SameProcess(monitor.snapshot, monitor.pid)
    <2>1. /\ monitor.at = "pinned" /\ UNCHANGED <<phase, pidOf>>
          /\ answer => monitor' = Round("identified", monitor.pid, monitor.snapshot, monitor.pinned)
      BY <1>6 DEF Identify, Ask, process
    <2>2. answer => monitor.pinned = monitor.snapshot
      BY <2>1 DEF SameProcess, IInv, MonitorFits, Later, PidsDiffer
    <2>3. answer => MonitorFits'
      BY <1>1, <2>1, <2>2 DEF MonitorFits, Later, Round, Held, IInv
    <2> QED
      BY <1>1, <1>6, <2>3, AskInvariant DEF Identify
  <1>7. CASE CheckAgain
    <2> DEFINE answer == Status = "stale" /\ file.of = monitor.snapshot
    <2>1. /\ monitor.at = "identified" /\ UNCHANGED <<phase, pidOf>>
          /\ answer => monitor' = Round("stale", monitor.pid, monitor.snapshot, monitor.pinned)
      BY <1>7 DEF CheckAgain, Ask, process
    <2>2. answer => MonitorFits'
      BY <1>1, <2>1 DEF MonitorFits, Later, Round, Held, IInv
    <2> QED
      BY <1>1, <1>7, <2>2, AskInvariant DEF CheckAgain
  <1>8. CASE ReadStatusAgain
    <2> DEFINE answer == S6Up /\ wanted /\ pidOf[child] = monitor.pid
    <2>1. /\ monitor.at = "stale" /\ UNCHANGED <<phase, pidOf, child>>
          /\ answer => monitor' = Round("kill", monitor.pid, monitor.snapshot, monitor.pinned)
      BY <1>8 DEF ReadStatusAgain, Ask, process, s6
    <2>2. answer /\ monitor.pinned \in Held => monitor.pinned = child
      BY <2>1 DEF S6Up, IInv, ChildIsHeld, PidsDiffer, MonitorFits, Later
    <2>3. answer => MonitorFits'
      BY <1>1, <2>1, <2>2 DEF MonitorFits, Later, Round, Held, IInv
    <2>4. answer \in BOOLEAN
      BY DEF IInv, TypeOK
    <2> QED
      BY <1>1, <1>8, <2>3, <2>4, AskInvariant DEF ReadStatusAgain
  <1> QED
    BY <1>3, <1>4, <1>5, <1>6, <1>7, <1>8

\* The operator's stop and the monitor's kill: nothing changes, the stop is
\* noted, or a process ends.
LEMMA StopAndKillInvariant ==
  ASSUME IInv, OperatorStops \/ Kill
  PROVE  IInv'
  <1> USE SupervisionAssumption
  <1>1. ASSUME UNCHANGED <<phase, pidOf, code, hung, lock, file, child, finish>>,
               term' \subseteq Processes, wanted' \in BOOLEAN, monitor' \in {monitor, Idle}
        PROVE  IInv'
    <2>1. Held' = Held
      BY <1>1 DEF Held
    <2>2. TypeOK'
      BY <1>1 DEF IInv, TypeOK, Idle, Round
    <2>3. MonitorFits'
      BY <1>1, <2>1 DEF IInv, MonitorFits, Later, Idle, Round
    <2> QED
      BY <1>1, <2>1, <2>2, <2>3
         DEF IInv, LockFitsPhase, FileIsHolders, PidsDiffer, RecordFitsWriter, ChildIsHeld
  <1>2. CASE OperatorStops
    <2>1. CASE child = None \/ child \notin Alive
      BY <1>1, <1>2, <2>1 DEF OperatorStops, process, IInv, TypeOK
    <2>2. CASE child \in Alive /\ child # None /\ phase[child] \in {"run", "leaving"}
      BY <1>1, <1>2, <2>2 DEF OperatorStops, Alive, IInv, TypeOK
    <2>3. CASE child \in Alive /\ child # None /\ phase[child] \notin {"run", "leaving"}
      <3>1. child \in Held /\ Ends(child, "signal") /\ wanted' = FALSE
        BY <1>2, <2>3 DEF OperatorStops, Alive, Held
      <3> QED
        BY <1>2, <2>3, <3>1, EndsInvariant DEF Held, OperatorStops, Codes
    <2> QED
      BY <2>1, <2>2, <2>3
  <1>3. CASE Kill
    <2>1. CASE monitor.pinned \in Alive
      <3>1. monitor.pinned \in Held /\ Ends(monitor.pinned, "signal")
        BY <1>3, <2>1 DEF Kill, Alive, Held
      <3> QED
        BY <1>3, <2>1, <3>1, EndsInvariant DEF Held, Kill, s6, Codes, IInv, TypeOK
    <2>2. CASE monitor.pinned \notin Alive
      BY <1>1, <1>3, <2>2 DEF Kill, process, s6, IInv, TypeOK
    <2> QED
      BY <2>1, <2>2
  <1> QED
    BY <1>2, <1>3

\* No step of a process, of s6, of the operator or of the monitor breaks the
\* invariant.
LEMMA StepInvariant == IInv /\ [Next]_vars => IInv'
  <1> SUFFICES ASSUME IInv, [Next]_vars PROVE IInv'
    OBVIOUS
  <1> USE SupervisionAssumption
      DEF IInv, TypeOK, LockFitsPhase, FileIsHolders, PidsDiffer,
          RecordFitsWriter, ChildIsHeld, MonitorFits, Later, Held, Alive, Holding,
          Processes, None, Idle, Round, Phases, States, Codes, Terminal, process, s6
  <1>1. ASSUME NEW i \in Processes, TakeSlot(i) PROVE IInv'
    BY <1>1, TakeSlotInvariant
  <1>2. ASSUME NEW i \in Processes, PublishStarting(i) PROVE IInv'
    BY <1>2 DEF PublishStarting, At, Goto, Record
  <1>3. ASSUME NEW i \in Processes, PreflightFails(i) PROVE IInv'
    BY <1>3 DEF PreflightFails, At, Goto
  <1>4. ASSUME NEW i \in Processes, Ready(i) PROVE IInv'
    BY <1>4 DEF Ready, At, Goto
  <1>5. ASSUME NEW i \in Processes, Cycle(i) PROVE IInv'
    BY <1>5 DEF Cycle, At, Record
  <1>6. ASSUME NEW i \in Processes, Faults(i) PROVE IInv'
    BY <1>6 DEF Faults, At, Goto, Record
  <1>7. ASSUME NEW i \in Processes, Stops(i) PROVE IInv'
    BY <1>7 DEF Stops, At, Goto, Record
  <1>8. ASSUME NEW i \in Processes, WriteFinal(i) PROVE IInv'
    BY <1>8 DEF WriteFinal, At, Goto, Record, Final
  <1>9. ASSUME NEW i \in Processes, Exit(i) PROVE IInv'
    <2> i \in Held /\ code[i] \in Codes
      BY <1>9 DEF Exit, At
    <2> QED
      BY <1>9, EndsInvariant DEF Exit
  <1>10. ASSUME NEW i \in Processes, Crash(i) PROVE IInv'
    BY <1>10, EndsInvariant DEF Crash
  <1>11. ASSUME NEW i \in Processes, Hang(i) PROVE IInv'
    BY <1>11 DEF Hang
  <1>12. ASSUME NEW i \in Processes, Reap(i) PROVE IInv'
    BY <1>12 DEF Reap, Reaped, Goto
  <1>13. ASSUME NEW i \in Service, S6Start(i) PROVE IInv'
    BY <1>13 DEF S6Start, Spawn, Goto
  <1>14. ASSUME NEW i \in ByHand, StartByHand(i) PROVE IInv'
    BY <1>14 DEF StartByHand, Spawn, Goto
  <1>15. CASE S6Reap
    BY <1>15 DEF S6Reap, Reaped, Goto
  <1>16. CASE Finish
    BY <1>16 DEF Finish
  <1>17. CASE OperatorStops
    BY <1>17, StopAndKillInvariant
  <1>18. CASE S6Kills
    <2> HIDE DEF IInv, Idle
    <2>1. /\ child \in Held /\ Ends(child, "signal") /\ wanted' \in BOOLEAN
          /\ UNCHANGED <<file, child, finish, monitor>>
      BY <1>18 DEF S6Kills, IInv
    <2> QED
      BY <2>1, EndsInvariant
  <1>19. CASE OperatorStarts
    BY <1>19 DEF OperatorStarts
  <1>20. CASE ReadStatus \/ CheckHealth \/ Pin \/ Identify \/ CheckAgain \/ ReadStatusAgain
    BY <1>20, MonitorInvariant
  <1>21. CASE Kill
    BY <1>21, StopAndKillInvariant
  <1>22. CASE Expire
    <2> HIDE DEF LockFitsPhase, FileIsHolders, PidsDiffer, RecordFitsWriter, ChildIsHeld,
                 MonitorFits, Later, Held, Holding, Idle, Round, Phases, Codes
    <2>1. TypeOK'
      BY <1>22 DEF Expire
    <2>2. Held' = Held
      BY <1>22 DEF Expire, Held
    <2> QED
      BY <1>22, <2>1, <2>2
         DEF Expire, LockFitsPhase, FileIsHolders, PidsDiffer, RecordFitsWriter,
             ChildIsHeld, MonitorFits, Later
  <1>23. CASE UNCHANGED vars
    BY <1>23 DEF vars
  <1> QED
    BY <1>1, <1>2, <1>3, <1>4, <1>5, <1>6, <1>7, <1>8, <1>9, <1>10, <1>11, <1>12, <1>13, <1>14, <1>15, <1>16, <1>17, <1>18, <1>19, <1>20, <1>21, <1>22, <1>23 DEF Next, Main, Supervise, Monitor

\* The invariant holds in every reachable state, for any set of processes that
\* s6 or somebody starts and any set of pids.
THEOREM SupervisionInvariant == SafetySpec => []IInv
  BY InitInvariant, StepInvariant, PTL DEF SafetySpec

\* From its first record to its last the health file is the lock holder's.
THEOREM FileKeepsHolder == SafetySpec => []FileIsHolders
  <1>1. IInv => FileIsHolders
    BY DEF IInv
  <1> QED
    BY <1>1, SupervisionInvariant, PTL

\* What the health check calls healthy or starting holds the slot or has died
\* this moment; nobody passes for it with its pid.
THEOREM HealthyIsHolder == SafetySpec => []HealthyHoldsSlot
  <1>1. IInv => HealthyHoldsSlot
    <2> SUFFICES ASSUME IInv, Status \in {"healthy", "starting"}
                 PROVE  lock = file.of \/ phase[file.of] = "dead"
      BY DEF HealthyHoldsSlot
    <2>1. file.of \in Held /\ file.state \notin Terminal
      BY DEF Status, Renewing, SameProcess, Terminal
    <2> QED
      BY <2>1 DEF IInv, RecordFitsWriter, LockFitsPhase, Holding, Held
  <1> QED
    BY <1>1, SupervisionInvariant, PTL

\* The monitor's signal reaches the supervised process whose stale record it
\* has read twice, or nobody.
THEOREM MonitorKillsTheJudged == SafetySpec => KillsTheJudged
  <1>1. IInv /\ [Next]_vars =>
          [Kill /\ monitor.pinned \in Alive =>
             monitor.pinned = monitor.snapshot /\ monitor.pinned = child]_vars
    <2> SUFFICES ASSUME IInv, Kill, monitor.pinned \in Alive
                 PROVE  monitor.pinned = monitor.snapshot /\ monitor.pinned = child
      OBVIOUS
    <2> QED
      BY DEF IInv, MonitorFits, Later, Kill, Alive, Held
  <1> QED
    BY <1>1, SupervisionInvariant, PTL DEF SafetySpec, KillsTheJudged

=============================================================================
