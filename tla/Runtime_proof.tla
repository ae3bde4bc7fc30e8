---------------------------- MODULE Runtime_proof ----------------------------
(***************************************************************************)
(* The sets of collectors over any number of reloads.                      *)
(***************************************************************************)
EXTENDS Runtime, TLAPS

\* The set in force is the configuration's, and nobody else publishes.
SourcesFit ==
  /\ sources \in {None, effective} /\ samples \in {None, effective}
  /\ sources = None => effective = 1 /\ active = {}
  /\ active \subseteq {sources}
  /\ sources # None /\ run \notin {"sources", "end"} => active = {sources}
  /\ (sources = None) = (run \in {"begin", "prepare"}) \/ run \in {"stop", "close", "sources", "end"}

Staging == {"prepare", "ask", "apply"}
Leaving == {"answer", "drop"}

\* A reload holds the lock and its candidate's set until one of the two sets
\* is stopped, and happens only between start and stop.
ReloadFits ==
  /\ reload.at # "none" => run \in {"serve", "gather"}
  /\ reload.at \in Staging \cup Leaving => lock = "reload"
  /\ reload.at \in Staging => reload.new \in Sets /\ reload.new # sources
  /\ reload.at \in {"ask", "apply"} => reload.old = sources
  /\ reload.at = "answer" =>
       sources = reload.new /\ reload.old \in Sets /\ reload.old # sources
  /\ reload.at = "drop" => reload.old \in Sets /\ reload.old # sources
  /\ run \in {"close", "sources"} => lock = "stop"

\* Every collector that runs is somebody's to stop.
Owned ==
  \A k \in Sets : task[k] \notin {"none", "ended"} =>
    \/ k = sources /\ run # "end"
    \/ k = 1 /\ run = "prepare"
    \/ k = reload.new /\ reload.at \in Staging
    \/ k = reload.old /\ reload.at \in Leaving

\* What is in force was built.
Built ==
  /\ sources # None => task[sources] # "none"
  /\ run = "prepare" => task[1] # "none"
  /\ reload.at \in Staging => task[reload.new] # "none"
  /\ run = "begin" => \A k \in Sets : task[k] = "none"

IInv == TypeOK /\ SourcesFit /\ ReloadFits /\ Owned /\ Built

\* Nothing is built, nothing under way.
LEMMA InitInvariant == Init => IInv
  <1> SUFFICES ASSUME Init PROVE IInv
    OBVIOUS
  <1> USE SetsAssumption DEF Init, CollectorInit, NoReload, None
  <1>1. TypeOK
    BY DEF TypeOK, Tasks, Outcomes, Children
  <1>2. SourcesFit
    BY DEF SourcesFit
  <1>3. ReloadFits /\ Owned /\ Built
    BY DEF ReloadFits, Owned, Built, Staging, Leaving
  <1> QED
    BY <1>1, <1>2, <1>3 DEF IInv

\* A collector or its reader moves its own task on, builds nothing and stops
\* nothing, and publishes for the active set only.
LEMMA GatheringStep ==
  ASSUME IInv, NEW k \in Sets, Gathering(k)
  PROVE  IInv'
  <1>1. UNCHANGED <<run, reload, lock, sources, effective, fault, stop, hup, active>>
    BY DEF Gathering, Collecting, Reading, Submit, Collect, TimeOut, Wake, Closing,
           Close, CloseBlocks, Spawn, ReadEnds, Sticks, Recovers, controller
  <1>2. /\ staged' \subseteq Sets
        /\ samples' \in {samples} \cup (active \cap {k})
    BY DEF IInv, TypeOK, Gathering, Collecting, Reading, Submit, Collect, TimeOut, Wake,
           Closing, Close, CloseBlocks, Spawn, ReadEnds, Sticks, Recovers, Put, Quiet
  <1>3. /\ pending' \in [Sets -> Outcomes \cup {"none", "running"}]
        /\ thread' \in [Sets -> {"idle", "busy"}]
        /\ child' \in [Sets -> Children]
    <2>1. CASE Collecting(k)
      BY <2>1 DEF IInv, TypeOK, Outcomes, Children, Collecting, Submit, Collect, TimeOut,
                  Wake, Closing, Close, CloseBlocks, Kill
    <2>2. CASE Reading(k)
      BY <2>2 DEF IInv, TypeOK, Outcomes, Children, Reading, Spawn, ReadEnds, Sticks,
                  Recovers
    <2> QED
      BY <2>1, <2>2 DEF Gathering
  <1>4. \/ task' = task
        \/ \E at \in Tasks \ {"none"} :
             task[k] \notin {"none", "ended"} /\ task' = [task EXCEPT ![k] = at]
    BY DEF Gathering, Collecting, Reading, Submit, Collect, TimeOut, Wake, Closing,
           Close, CloseBlocks, Spawn, ReadEnds, Sticks, Recovers, Goto, Tasks
  <1>5. /\ task' \in [Sets -> Tasks]
        /\ \A j \in Sets : task[j] = "none" <=> task'[j] = "none"
        /\ \A j \in Sets : task'[j] \notin {"none", "ended"} => task[j] \notin {"none", "ended"}
    BY <1>4 DEF IInv, TypeOK, Tasks
  <1>6. TypeOK'
    BY <1>1, <1>2, <1>3, <1>5 DEF IInv, TypeOK
  <1>7. SourcesFit'
    BY <1>1, <1>2 DEF IInv, SourcesFit, TypeOK
  <1>8. ReloadFits' /\ Owned'
    BY <1>1, <1>5 DEF IInv, ReloadFits, Owned
  <1>9. Built'
    <2>1. reload.at \in Staging => reload.new \in Sets
      BY DEF IInv, ReloadFits
    <2>2. sources \in Sets \cup {None}
      BY DEF IInv, TypeOK
    <2> QED
      BY <1>1, <1>5, <2>1, <2>2, SetsAssumption DEF IInv, Built
  <1> QED
    BY <1>6, <1>7, <1>8, <1>9 DEF IInv

\* No step of run, of a reload or of a collector breaks the invariant.
LEMMA StepInvariant == IInv /\ [Next]_vars => IInv'
  <1> SUFFICES ASSUME IInv, [Next]_vars PROVE IInv'
    OBVIOUS
  <1> USE SetsAssumption
      DEF IInv, TypeOK, SourcesFit, ReloadFits, Owned, Built, NoReload, Staging,
          Leaving, Tasks, Outcomes, Children, None, collector, controller, Goto, Build, Cancel
  <1>1. CASE Begin
    <2> USE <1>1 DEF Begin
    <2>1. TypeOK'
      <3> HIDE DEF SourcesFit, ReloadFits, Owned, Built, Staging, Leaving
      <3>1. task' \in [Sets -> Tasks]
        BY DEF Build, Goto
      <3>2. fault' \in BOOLEAN
        OBVIOUS
      <3> QED
        BY <3>1, <3>2
    <2>2. SourcesFit'
      OBVIOUS
    <2>3. ReloadFits'
      OBVIOUS
    <2>4. Owned'
      OBVIOUS
    <2>5. Built'
      OBVIOUS
    <2> QED
      BY <2>1, <2>2, <2>3, <2>4, <2>5
  <1>2. CASE Started
    <2> USE <1>2 DEF Started, Sampled, GivesUp
    <2>1. TypeOK'
      OBVIOUS
    <2>2. SourcesFit'
      OBVIOUS
    <2>3. ReloadFits'
      OBVIOUS
    <2>4. Owned'
      OBVIOUS
    <2>5. Built'
      OBVIOUS
    <2> QED
      BY <2>1, <2>2, <2>3, <2>4, <2>5
  <1>3. CASE ControllerStarts
    <2> USE <1>3 DEF ControllerStarts
    <2>1. TypeOK'
      OBVIOUS
    <2>2. SourcesFit'
      OBVIOUS
    <2>3. ReloadFits'
      OBVIOUS
    <2>4. Owned'
      OBVIOUS
    <2>5. Built'
      OBVIOUS
    <2> QED
      BY <2>1, <2>2, <2>3, <2>4, <2>5
  <1>4. CASE Leave
    BY <1>4 DEF Leave
  <1>5. CASE Gathered
    BY <1>5 DEF Gathered
  <1>6. CASE Stop
    BY <1>6 DEF Stop
  <1>7. CASE Closed
    <2> USE <1>7 DEF Closed
    <2>1. TypeOK'
      <3> HIDE DEF SourcesFit, ReloadFits, Owned, Built, Staging, Leaving
      <3>1. task' \in [Sets -> Tasks]
        BY DEF Cancel
      <3>2. fault' \in BOOLEAN
        OBVIOUS
      <3> QED
        BY <3>1, <3>2
    <2>2. SourcesFit'
      OBVIOUS
    <2>3. ReloadFits'
      OBVIOUS
    <2>4. Owned'
      OBVIOUS
    <2>5. Built'
      OBVIOUS
    <2> QED
      BY <2>1, <2>2, <2>3, <2>4, <2>5
  <1>8. CASE End
    BY <1>8 DEF End, Stopped
  <1>9. CASE ReloadBegins
    BY <1>9 DEF ReloadBegins
  <1>10. ASSUME NEW k \in Sets, Load(k) PROVE IInv'
    BY <1>10 DEF Load, Fresh
  <1>11. CASE LoadFails
    BY <1>11 DEF LoadFails
  <1>12. CASE Prepared
    BY <1>12 DEF Prepared, Sampled, GivesUp
  <1>13. CASE Reject
    <2> USE <1>13 DEF Reject, Answered, Keeps
    <2>1. TypeOK'
      <3> HIDE DEF SourcesFit, ReloadFits, Owned, Built, Staging, Leaving
      <3>1. PICK ok \in BOOLEAN : Answered(ok)
        BY DEF Reject
      <3>2. reload' \in [at : {"none", "begin", "prepare", "ask", "apply", "answer", "drop"},
                        new : Sets \cup {None}, old : Sets \cup {None}]
        BY <3>1 DEF Answered
      <3>3. task' \in [Sets -> Tasks]
        BY <3>1 DEF Answered, Cancel, Tasks
      <3> QED
        BY <3>1, <3>2, <3>3 DEF Answered, Cancel
    <2>2. SourcesFit'
      OBVIOUS
    <2>3. ReloadFits'
      OBVIOUS
    <2>4. Owned'
      OBVIOUS
    <2>5. Built'
      OBVIOUS
    <2> QED
      BY <2>1, <2>2, <2>3, <2>4, <2>5
  <1>14. CASE Apply
    BY <1>14 DEF Apply
  <1>15. CASE ApplyFails
    BY <1>15 DEF ApplyFails, Answered, Keeps
  <1>16. CASE Commit
    <2> USE <1>16 DEF Commit, Swap
    <2>1. TypeOK'
      OBVIOUS
    <2>2. SourcesFit'
      OBVIOUS
    <2>3. ReloadFits'
      OBVIOUS
    <2>4. Owned'
      OBVIOUS
    <2>5. Built'
      OBVIOUS
    <2> QED
      BY <2>1, <2>2, <2>3, <2>4, <2>5
  <1>17. CASE Committed
    BY <1>17 DEF Committed, Answered, Keeps
  <1>18. CASE Dropped
    BY <1>18 DEF Dropped, Stopped
  <1>19. ASSUME NEW k \in Sets, Gathering(k) PROVE IInv'
    BY <1>19, GatheringStep
  <1>20. CASE LoopFails \/ RequestStop \/ RequestReload
    <2> USE <1>20 DEF LoopFails, RequestStop, RequestReload
    <2>1. TypeOK'
      OBVIOUS
    <2>2. SourcesFit'
      OBVIOUS
    <2>3. ReloadFits'
      OBVIOUS
    <2>4. Owned'
      OBVIOUS
    <2>5. Built'
      OBVIOUS
    <2> QED
      BY <2>1, <2>2, <2>3, <2>4, <2>5
  <1>21. CASE UNCHANGED vars
    BY <1>21 DEF vars
  <1> QED
    BY <1>1, <1>2, <1>3, <1>4, <1>5, <1>6, <1>7, <1>8, <1>9, <1>10, <1>11, <1>12, <1>13, <1>14, <1>15, <1>16, <1>17, <1>18, <1>19, <1>20, <1>21 DEF Next, OnLoop, Main, Reloading

\* The invariant holds in every reachable state, for any number of reloads.
THEOREM RuntimeInvariant == Spec => []IInv
  BY InitInvariant, StepInvariant, PTL DEF Spec

\* The fans are driven by samples of the configuration in force.
THEOREM SamplesAlwaysFit == Spec => []SamplesFitConfiguration
  <1>1. IInv => SamplesFitConfiguration
    BY DEF IInv, SourcesFit, SamplesFitConfiguration
  <1> QED
    BY <1>1, RuntimeInvariant, PTL

\* run() leaves no collector behind.
THEOREM RunCleansUp == Spec => []NothingLeftRunning
  <1>1. IInv => NothingLeftRunning
    BY DEF IInv, Owned, ReloadFits, NothingLeftRunning, Staging, Leaving
  <1> QED
    BY <1>1, RuntimeInvariant, PTL

\* The thread reads while the pending read has no outcome.
ReadFits ==
  /\ pending \in [Sets -> Outcomes \cup {"none", "running"}]
  /\ thread \in [Sets -> {"idle", "busy"}]
  /\ \A k \in Sets : thread[k] = "busy" => pending[k] = "running"

\* Only the collector that is waiting for it takes an outcome away.
LEMMA ReadStep == ReadFits /\ [Next]_vars => ReadFits'
  <1> SUFFICES ASSUME ReadFits, [Next]_vars PROVE ReadFits'
    OBVIOUS
  <1>1. ASSUME NEW k \in Sets, Gathering(k) PROVE ReadFits'
    BY <1>1 DEF Gathering, Collecting, Reading, Submit, Collect, TimeOut, Wake, Closing,
                Close, CloseBlocks, Spawn, ReadEnds, Sticks, Recovers, ReadFits, Outcomes
  <1>2. ASSUME UNCHANGED <<pending, thread>> PROVE ReadFits'
    BY <1>2 DEF ReadFits
  <1>3. ASSUME Main \/ Reloading \/ LoopFails \/ RequestStop \/ RequestReload
        PROVE  UNCHANGED <<pending, thread>>
    BY <1>3 DEF Main, Begin, Started, ControllerStarts, Leave, Gathered, Stop, Closed, End,
                Reloading, ReloadBegins, Load, LoadFails, Prepared, Reject, Apply,
                ApplyFails, Commit, Committed, Dropped, Answered, Cancel, Build,
                LoopFails, RequestStop, RequestReload, collector
  <1> QED
    BY <1>1, <1>2, <1>3 DEF Next, OnLoop, vars, collector

\* A reading is begun when the reader's thread is idle, and not before.
THEOREM ReadsDoNotOverlap == Spec => OneReadAtATime
  <1>1. Init => ReadFits
    BY DEF Init, CollectorInit, ReadFits
  <1>2. ReadFits /\ [Next]_vars =>
          [\A k \in Sets : pending[k] = "none" /\ pending'[k] = "running"
             => thread[k] = "idle"]_vars
    BY DEF ReadFits
  <1> QED
    BY <1>1, <1>2, ReadStep, PTL DEF Spec, OneReadAtATime

==============================================================================
