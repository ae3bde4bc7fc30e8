--------------------------- MODULE Service_proof ---------------------------
(***************************************************************************)
(* More proofs about Controller: what it reports belongs together, it      *)
(* implements FanService, and its answers are true.  They build on the     *)
(* inductive invariant of Controller_proof.                                *)
(***************************************************************************)
EXTENDS Controller_proof

-----------------------------------------------------------------------------
(* The inductive invariant: where an operation is decides what may be said *)
(* of the report.                                                          *)

Fitting(c) == IF c.mode = "override" THEN Targets[c.policy] ELSE {NoPair}

\* Each place of an operation belongs to the operations that go through it.
JobFitsPlace ==
  /\ pc = "tick" => job.op = "tick"
  /\ pc = "rpm" => job.op = "rpm"
  /\ pc \in {"restore", "close", "closeRaise"} => job.op = "stop"
  /\ pc = "probe" => job.op = "start" /\ ~identified
  /\ pc = "apply" => IsConfigCall(job) \/ job.op = "start"
  /\ pc \in {"apply", "boost", "tick", "rpm"} => identified

\* An orderly stop is under way exactly while the state says so.
StopFitsPlace ==
  /\ state = "stopping" => closed \/ fault # "none" \/ pc \in {"restore", "close"}
  /\ pc = "restore" => state = "stopping" /\ config.restore /\ identified

\* The report is known from the first _apply() on, and belongs to the
\* configuration from then until the stop.
ReportFitsConfig ==
  /\ ~identified => applied = "unknown"
  /\ fault = "none" /\ applied = "unknown" =>
       ~identified \/ (job.op = "start" /\ pc \in {"apply", "boost"})
  /\ (fault = "none" /\ ~closed /\ applied # "unknown"
        /\ pc \notin {"restore", "close", "closeRaise"}) =>
       /\ applied = config.mode
       /\ state = config.mode
       /\ duty \in Fitting(config)
       /\ requested = config.mode \/ pc \in {"apply", "boost"}

\* What is about to be confirmed fits the configuration it will belong to.
CandidateFits ==
  /\ pc = "apply" /\ job.op = "start" => candidate = config /\ applied = "unknown"
  /\ pc = "apply" /\ IsConfigCall(job) => candidate.device = config.device
  /\ pc = "apply" /\ worker = "waiting" =>
       requested = candidate.mode /\ hw.pair \in Fitting(candidate)
  /\ pc = "tick" => hw.pair \in Targets[config.policy]

ObserversFit == pc \in {"next", "begin"} => published = Snapshot

Coherent ==
  /\ JobFitsPlace
  /\ StopFitsPlace
  /\ ReportFitsConfig
  /\ CandidateFits
  /\ ObserversFit

-----------------------------------------------------------------------------
(* What the steps outside the operations leave alone.                      *)

LEMMA OutsideFrame ==
  ASSUME CallerNext \/ SampleNext
  PROVE  /\ UNCHANGED <<settings, job, waiters, pc, candidate, hw, ec, published,
                        log>>
         /\ \/ worker' = worker
            \/ worker = "idle" /\ worker' = "scheduled"
<1>1. ASSUME NEW c, NEW r, Ask(c, r)
      PROVE  /\ UNCHANGED <<settings, job, waiters, pc, candidate, hw, ec,
                            published, log>>
             /\ \/ worker' = worker
                \/ worker = "idle" /\ worker' = "scheduled"
  BY <1>1 DEF Ask, Wake
<1>2. CASE CallerNext
  BY <1>1, <1>2 DEF CallerNext, Change, Reload, Tick, ReadRpm, Start, Serve,
                    Leave, Stop, SubmitCommand, task
<1>3. CASE SampleNext
  BY <1>3 DEF SampleNext, OnSample, OnStaged, Expire, task
<1> QED
  BY <1>2, <1>3

LEMMA ExecuteFrame ==
  ASSUME TypeOK, Execute
  PROVE  /\ UNCHANGED <<settings, samples, queues, worker, job, waiters, pc,
                        candidate, published, outside, log>>
         /\ hw'.method = hw.method /\ hw'.pair = hw.pair
BY DEF Execute, TypeOK, TaskOK

LEMMA TakeFrame ==
  ASSUME DrainCommand \/ DrainPeriodic \/ DrainRpm \/ DrainDone
  PROVE  /\ UNCHANGED <<settings, samples, candidate, hw, ec, published, outside,
                        log>>
         /\ pc = "next" /\ worker # "waiting" /\ worker' # "waiting"
         /\ \/ pc' = "begin"
            \/ pc' = "next" /\ job' = job
BY DEF DrainCommand, DrainPeriodic, DrainRpm, DrainDone, Draining, Take

\* A snapshot shows nothing but the settings.
LEMMA SnapshotFrame ==
  ASSUME UNCHANGED <<state, requested, applied, revision, duty, fault, config>>
  PROVE  Snapshot' = Snapshot
BY DEF Snapshot

-----------------------------------------------------------------------------
(* Coherent is an invariant.                                               *)

LEMMA FinishPlaces ==
  ASSUME NEW status, NEW rev, Finish(status, rev)
  PROVE  pc' = "next" /\ worker' = "running" /\ job' = NoCall
BY DEF Finish

LEMMA FailPlaces ==
  ASSUME Fail
  PROVE  pc' = "next" /\ worker' = "running" /\ job' = NoCall
BY DEF Fail, Finish

LEMMA FrameCoherent ==
  ASSUME IInv, Coherent,
         CallerNext \/ SampleNext \/ Execute \/ DrainCommand \/ DrainPeriodic
           \/ DrainRpm \/ DrainDone \/ UNCHANGED vars
  PROVE  Coherent'
<1> USE DEF Coherent, JobFitsPlace, StopFitsPlace, ReportFitsConfig,
            CandidateFits, ObserversFit, settings
<1>1. CASE \/ CallerNext \/ SampleNext \/ Execute \/ UNCHANGED vars
  <2>1. /\ UNCHANGED <<settings, job, pc, candidate, published>>
        /\ hw'.pair = hw.pair
        /\ worker' = "waiting" => worker = "waiting"
    BY <1>1, OutsideFrame, ExecuteFrame DEF vars, task, IInv
  <2>2. Snapshot' = Snapshot
    BY <2>1, SnapshotFrame
  <2> QED
    BY <2>1, <2>2 DEF Fitting, IsConfigCall
<1>2. CASE DrainCommand \/ DrainPeriodic \/ DrainRpm \/ DrainDone
  <2>1. Snapshot' = Snapshot
    BY <1>2, TakeFrame, SnapshotFrame
  <2> QED
    BY <1>2, <2>1, TakeFrame DEF Fitting
<1> QED
  BY <1>1, <1>2

\* Ending without a change of the settings that are reported.
LEMMA EndCoherent ==
  ASSUME IInv, Coherent, pc \in {"begin", "rpm"}, pc' = "next", job' = NoCall,
         UNCHANGED <<config, state, requested, applied, revision, duty, fault,
                     identified, closed>>,
         published' = published \/ Publish,
         pc = "rpm" => Publish
  PROVE  Coherent'
<1>1. Snapshot' = Snapshot
  BY SnapshotFrame
<1> QED
  BY <1>1 DEF Coherent, JobFitsPlace, StopFitsPlace, ReportFitsConfig,
     CandidateFits, ObserversFit, Fitting, Publish

\* A fault ends all that is said of a healthy controller.
LEMMA FaultCoherent ==
  ASSUME IInv, Coherent, fault' # "none", pc' \in {"next", "close", "closeRaise"},
         pc' # "next" => job' = job /\ job.op = "stop", Publish,
         identified' = identified, applied' = "unknown" \/ identified
  PROVE  Coherent'
BY DEF Coherent, JobFitsPlace, StopFitsPlace, ReportFitsConfig, CandidateFits,
       ObserversFit, Publish

LEMMA CommitCoherent ==
  ASSUME IInv, Coherent, NEW pair, Commit(pair), OperationStep, pc = "apply",
         requested' = candidate.mode, pair \in Fitting(candidate)
  PROVE  Coherent'
<1>1. /\ identified' = identified /\ fault' = fault /\ closed' = closed
      /\ config' = candidate /\ applied' = candidate.mode
      /\ state' = candidate.mode /\ duty' = pair
      /\ pc' = "next" /\ job' = NoCall /\ published' = Snapshot'
  BY DEF Commit, Confirm, Finish, Publish
<1>2. candidate.mode \in Modes /\ identified
  BY ConfigsAssumption DEF IInv, TypeOK, TaskOK, Config, Coherent, JobFitsPlace
<1> QED
  BY <1>1, <1>2 DEF Coherent, JobFitsPlace, StopFitsPlace, ReportFitsConfig,
     CandidateFits, ObserversFit, Fitting, Modes

\* The operations.
LEMMA OperationCoherent ==
  ASSUME IInv, Coherent,
         \/ HardwareFailed \/ Boosted
         \/ StartBegin \/ StartProbed \/ ConfigurationBegin \/ Apply \/ Applied
         \/ TickBegin \/ TickWritten
         \/ RpmBegin \/ RpmRead
         \/ StopBegin \/ StopRestored \/ StopNotRestored \/ StopClosed
  PROVE  Coherent'
<1>0. ASSUME NEW status, EndAtOnce(status), pc = "begin"
      PROVE  Coherent'
  BY <1>0, EndCoherent, FinishPlaces DEF EndAtOnce, settings
<1>1. CASE HardwareFailed
  <2>1. fault' # "none" /\ Publish /\ Fail /\ applied' = "unknown"
        /\ identified' = identified
    BY <1>1 DEF HardwareFailed, MarkUnknown, MarkFault
  <2> QED
    BY <2>1, FailPlaces, FaultCoherent
<1>2. CASE Boosted
  <2>1. fault' # "none" /\ Publish /\ Fail /\ identified' = identified /\ identified
    BY <1>2 DEF Boosted, MarkFault, Resumed, Coherent, JobFitsPlace
  <2> QED
    BY <2>1, FailPlaces, FaultCoherent
<1>3. CASE StartBegin
  <2>1. CASE Await("probe", "probe", NoPair) /\ UNCHANGED settings /\ Suspended
             /\ ~Inactive /\ ~identified
    BY <1>3, <2>1 DEF StartBegin, At, Await, Suspended, settings, Coherent,
       JobFitsPlace, StopFitsPlace, ReportFitsConfig, CandidateFits, ObserversFit,
       Inactive
  <2>2. CASE \E status : EndAtOnce(status)
    BY <1>0, <1>3, <2>2 DEF StartBegin, At
  <2> QED
    BY <1>3, <2>1, <2>2 DEF StartBegin
<1>4. CASE StartProbed
  <2>1. /\ pc = "probe" /\ pc' = "apply" /\ worker' = "running" /\ job' = job
        /\ candidate' = config /\ identified'
        /\ UNCHANGED <<config, state, requested, applied, duty, fault, closed>>
    BY <1>4 DEF StartProbed, Resumed, Suspended
  <2>2. applied = "unknown"
    BY <1>4, <2>1 DEF StartProbed, Resumed, Coherent, JobFitsPlace, ReportFitsConfig
  <2> QED
    BY <2>1, <2>2 DEF Coherent, JobFitsPlace, StopFitsPlace, ReportFitsConfig,
       CandidateFits, ObserversFit, IsConfigCall, Fitting
<1>5. CASE ConfigurationBegin
  <2>1. pc = "begin" /\ IsConfigCall(job)
    BY <1>5 DEF ConfigurationBegin
  <2>2. CASE /\ UNCHANGED <<config, state, requested, applied, revision, duty,
                            fault, identified, closed, published>>
             /\ pc' = "next" /\ job' = NoCall
    BY <2>1, <2>2, EndCoherent
  <2>3. CASE /\ ~Inactive /\ identified /\ ~Rejected(MakeCandidate)
             /\ candidate' = MakeCandidate /\ pc' = "apply" /\ job' = job
             /\ UNCHANGED <<settings, worker>>
    <3>1. candidate'.device = config.device /\ worker' = "running"
      BY <1>5, <2>3 DEF ConfigurationBegin, Rejected
    <3> QED
      BY <2>1, <2>3, <3>1 DEF Coherent, JobFitsPlace, StopFitsPlace,
         ReportFitsConfig, CandidateFits, ObserversFit, Inactive, IsConfigCall,
         settings, Fitting
  <2> QED
    BY <1>5, <2>2, <2>3, FinishPlaces, FailPlaces
       DEF ConfigurationBegin, settings, Suspended
<1>6. CASE Apply
  <2>1. pc = "apply" /\ requested' = candidate.mode /\ candidate.mode \in Modes
    BY <1>6, ConfigsAssumption DEF Apply, IInv, TypeOK, TaskOK, Config
  <2>2. CASE Commit(NoPair) /\ candidate.mode = "bios"
    BY <1>6, <2>1, <2>2, CommitCoherent DEF Apply, Fitting
  <2>3. CASE \E where \in {"apply", "boost"} : \E method, pair :
               /\ Await(where, method, pair)
               /\ where = "apply" => pair \in Fitting(candidate)
               /\ UNCHANGED <<config, state, applied, duty, fault, closed,
                              identified, candidate, job>>
    BY <2>1, <2>3 DEF Await, Coherent, JobFitsPlace, StopFitsPlace,
       ReportFitsConfig, CandidateFits, ObserversFit, IsConfigCall, Fitting
  <2> QED
    BY <1>6, <2>1, <2>2, <2>3 DEF Apply, Suspended, Fitting, Modes
<1>7. CASE Applied
  BY <1>7, CommitCoherent DEF Applied, Resumed, Coherent, CandidateFits
<1>8. CASE TickBegin
  <2>1. pc = "begin" /\ job.op = "tick"
    BY <1>8 DEF TickBegin, At
  <2>2. CASE Inactive \/ ~identified
    BY <1>0, <1>8, <2>1, <2>2 DEF TickBegin
  <2>3. CASE Boost /\ ~Inactive /\ identified
    BY <2>1, <2>3 DEF Boost, Await, Suspended, settings, Inactive, Coherent,
       JobFitsPlace, StopFitsPlace, ReportFitsConfig, CandidateFits,
       ObserversFit, Fitting
  <2>4. CASE UNCHANGED settings /\ Finish("ok", 0) /\ Publish
    BY <2>1, <2>4, EndCoherent, FinishPlaces DEF settings
  <2>5. CASE /\ ~Inactive /\ identified
             /\ \E target \in Targets[config.policy] :
                  Await("tick", "set", target)
             /\ UNCHANGED <<settings, candidate>> /\ Suspended
    BY <2>1, <2>5 DEF Await, Suspended, settings, Inactive, Coherent,
       JobFitsPlace, StopFitsPlace, ReportFitsConfig, CandidateFits,
       ObserversFit, Fitting
  <2> QED
    BY <1>8, <2>2, <2>3, <2>4, <2>5 DEF TickBegin
<1>9. CASE TickWritten
  <2>1. /\ pc = "tick" /\ pc' = "next" /\ duty' = hw.pair /\ job' = NoCall
        /\ published' = Snapshot'
        /\ UNCHANGED <<config, state, requested, applied, fault, closed, identified>>
    BY <1>9 DEF TickWritten, Resumed, Finish, Publish
  <2>2. hw.pair \in Targets[config.policy] /\ config.mode = "override"
    BY <2>1 DEF Coherent, CandidateFits, IInv, ModeFitsConfig
  <2> QED
    BY <2>1, <2>2 DEF Coherent, JobFitsPlace, StopFitsPlace, ReportFitsConfig,
       CandidateFits, ObserversFit, Fitting
<1>10. CASE RpmBegin
  <2>1. CASE Await("rpm", "rpm", NoPair) /\ UNCHANGED settings /\ Suspended
             /\ ~Inactive /\ identified
    BY <1>10, <2>1 DEF RpmBegin, At, Await, Suspended, settings, Coherent,
       JobFitsPlace, StopFitsPlace, ReportFitsConfig, CandidateFits, ObserversFit,
       Inactive, Fitting
  <2>2. CASE \E status : EndAtOnce(status)
    BY <1>0, <1>10, <2>2 DEF RpmBegin, At
  <2> QED
    BY <1>10, <2>1, <2>2 DEF RpmBegin
<1>11. CASE RpmRead
  BY <1>11, EndCoherent, FinishPlaces DEF RpmRead, Resumed, settings
<1>12. CASE StopBegin
  <2>1. pc = "begin" /\ job.op = "stop"
    BY <1>12 DEF StopBegin, At
  <2>2. CASE closed
    BY <1>0, <1>12, <2>1, <2>2 DEF StopBegin
  <2>3. CASE ~closed
    <3>1. /\ UNCHANGED <<config, requested, applied, duty, identified, closed>>
          /\ job' = job /\ pc' \in {"restore", "close"}
          /\ \/ fault = "none" /\ state' = "stopping" /\ fault' = fault
                  /\ (pc' = "restore" => config.restore /\ identified)
             \/ fault' # "none" /\ pc' = "close" /\ state' \in {"fault", state}
      BY <1>12, <2>3 DEF StopBegin, Normal, MarkFault, Await, Suspended
    <3> QED
      BY <2>1, <2>3, <3>1 DEF Coherent, JobFitsPlace, StopFitsPlace,
         ReportFitsConfig, CandidateFits, ObserversFit
  <2> QED
    BY <2>2, <2>3
<1>13. CASE StopRestored
  <2>1. /\ pc = "restore" /\ pc' = "close" /\ job' = job /\ applied' = "bios"
        /\ UNCHANGED <<config, state, fault, closed, identified>>
    BY <1>13 DEF StopRestored, Resumed, Await, Suspended
  <2> QED
    BY <2>1 DEF Coherent, JobFitsPlace, StopFitsPlace, ReportFitsConfig,
       CandidateFits, ObserversFit
<1>14. CASE StopNotRestored
  BY <1>14, FaultCoherent DEF StopNotRestored, Resumed, MarkUnknown, MarkFault,
     Await, Suspended, Coherent, JobFitsPlace
<1>15. CASE StopClosed
  <2>1. /\ pc' = "next" /\ closed' = TRUE /\ job' = NoCall
        /\ UNCHANGED <<applied, fault, identified>>
        /\ pc \in {"close", "closeRaise"} /\ published' = Snapshot'
    BY <1>15 DEF StopClosed, Resumed, Finish, Publish
  <2> QED
    BY <2>1 DEF Coherent, JobFitsPlace, StopFitsPlace, ReportFitsConfig,
       CandidateFits, ObserversFit
<1> QED
  BY <1>1, <1>2, <1>3, <1>4, <1>5, <1>6, <1>7, <1>8, <1>9, <1>10, <1>11, <1>12,
     <1>13, <1>14, <1>15

LEMMA InitCoherent == Init => Coherent
<1> SUFFICES ASSUME Init
             PROVE  Coherent
  OBVIOUS
<1> QED
  BY DEF Init, Coherent, JobFitsPlace, StopFitsPlace, ReportFitsConfig,
     CandidateFits, ObserversFit

\* In every state the place of the running operation tells what the report is
\* worth.
THEOREM CoherentAlways == SafetySpec => []Coherent
<1>1. IInv /\ Coherent /\ [Next]_vars => Coherent'
  BY FrameCoherent, OperationCoherent DEF Next, DrainNext
<1> QED
  BY <1>1, InitCoherent, InductiveInvariant, PTL DEF SafetySpec

\* Between two operations of a healthy controller the configuration, the mode
\* and the pair belong together (controller.py:_apply, tick).
THEOREM EffectiveAlways == SafetySpec => []EffectiveIsConfirmed
<1>1. Coherent => EffectiveIsConfirmed
  BY DEF Coherent, ReportFitsConfig, EffectiveIsConfirmed, Fitting
<1> QED
  BY <1>1, CoherentAlways, PTL

\* When the next operation begins the observers have seen what the last one
\* changed (controller.py:_publish).
THEOREM ObserversAlways == SafetySpec => []ObserversCurrent
<1>1. Coherent => ObserversCurrent
  BY DEF Coherent, ObserversFit, ObserversCurrent
<1> QED
  BY <1>1, CoherentAlways, PTL

-----------------------------------------------------------------------------
(* Controller implements FanService.                                       *)

\* Whatever leaves the confirmed state alone is a stutter of the service.
Confirmed == <<config, applied, duty, revision, fault,
               closed \/ state = "stopping">>

LEMMA CommitImplements ==
  ASSUME IInv, Coherent, NEW pair, Commit(pair), pc = "apply",
         pair \in Fitting(candidate)
  PROVE  Service!Next
<1>1. /\ fault = "none" /\ ~closed /\ state # "stopping" /\ identified
  BY DEF IInv, FaultFitsPlace, Coherent, JobFitsPlace, StopFitsPlace
<1>2. candidate \in Configs /\ candidate.mode \in Modes
  BY ConfigsAssumption DEF IInv, TypeOK, TaskOK, Config
<1>3. /\ config' = candidate /\ applied' = candidate.mode /\ duty' = pair
      /\ state' = candidate.mode /\ fault' = fault /\ closed' = closed
      /\ revision' = IF IsConfigCall(job) THEN revision + 1 ELSE revision
  BY DEF Commit, Confirm
<1>4. (closed \/ state = "stopping")' = (closed \/ state = "stopping")
  BY <1>1, <1>2, <1>3 DEF Modes
<1>5. pair \in Service!Fitting(candidate)
  BY DEF Fitting, Service!Fitting
<1>6. CASE IsConfigCall(job)
  <2>1. applied # "unknown" /\ candidate.device = config.device
    BY <1>1, <1>6 DEF Coherent, ReportFitsConfig, CandidateFits, IsConfigCall
  <2>2. Service!Reconfigure
    BY <1>1, <1>2, <1>3, <1>4, <1>5, <1>6, <2>1 DEF Service!Reconfigure, Service!Healthy
  <2> QED
    BY <2>2 DEF Service!Next
<1>7. CASE ~IsConfigCall(job)
  <2>1. candidate = config /\ applied = "unknown"
    BY <1>7 DEF Coherent, JobFitsPlace, CandidateFits
  <2>2. Service!Begin
    BY <1>1, <1>3, <1>4, <1>5, <1>7, <2>1 DEF Service!Begin, Service!Healthy
  <2> QED
    BY <2>2 DEF Service!Next
<1> QED
  BY <1>6, <1>7

LEMMA OperationImplements ==
  ASSUME IInv, Coherent,
         \/ HardwareFailed \/ Boosted
         \/ StartBegin \/ StartProbed \/ ConfigurationBegin \/ Apply \/ Applied
         \/ TickBegin \/ TickWritten
         \/ RpmBegin \/ RpmRead
         \/ StopBegin \/ StopRestored \/ StopNotRestored \/ StopClosed
  PROVE  Service!Next \/ UNCHANGED Confirmed
<1>1. CASE HardwareFailed
  <2>1. /\ fault = "none" /\ ~closed
    BY <1>1 DEF HardwareFailed, Resumed, IInv, FaultFitsPlace
  <2>2. /\ fault' \in {"hardware", "preflight"} /\ state' = "fault"
        /\ applied' = "unknown" /\ duty' = NoPair
        /\ UNCHANGED <<config, revision, closed>>
    BY <1>1 DEF HardwareFailed, MarkUnknown, MarkFault
  <2>3. Service!LoseHardware
    BY <2>1, <2>2 DEF Service!LoseHardware
  <2> QED
    BY <2>3 DEF Service!Next
<1>2. CASE Boosted
  <2>1. /\ fault = "none" /\ ~closed /\ state # "stopping"
    BY <1>2 DEF Boosted, Resumed, IInv, FaultFitsPlace, Coherent, StopFitsPlace
  <2>2. /\ fault' = "sensor" /\ state' = "fault"
        /\ applied' = "override" /\ duty' = MaxPair
        /\ UNCHANGED <<config, revision, closed>>
    BY <1>2 DEF Boosted, MarkFault
  <2>3. Service!LoseSensor
    BY <2>1, <2>2 DEF Service!LoseSensor, Service!Healthy
  <2> QED
    BY <2>3 DEF Service!Next
<1>3. CASE StartBegin \/ RpmBegin \/ RpmRead
  BY <1>3 DEF StartBegin, RpmBegin, RpmRead, EndAtOnce, settings, Confirmed
<1>4. CASE StartProbed
  BY <1>4 DEF StartProbed, Confirmed
<1>5. CASE ConfigurationBegin
  BY <1>5 DEF ConfigurationBegin, settings, Confirmed
<1>6. CASE Apply
  <2>1. CASE Commit(NoPair) /\ candidate.mode = "bios"
    BY <1>6, <2>1, CommitImplements DEF Apply, Fitting
  <2>2. CASE UNCHANGED <<config, state, applied, revision, duty, fault, closed>>
    BY <2>2 DEF Confirmed
  <2> QED
    BY <1>6, <2>1, <2>2 DEF Apply
<1>7. CASE Applied
  BY <1>7, CommitImplements DEF Applied, Resumed, Coherent, CandidateFits
<1>8. CASE TickBegin
  BY <1>8 DEF TickBegin, EndAtOnce, Boost, settings, Confirmed
<1>9. CASE TickWritten
  <2>1. /\ fault = "none" /\ ~closed /\ state # "stopping" /\ identified
        /\ config.mode = "override" /\ hw.pair \in Targets[config.policy]
        /\ job.op = "tick"
    BY <1>9 DEF TickWritten, Resumed, IInv, FaultFitsPlace, ModeFitsConfig,
       Coherent, JobFitsPlace, StopFitsPlace, CandidateFits
  <2>2. applied = "override"
    BY <1>9, <2>1 DEF TickWritten, Resumed, Coherent, ReportFitsConfig
  <2>3. /\ duty' = hw.pair
        /\ UNCHANGED <<config, state, applied, revision, fault, closed>>
    BY <1>9 DEF TickWritten
  <2>4. Service!Adjust
    BY <2>1, <2>2, <2>3 DEF Service!Adjust, Service!Healthy
  <2> QED
    BY <2>4 DEF Service!Next
<1>10. CASE StopBegin
  <2>1. pc = "begin" /\ UNCHANGED <<config, applied, revision, duty, closed>>
    BY <1>10 DEF StopBegin, At, EndAtOnce, settings
  <2>2. CASE ~closed /\ fault = "none" /\ fault' = fault /\ state' = "stopping"
    <3>1. state # "stopping"
      BY <2>1, <2>2 DEF Coherent, StopFitsPlace
    <3>2. Service!Stop
      BY <2>1, <2>2, <3>1 DEF Service!Stop, Service!Healthy
    <3> QED
      BY <3>2 DEF Service!Next
  <2>3. CASE ~closed /\ fault = "none" /\ fault' = "reason" /\ state' = "fault"
    <3>1. state # "stopping"
      BY <2>1, <2>3 DEF Coherent, StopFitsPlace
    <3>2. Service!Abort
      BY <2>1, <2>3, <3>1 DEF Service!Abort, Service!Healthy
    <3> QED
      BY <3>2 DEF Service!Next
  <2>4. CASE fault' = fault /\ state' = state
    BY <2>1, <2>4 DEF Confirmed
  <2> QED
    BY <1>10, <2>2, <2>3, <2>4 DEF StopBegin, EndAtOnce, settings, Normal, MarkFault
<1>11. CASE StopRestored
  <2>1. state = "stopping" /\ config.restore /\ fault = "none"
    BY <1>11 DEF StopRestored, Resumed, IInv, FaultFitsPlace, Coherent, StopFitsPlace
  <2>2. /\ applied' = "bios" /\ duty' = NoPair
        /\ UNCHANGED <<config, state, revision, fault, closed>>
    BY <1>11 DEF StopRestored
  <2>3. Service!Restore
    BY <2>1, <2>2 DEF Service!Restore
  <2> QED
    BY <2>3 DEF Service!Next
<1>12. CASE StopNotRestored
  <2>1. fault = "none" /\ ~closed
    BY <1>12 DEF StopNotRestored, Resumed, IInv, FaultFitsPlace
  <2>2. /\ fault' = "hardware" /\ state' = "fault"
        /\ applied' = "unknown" /\ duty' = NoPair
        /\ UNCHANGED <<config, revision, closed>>
    BY <1>12 DEF StopNotRestored, MarkUnknown, MarkFault
  <2>3. Service!LoseHardware
    BY <2>1, <2>2 DEF Service!LoseHardware
  <2> QED
    BY <2>3 DEF Service!Next
<1>13. CASE StopClosed
  <2>1. closed' = TRUE /\ UNCHANGED <<config, applied, duty, revision, fault>>
    BY <1>13 DEF StopClosed
  <2>2. Service!Close
    BY <2>1 DEF Service!Close
  <2> QED
    BY <2>2 DEF Service!Next
<1> QED
  BY <1>1, <1>2, <1>3, <1>4, <1>5, <1>6, <1>7, <1>8, <1>9, <1>10, <1>11, <1>12,
     <1>13

\* Seen from its confirmed state the controller is a FanService: every step
\* is one of its atomic changes, or changes nothing.
THEOREM Implements == SafetySpec => ImplementsService
<1>1. Init => Service!Init
  BY DEF Init, Service!Init
<1>2. IInv /\ Coherent /\ [Next]_vars => [Service!Next]_(Service!confirmed)
  <2> SUFFICES ASSUME IInv, Coherent, [Next]_vars
               PROVE  Service!Next \/ UNCHANGED Confirmed
    BY DEF Confirmed, Service!confirmed
  <2>1. CASE CallerNext \/ SampleNext \/ Execute
    BY <2>1, OutsideFrame, ExecuteFrame DEF Confirmed, settings, IInv
  <2>2. CASE DrainCommand \/ DrainPeriodic \/ DrainRpm \/ DrainDone
    BY <2>2, TakeFrame DEF Confirmed, settings
  <2>3. CASE UNCHANGED vars
    BY <2>3 DEF vars, settings, Confirmed
  <2> QED
    BY <2>1, <2>2, <2>3, OperationImplements DEF Next, DrainNext
<1> QED
  BY <1>1, <1>2, InductiveInvariant, CoherentAlways, PTL
     DEF SafetySpec, ImplementsService, Service!Spec

-----------------------------------------------------------------------------
(* What the controller remembers and answers is true.                      *)

Commanders == Clients \cup {Reloader}

\* A queued command, or the one that is executed, is the one its caller waits
\* for; and a caller that waits asks for nothing else.
QueueFits ==
  /\ \A i \in DOMAIN commands : commands[i] \in Commanders =>
       /\ answer[commands[i]].status = "waiting"
       /\ commands[i] \notin waiters
       /\ \A j \in DOMAIN commands : commands[i] = commands[j] => i = j
  /\ \A c \in waiters \cap Commanders :
       call[c] = job /\ answer[c].status = "waiting"
  /\ \A c \in Commanders : call[c] = NoCall \/ IsConfigCall(call[c])

\* A remembered result: if positive it names the revision it made, and its
\* request was not executed after it.
ResultFits(entry) ==
  /\ entry.ok => /\ entry.revision \in DOMAIN log
                 /\ log[entry.revision] = entry.call
  /\ \A r \in DOMAIN log : entry.call.id = log[r].id => r <= entry.revision

MemoryFits ==
  /\ Len(log) = revision
  /\ \A i \in DOMAIN results : ResultFits(results[i])
  /\ pc = "apply" /\ IsConfigCall(job) => Remembered = {}

Truthful == QueueFits /\ MemoryFits /\ AnswersAreHonest

\* The callers of configuration commands do nothing else.
LEMMA CommandersApart ==
  /\ Commanders \subseteq Callers
  /\ Commanders \cap (Tickers \cup Pollers \cup {Main}) = {}
BY CallersAssumption DEF Commanders, Callers

LEMMA AppendIndices ==
  ASSUME NEW S, NEW s \in Seq(S), NEW e \in S
  PROVE  /\ Append(s, e) \in Seq(S) /\ Append(s, e) # <<>>
         /\ \A i \in DOMAIN Append(s, e) :
              Append(s, e)[i] = e \/ (i \in DOMAIN s /\ Append(s, e)[i] = s[i])
OBVIOUS

LEMMA TailIndices ==
  ASSUME NEW S, NEW s \in Seq(S), s # <<>>
  PROVE  /\ Tail(s) \in Seq(S)
         /\ \A i \in DOMAIN Tail(s) : i + 1 \in DOMAIN s /\ Tail(s)[i] = s[i + 1]
         /\ 1 \in DOMAIN s /\ Head(s) = s[1]
         /\ \A i \in DOMAIN Tail(s) : i + 1 # 1
OBVIOUS

\* Memory holds what it held, and the new result.
LEMMA RememberElements ==
  ASSUME TypeOK, IsConfigCall(job), NEW ok \in BOOLEAN, NEW rev \in Nat,
         Remember(ok, rev), NEW i \in DOMAIN results'
  PROVE  \/ results'[i] = [call |-> job, ok |-> ok, revision |-> rev]
         \/ \E j \in DOMAIN results : results'[i] = results[j]
<1> DEFINE R == [call : ConfigCalls, ok : BOOLEAN, revision : Nat]
           entry == [call |-> job, ok |-> ok, revision |-> rev]
           longer == Append(results, entry)
<1>1. entry \in R /\ results \in Seq(R)
  BY ConfigCallType DEF TypeOK, TaskOK, SettingsOK
<1> HIDE DEF R, entry
<1>2. \A k \in DOMAIN longer :
        longer[k] = entry \/ (k \in DOMAIN results /\ longer[k] = results[k])
  BY <1>1, AppendIndices
<1>3. longer \in Seq(R) /\ longer # <<>>
  BY <1>1, AppendIndices
<1>4. results' = longer \/ results' = Tail(longer)
  BY DEF Remember, entry
<1>5. \E k \in DOMAIN longer : results'[i] = longer[k]
  BY <1>3, <1>4, TailIndices
<1> QED
  BY <1>2, <1>5 DEF entry

\* Growing the log leaves true what was.
LogGrows ==
  \/ log' = log /\ revision' = revision
  \/ log' = Append(log, job) /\ revision' = revision + 1 /\ IsConfigCall(job)

LEMMA LogIndices ==
  ASSUME TypeOK, MemoryFits, LogGrows
  PROVE  /\ Len(log') = revision'
         /\ DOMAIN log' = 1..revision'
         /\ DOMAIN log = 1..revision
         /\ \A r \in DOMAIN log : r \in DOMAIN log' /\ log'[r] = log[r]
         /\ log' # log => revision' = revision + 1 /\ log'[revision + 1] = job
         /\ revision \in Nat /\ revision' \in Nat
<1>1. log \in Seq(ConfigCalls) /\ revision \in Nat /\ Len(log) = revision
  BY DEF TypeOK, OutsideOK, SettingsOK, MemoryFits
<1>2. CASE log' = log /\ revision' = revision
  BY <1>1, <1>2
<1>3. CASE log' = Append(log, job) /\ revision' = revision + 1 /\ IsConfigCall(job)
  <2>1. job \in ConfigCalls
    BY <1>3, ConfigCallType DEF TypeOK, TaskOK
  <2> QED
    BY <1>1, <1>3, <2>1
<1> QED
  BY <1>2, <1>3 DEF LogGrows

\* The answers of a finished operation.
LEMMA FinishTruthful ==
  ASSUME TypeOK, QueueFits, AnswersAreHonest,
         \A r \in DOMAIN log : r \in DOMAIN log' /\ log'[r] = log[r],
         NEW status, NEW rev, Finish(status, rev), OperationStep,
         status = "ok" =>
           \/ IsConfigCall(job) /\ rev \in DOMAIN log' /\ log'[rev] = job
           \/ job.op \in {"start", "stop", "tick", "rpm"}
  PROVE  QueueFits' /\ AnswersAreHonest'
<1>1. /\ commands' = commands /\ call' = call /\ waiters' = {}
      /\ \A c \in Callers :
           answer'[c] = IF c \in waiters /\ answer[c].status = "waiting"
                        THEN [status |-> status, revision |-> rev]
                        ELSE answer[c]
  BY DEF Finish, OperationStep, queues, Resolve
<1>2. \A c \in Commanders : answer'[c] # answer[c] => c \in waiters
  BY <1>1, CommandersApart
<1>3. QueueFits'
  BY <1>1, <1>2 DEF QueueFits
<1>4. AnswersAreHonest'
  <2> SUFFICES ASSUME NEW c \in Commanders, answer'[c].status = "ok"
               PROVE  answer'[c].revision \in DOMAIN log' /\ log'[answer'[c].revision] = call'[c]
    BY DEF AnswersAreHonest, Commanders
  <2>1. CASE c \in waiters
    <3>1. call[c] = job /\ answer[c].status = "waiting"
      BY <2>1 DEF QueueFits
    <3>2. answer'[c] = [status |-> status, revision |-> rev]
      BY <1>1, <2>1, <3>1, CommandersApart
    <3>3. job.op \notin {"start", "stop", "tick", "rpm"}
      BY <3>1 DEF QueueFits, NoCall, IsConfigCall
    <3> QED
      BY <1>1, <3>1, <3>2, <3>3
  <2>2. CASE c \notin waiters
    BY <1>1, <1>2, <2>2 DEF AnswersAreHonest, Commanders
  <2> QED
    BY <2>1, <2>2
<1> QED
  BY <1>3, <1>4

\* Nothing of what is remembered or promised changes.
LEMMA FrameTruthful ==
  ASSUME TypeOK, Truthful,
         UNCHANGED <<commands, job, waiters, call, answer, log, results, revision>>,
         pc' = "apply" /\ IsConfigCall(job) => Remembered = {}
  PROVE  Truthful'
<1>1. QueueFits' /\ AnswersAreHonest'
  BY DEF Truthful, QueueFits, AnswersAreHonest
<1>2. MemoryFits'
  BY DEF Truthful, MemoryFits, ResultFits, Remembered
<1> QED
  BY <1>1, <1>2 DEF Truthful

\* An operation ends and remembers nothing.
LEMMA EndTruthful ==
  ASSUME TypeOK, Truthful, UNCHANGED <<log, results, revision>>, OperationStep,
         NEW status, NEW rev, Finish(status, rev),
         status = "ok" =>
           \/ IsConfigCall(job) /\ rev \in DOMAIN log /\ log[rev] = job
           \/ job.op \in {"start", "stop", "tick", "rpm"}
  PROVE  Truthful'
<1>1. QueueFits' /\ AnswersAreHonest'
  BY FinishTruthful DEF Truthful
<1>2. pc' = "next"
  BY FinishPlaces
<1>3. MemoryFits'
  BY <1>2 DEF Truthful, MemoryFits, ResultFits
<1> QED
  BY <1>1, <1>3 DEF Truthful

\* A command ends and is remembered.
LEMMA RememberTruthful ==
  ASSUME TypeOK, Truthful, OperationStep, LogGrows, IsConfigCall(job),
         log' # log => Remembered = {},
         NEW ok \in BOOLEAN, Remember(ok, revision'), ok => log' # log,
         Finish(IF ok THEN "ok" ELSE "refused", revision')
  PROVE  Truthful'
<1>1. /\ Len(log') = revision' /\ DOMAIN log' = 1..revision'
      /\ DOMAIN log = 1..revision
      /\ \A r \in DOMAIN log : r \in DOMAIN log' /\ log'[r] = log[r]
      /\ log' # log => revision' = revision + 1 /\ log'[revision + 1] = job
      /\ revision \in Nat /\ revision' \in Nat
  BY LogIndices DEF Truthful
<1>2. ok => revision' \in DOMAIN log' /\ log'[revision'] = job
  BY <1>1
<1>3. QueueFits' /\ AnswersAreHonest'
  BY <1>1, <1>2, FinishTruthful DEF Truthful
<1>4. ASSUME NEW i \in DOMAIN results'
      PROVE  ResultFits(results[i])'
  <2>1. CASE results'[i] = [call |-> job, ok |-> ok, revision |-> revision']
    BY <1>1, <1>2, <2>1 DEF ResultFits
  <2>2. ASSUME NEW j \in DOMAIN results, results'[i] = results[j]
        PROVE  ResultFits(results[i])'
    <3>1. ResultFits(results[j])
      BY <2>2 DEF Truthful, MemoryFits
    <3>2. log' # log => results[j].call.id # job.id
      BY <2>2 DEF Remembered
    <3>3. \A r \in DOMAIN log' : r \in DOMAIN log \/ (log' # log /\ r = revision + 1)
      <4>1. CASE revision' = revision
        BY <1>1, <4>1
      <4>2. CASE revision' = revision + 1
        BY <1>1, <4>2
      <4> QED
        BY <4>1, <4>2 DEF LogGrows
    <3> QED
      BY <1>1, <2>2, <3>1, <3>2, <3>3 DEF ResultFits
  <2> QED
    BY <1>1, <2>1, <2>2, RememberElements
<1>5. MemoryFits'
  BY <1>1, <1>4, FinishPlaces DEF MemoryFits
<1> QED
  BY <1>3, <1>5 DEF Truthful

LEMMA FailTruthful ==
  ASSUME TypeOK, Truthful, OperationStep, UNCHANGED <<log, revision>>, Fail
  PROVE  Truthful'
<1>1. CASE IsConfigCall(job)
  BY <1>1, RememberTruthful DEF Fail, LogGrows
<1>2. CASE ~IsConfigCall(job)
  BY <1>2, EndTruthful DEF Fail
<1> QED
  BY <1>1, <1>2

LEMMA CommitTruthful ==
  ASSUME TypeOK, Coherent, Truthful, NEW pair, Commit(pair), OperationStep,
         pc = "apply"
  PROVE  Truthful'
<1>1. CASE IsConfigCall(job)
  <2>1. log' # log => Remembered = {}
    BY <1>1 DEF Truthful, MemoryFits
  <2>2. log' = Append(log, job) /\ revision' = revision + 1
    BY <1>1 DEF Commit
  <2>3. log' # log
    BY <1>1, <2>2, ConfigCallType DEF TypeOK, OutsideOK, TaskOK
  <2>4. Remember(TRUE, revision') /\ Finish("ok", revision')
    BY <1>1, <2>2 DEF Commit
  <2> QED
    BY <1>1, <2>1, <2>2, <2>3, <2>4, RememberTruthful DEF LogGrows
<1>2. CASE ~IsConfigCall(job)
  <2>1. job.op = "start" /\ UNCHANGED <<log, results, revision>>
        /\ Finish("ok", revision')
    BY <1>2 DEF Coherent, JobFitsPlace, Commit
  <2> QED
    BY <2>1, EndTruthful
<1> QED
  BY <1>1, <1>2

\* A caller whose future is pending asks for nothing: what is queued stays.
LEMMA AskTruthful ==
  ASSUME TypeOK, Truthful, NEW c \in Callers, NEW r \in Calls, Ask(c, r),
         answer' = [Resolve(periodic, "ok", 0) EXCEPT ![c] = Waiting]
           \/ answer' = [answer EXCEPT ![c] = Waiting],
         \/ commands' = Append(commands, c)
         \/ commands' = commands /\ c \notin Commanders,
         c \in Commanders => IsConfigCall(r)
  PROVE  Truthful'
<1>1. /\ UNCHANGED <<settings, job, waiters, pc, log>>
      /\ call' = [call EXCEPT ![c] = r] /\ Idle(c)
  BY DEF Ask
<1>2. /\ answer'[c] = Waiting /\ call'[c] = r
      /\ \A d \in Callers : d # c => call'[d] = call[d]
  BY <1>1, ResolveType DEF TypeOK, OutsideOK
<1>3. \A d \in Commanders : d # c => answer'[d] = answer[d]
  BY ResolveType, CommandersApart DEF TypeOK, OutsideOK, QueuesOK, Resolve
<1>4. c \in Commanders => c \notin waiters /\ \A i \in DOMAIN commands : commands[i] # c
  BY <1>1 DEF Idle, Truthful, QueueFits
<1>5. commands \in Seq(Callers)
  BY DEF TypeOK, QueuesOK
<1>6. ASSUME NEW i \in DOMAIN commands', commands'[i] \in Commanders
      PROVE  /\ answer'[commands'[i]].status = "waiting"
             /\ commands'[i] \notin waiters'
             /\ \A j \in DOMAIN commands' : commands'[i] = commands'[j] => i = j
  <2>1. CASE commands' = commands /\ c \notin Commanders
    BY <1>1, <1>3, <1>6, <2>1 DEF Truthful, QueueFits
  <2>2. CASE commands' = Append(commands, c)
    <3>1. \A j \in DOMAIN commands' :
            \/ j = Len(commands) + 1 /\ commands'[j] = c
            \/ j \in DOMAIN commands /\ commands'[j] = commands[j]
      BY <1>5, <2>2
    <3>2. Len(commands) + 1 \notin DOMAIN commands
      BY <1>5
    <3>3. CASE i \in DOMAIN commands /\ commands'[i] = commands[i]
      <4>1. /\ answer[commands[i]].status = "waiting"
            /\ commands[i] \notin waiters
            /\ \A j \in DOMAIN commands : commands[i] = commands[j] => i = j
        BY <1>6, <3>3 DEF Truthful, QueueFits
      <4>2. commands[i] # c
        BY <1>4, <1>6, <3>3
      <4> QED
        BY <1>1, <1>3, <1>6, <3>1, <3>3, <4>1, <4>2
    <3>4. CASE i = Len(commands) + 1 /\ commands'[i] = c
      BY <1>1, <1>2, <1>4, <1>6, <3>1, <3>4 DEF Waiting
    <3> QED
      BY <3>1, <3>3, <3>4
  <2> QED
    BY <2>1, <2>2
<1>7. ASSUME NEW d \in waiters' \cap Commanders
      PROVE  call'[d] = job' /\ answer'[d].status = "waiting"
  BY <1>1, <1>2, <1>3, <1>4, <1>7, CommandersApart DEF Truthful, QueueFits
<1>8. ASSUME NEW d \in Commanders
      PROVE  call'[d] = NoCall \/ IsConfigCall(call'[d])
  BY <1>2, CommandersApart DEF Truthful, QueueFits
<1>9. ASSUME NEW d \in Commanders, answer'[d].status = "ok"
      PROVE  answer'[d].revision \in DOMAIN log' /\ log'[answer'[d].revision] = call'[d]
  BY <1>1, <1>2, <1>3, <1>9, CommandersApart
     DEF Waiting, Truthful, AnswersAreHonest, Commanders
<1>10. MemoryFits'
  BY <1>1 DEF settings, Truthful, MemoryFits, ResultFits, Remembered
<1> QED
  BY <1>6, <1>7, <1>8, <1>9, <1>10
     DEF Truthful, QueueFits, AnswersAreHonest, Commanders

LEMMA CallerTruthful ==
  ASSUME TypeOK, Truthful, CallerNext
  PROVE  Truthful'
<1>1. ASSUME NEW c \in Callers, NEW r \in Calls, SubmitCommand(c, r),
             c \in Commanders => IsConfigCall(r)
      PROVE  Truthful'
  BY <1>1, AskTruthful DEF SubmitCommand
<1>2. ASSUME NEW c \in Clients, Change(c)
      PROVE  Truthful'
  <2>1. PICK id \in Ids, to \in Changes :
          SubmitCommand(c, [op |-> "change", id |-> id, to |-> to])
    BY <1>2 DEF Change
  <2>2. [op |-> "change", id |-> id, to |-> to] \in Calls
    BY DEF Calls, ConfigCalls
  <2> QED
    BY <1>1, <2>1, <2>2 DEF Callers, IsConfigCall
<1>3. CASE Reload
  <2>1. PICK id \in Ids, to \in Configs :
          SubmitCommand(Reloader, [op |-> "reload", id |-> id, to |-> to])
    BY <1>3 DEF Reload
  <2>2. [op |-> "reload", id |-> id, to |-> to] \in Calls
    BY DEF Calls, ConfigCalls
  <2> QED
    BY <1>1, <2>1, <2>2 DEF Callers, IsConfigCall
<1>4. ASSUME NEW t \in Tickers, Tick(t)
      PROVE  Truthful'
  <2>1. t \in Callers \ Commanders
    BY CommandersApart DEF Callers
  <2>2. [op |-> "tick"] \in Calls
    BY DEF Calls
  <2> QED
    BY <1>4, <2>1, <2>2, AskTruthful DEF Tick
<1>5. ASSUME NEW p \in Pollers, ReadRpm(p)
      PROVE  Truthful'
  <2>1. p \in Callers \ Commanders
    BY CommandersApart DEF Callers
  <2>2. [op |-> "rpm"] \in Calls
    BY DEF Calls
  <2> QED
    BY <1>5, <2>1, <2>2, AskTruthful DEF ReadRpm
<1>6. CASE Start \/ Stop
  <2>1. Main \in Callers \ Commanders
    BY CommandersApart DEF Callers
  <2>2. PICK r \in Calls : SubmitCommand(Main, r)
    BY <1>6 DEF Start, Stop, Calls
  <2> QED
    BY <1>1, <2>1, <2>2
<1>7. CASE Serve
  BY <1>7, FrameTruthful DEF Serve, settings, queues, task, Truthful, MemoryFits
<1>8. CASE Leave
  <2>1. /\ UNCHANGED <<settings, commands, job, waiters, pc, call, log>>
        /\ \A c \in Commanders : answer'[c] = answer[c]
    BY <1>8, CommandersApart DEF Leave, queues, task
  <2>2. QueueFits' /\ AnswersAreHonest'
    BY <2>1 DEF Truthful, QueueFits, AnswersAreHonest, Commanders
  <2>3. MemoryFits'
    BY <2>1 DEF settings, Truthful, MemoryFits, ResultFits, Remembered
  <2> QED
    BY <2>2, <2>3 DEF Truthful
<1> QED
  BY <1>2, <1>3, <1>4, <1>5, <1>6, <1>7, <1>8 DEF CallerNext

\* _drain takes the next operation.
LEMMA TakeTruthful ==
  ASSUME TypeOK, Truthful, DrainCommand \/ DrainPeriodic \/ DrainRpm \/ DrainDone
  PROVE  Truthful'
<1>1. /\ UNCHANGED <<settings, call, answer, log>> /\ pc' # "apply"
  BY TakeFrame DEF outside
<1>2. MemoryFits'
  BY <1>1 DEF settings, Truthful, MemoryFits, ResultFits
<1>3. AnswersAreHonest'
  BY <1>1 DEF Truthful, AnswersAreHonest
<1>4. CASE DrainCommand
  <2>1. /\ commands # <<>> /\ commands \in Seq(Callers)
        /\ commands' = Tail(commands) /\ waiters' = {Head(commands)}
        /\ job' = call[Head(commands)]
    BY <1>4 DEF DrainCommand, Take, TypeOK, QueuesOK
  <2>2. /\ \A i \in DOMAIN commands' : i + 1 \in DOMAIN commands
             /\ commands'[i] = commands[i + 1] /\ i + 1 # 1 /\ i \in Int
        /\ 1 \in DOMAIN commands /\ Head(commands) = commands[1]
    BY <2>1, TailIndices
  <2>3. ASSUME NEW i \in DOMAIN commands', commands'[i] \in Commanders
        PROVE  /\ answer'[commands'[i]].status = "waiting"
               /\ commands'[i] \notin waiters'
               /\ \A j \in DOMAIN commands' : commands'[i] = commands'[j] => i = j
    <3>1. /\ answer[commands[i + 1]].status = "waiting"
          /\ \A j \in DOMAIN commands :
               commands[i + 1] = commands[j] => i + 1 = j
      BY <2>2, <2>3 DEF Truthful, QueueFits
    <3>2. \A j \in DOMAIN commands' : commands'[i] = commands'[j] => i = j
      BY <2>2, <3>1
    <3> QED
      BY <1>1, <2>1, <2>2, <3>1, <3>2
  <2>4. ASSUME NEW d \in waiters' \cap Commanders
        PROVE  call'[d] = job' /\ answer'[d].status = "waiting"
    BY <1>1, <2>1, <2>2, <2>4 DEF Truthful, QueueFits
  <2> QED
    BY <1>1, <1>2, <1>3, <2>3, <2>4 DEF Truthful, QueueFits
<1>5. CASE DrainPeriodic \/ DrainRpm
  <2>1. commands' = <<>> /\ waiters' \cap Commanders = {}
    BY <1>5, CommandersApart DEF DrainPeriodic, DrainRpm, Take, TypeOK, QueuesOK
  <2> QED
    BY <1>1, <1>2, <1>3, <2>1 DEF Truthful, QueueFits
<1>6. CASE DrainDone
  BY <1>1, <1>2, <1>3, <1>6 DEF DrainDone, queues, Truthful, QueueFits
<1> QED
  BY <1>4, <1>5, <1>6

\* The operations.
LEMMA OperationTruthful ==
  ASSUME IInv, Coherent, Truthful,
         \/ HardwareFailed \/ Boosted
         \/ StartBegin \/ StartProbed \/ ConfigurationBegin \/ Apply \/ Applied
         \/ TickBegin \/ TickWritten
         \/ RpmBegin \/ RpmRead
         \/ StopBegin \/ StopRestored \/ StopNotRestored \/ StopClosed
  PROVE  Truthful'
<1>0. TypeOK
  BY DEF IInv
<1>1. ASSUME NEW status, EndAtOnce(status), job.op \in {"start", "stop", "tick", "rpm"}
      PROVE  Truthful'
  BY <1>0, <1>1, EndTruthful DEF EndAtOnce, settings
<1>2. ASSUME OperationStep, Suspended, UNCHANGED <<results, revision>>, pc' # "apply"
      PROVE  Truthful'
  BY <1>0, <1>2, FrameTruthful DEF OperationStep, Suspended, queues, outside
<1>3. CASE HardwareFailed \/ Boosted
  BY <1>0, <1>3, FailTruthful DEF HardwareFailed, Boosted
<1>4. CASE StartBegin
  <2>1. CASE \E status : EndAtOnce(status)
    BY <1>1, <1>4, <2>1 DEF StartBegin, At
  <2>2. CASE Await("probe", "probe", NoPair) /\ UNCHANGED settings /\ Suspended
             /\ OperationStep
    BY <1>2, <2>2 DEF Await, settings
  <2> QED
    BY <1>4, <2>1, <2>2 DEF StartBegin
<1>5. CASE StartProbed
  <2>1. ~IsConfigCall(job)
    BY <1>5 DEF StartProbed, Resumed, Coherent, JobFitsPlace, IsConfigCall
  <2> QED
    BY <1>0, <1>5, <2>1, FrameTruthful
       DEF StartProbed, Suspended, OperationStep, queues, outside
<1>6. CASE ConfigurationBegin
  <2>1. IsConfigCall(job) /\ OperationStep
    BY <1>6 DEF ConfigurationBegin
  <2>2. ASSUME NEW i \in Remembered, UNCHANGED <<settings, log>>,
               IF results[i].call = job
               THEN Finish(IF results[i].ok THEN "ok" ELSE "refused",
                           results[i].revision)
               ELSE Finish("refused", revision)
        PROVE  Truthful'
    <3>1. ResultFits(results[i])
      BY <2>2 DEF Truthful, MemoryFits, Remembered
    <3>2. CASE results[i].call = job /\ results[i].ok
      BY <1>0, <2>1, <2>2, <3>1, <3>2, EndTruthful DEF ResultFits, settings
    <3>3. CASE ~(results[i].call = job /\ results[i].ok)
      <4>1. PICK rev : Finish("refused", rev)
        BY <2>2, <3>3
      <4> QED
        BY <1>0, <2>1, <2>2, <4>1, EndTruthful DEF settings
    <3> QED
      BY <3>2, <3>3
  <2>3. CASE Fail /\ UNCHANGED <<log, revision>>
    BY <1>0, <2>1, <2>3, FailTruthful
  <2>4. CASE Remembered = {} /\ UNCHANGED settings /\ Suspended
    BY <1>0, <2>1, <2>4, FrameTruthful
       DEF OperationStep, Suspended, queues, outside, settings
  <2> QED
    BY <1>6, <2>2, <2>3, <2>4 DEF ConfigurationBegin
<1>7. CASE Apply
  <2>1. CASE Commit(NoPair)
    BY <1>0, <1>7, <2>1, CommitTruthful DEF Apply
  <2>2. CASE Suspended /\ UNCHANGED <<results, revision>>
    <3>1. IsConfigCall(job) => Remembered = {}
      BY <1>7 DEF Apply, Truthful, MemoryFits
    <3> QED
      BY <1>0, <1>7, <2>2, <3>1, FrameTruthful
         DEF Apply, OperationStep, Suspended, queues, outside
  <2> QED
    BY <1>7, <2>1, <2>2 DEF Apply
<1>8. CASE Applied
  BY <1>0, <1>8, CommitTruthful DEF Applied, Resumed
<1>9. CASE TickBegin
  <2>1. job.op = "tick" /\ OperationStep
    BY <1>9 DEF TickBegin, At, EndAtOnce, Boost
  <2>2. CASE \E status : EndAtOnce(status)
    BY <1>1, <2>1, <2>2
  <2>3. CASE UNCHANGED <<settings, log>> /\ Finish("ok", 0)
    BY <1>0, <2>1, <2>3, EndTruthful DEF settings
  <2>4. CASE \E where \in {"boost", "tick"} : \E method, pair :
               Await(where, method, pair) /\ UNCHANGED settings /\ Suspended
    BY <1>2, <2>1, <2>4 DEF Await, settings
  <2> QED
    BY <1>9, <2>2, <2>3, <2>4 DEF TickBegin, Boost
<1>10. CASE TickWritten
  BY <1>0, <1>10, EndTruthful DEF TickWritten, Resumed, Coherent, JobFitsPlace
<1>11. CASE RpmBegin
  <2>1. CASE \E status : EndAtOnce(status)
    BY <1>1, <1>11, <2>1 DEF RpmBegin, At
  <2>2. CASE Await("rpm", "rpm", NoPair) /\ UNCHANGED settings /\ Suspended
             /\ OperationStep
    BY <1>2, <2>2 DEF Await, settings
  <2> QED
    BY <1>11, <2>1, <2>2 DEF RpmBegin
<1>12. CASE RpmRead
  BY <1>0, <1>12, EndTruthful DEF RpmRead, Resumed, Coherent, JobFitsPlace, settings
<1>13. CASE StopBegin
  <2>1. CASE \E status : EndAtOnce(status)
    BY <1>1, <1>13, <2>1 DEF StopBegin, At
  <2>2. CASE /\ UNCHANGED <<results, revision>> /\ Suspended /\ OperationStep
             /\ \E where \in {"restore", "close"} : \E method, pair :
                  Await(where, method, pair)
    BY <1>2, <2>2 DEF Await
  <2> QED
    BY <1>13, <2>1, <2>2 DEF StopBegin
<1>14. CASE StopRestored \/ StopNotRestored
  BY <1>2, <1>14 DEF StopRestored, StopNotRestored, Await
<1>15. CASE StopClosed
  <2>1. PICK status, rev : Finish(status, rev)
    BY <1>15 DEF StopClosed
  <2>2. job.op = "stop" /\ UNCHANGED <<results, revision, log>> /\ OperationStep
    BY <1>15 DEF StopClosed, Resumed, Coherent, JobFitsPlace
  <2> QED
    BY <1>0, <2>1, <2>2, EndTruthful
<1> QED
  BY <1>3, <1>4, <1>5, <1>6, <1>7, <1>8, <1>9, <1>10, <1>11, <1>12, <1>13, <1>14,
     <1>15

LEMMA InitTruthful == Init => Truthful
<1> SUFFICES ASSUME Init
             PROVE  Truthful
  OBVIOUS
<1>1. DOMAIN commands = {} /\ DOMAIN results = {} /\ DOMAIN log = {} /\ Len(log) = 0
  BY DEF Init
<1>2. \A c \in Commanders : call[c] = NoCall /\ answer[c].status = "idle"
  BY CommandersApart DEF Init
<1> QED
  BY <1>1, <1>2 DEF Init, Truthful, QueueFits, MemoryFits, AnswersAreHonest,
     Commanders

\* What is queued, remembered, and answered always fits the log.
THEOREM TruthfulAlways == SafetySpec => []Truthful
<1>1. IInv /\ Coherent /\ Truthful /\ [Next]_vars => Truthful'
  <2> SUFFICES ASSUME IInv, Coherent, Truthful, [Next]_vars
               PROVE  Truthful'
    OBVIOUS
  <2>1. TypeOK
    BY DEF IInv
  <2>2. CASE SampleNext \/ Execute \/ UNCHANGED vars
    <3>1. UNCHANGED <<commands, job, waiters, pc, call, answer, log, results, revision>>
      BY <2>1, <2>2, ExecuteFrame DEF SampleNext, OnSample, OnStaged, Expire, vars,
         settings, queues, task, outside
    <3> QED
      BY <2>1, <3>1, FrameTruthful DEF Truthful, MemoryFits
  <2> QED
    BY <2>1, <2>2, CallerTruthful, TakeTruthful, OperationTruthful
       DEF Next, DrainNext
<1> QED
  BY <1>1, InitTruthful, InductiveInvariant, CoherentAlways, PTL DEF SafetySpec

\* A request id that is remembered is not executed again (controller.py:
\* _configuration_command).
THEOREM RunsOnceAlways == SafetySpec => []RememberedRunsOnce
<1>1. Truthful => RememberedRunsOnce
  BY DEF Truthful, MemoryFits, ResultFits, RememberedRunsOnce
<1> QED
  BY <1>1, TruthfulAlways, PTL

\* A positive answer names the revision its own request made, remembered or
\* not (controller.py:_configuration_command, _drain).
THEOREM HonestAlways == SafetySpec => []AnswersAreHonest
<1>1. Truthful => AnswersAreHonest
  BY DEF Truthful
<1> QED
  BY <1>1, TruthfulAlways, PTL

=============================================================================
