----------------------------- MODULE Controller -----------------------------
(***************************************************************************)
(* The Controller of src/ha_nuc9_ec/controller.py: the one object that     *)
(* talks to the fan controller (EC).  All its methods run on one asyncio   *)
(* loop; every operation is queued in one of three queues and one worker   *)
(* task (_drain) executes them one at a time, handing each EC transaction  *)
(* to a one-thread executor and suspending until it returns.               *)
(*                                                                         *)
(* The loop is modelled by `worker`:                                       *)
(*   "idle"       no _drain task exists (never created, or done)           *)
(*   "scheduled"  a _drain task was created and has not run yet            *)
(*   "running"    _drain holds the loop: no other loop callback can run    *)
(*   "waiting"    _drain is suspended on the executor: the loop is free    *)
(* so callers, sample callbacks and cancellations interleave with every    *)
(* EC transaction, never with the code between two awaits.  Time does pass *)
(* while the loop is held: Expire, the ageing of a sample, may happen in   *)
(* any state.                                                              *)
(***************************************************************************)
EXTENDS Integers, Sequences, FiniteSets

CONSTANTS
  Clients,      \* callers of change(): the MQTT command handlers
  Reloader,     \* the caller of reload(): Runtime.reload_file
  Tickers,      \* callers of tick(): Runtime._cycles
  Pollers,      \* callers of read_rpm(): Runtime._rpm
  Main,         \* the caller of start() and stop(): Runtime.run
  Ids,          \* request identifiers
  Devices,      \* values of the settings that need a restart (device, mqtt)
  Policies,     \* fan policies (fixed duties or curves with their inputs)
  Sources,      \* temperature sources
  Required,     \* Required[p]: the sources the inputs of policy p name
  Pairs,        \* whole (cpu, sys) duty pairs
  MaxPair,      \* the pair at the backend's upper bound
  NoPair,       \* no PWM of ours: the BIOS drives the fans
  Targets,      \* Targets[p]: pairs policy p and its gates can ask for
  Configs,      \* the configurations that pass validation
  Changes,      \* change() payloads, merged into the running configuration
  Keep,         \* a setting that a change does not name
  ResultLimit,  \* remembered results (256 in the code)
  MaxCalls      \* bound: configuration commands issued in one behaviour

Callers == Clients \cup Tickers \cup Pollers \cup {Reloader, Main}

Modes == {"bios", "override"}

Config == [device : Devices, mode : Modes, policy : Policies, restore : BOOLEAN]

\* Each role is played by callers of its own.
ASSUME CallersAssumption ==
  /\ Clients \cap (Tickers \cup Pollers \cup {Reloader, Main}) = {}
  /\ Tickers \cap (Pollers \cup {Reloader, Main}) = {}
  /\ Pollers \cap {Reloader, Main} = {}
  /\ Reloader # Main

\* duty_bounds gives the upper pair; NoPair stands for Python's None.
ASSUME PairsAssumption ==
  /\ MaxPair \in Pairs
  /\ NoPair \notin Pairs

\* Targets[p] is closed under mixing the two fans of its members, so that the
\* gates (module FanGates), which hold back one fan at a time, stay in it.
ASSUME PoliciesAssumption ==
  /\ Required \in [Policies -> SUBSET Sources]
  /\ Targets \in [Policies -> SUBSET Pairs]
  /\ \A p \in Policies : Targets[p] # {}

ASSUME ConfigsAssumption ==
  /\ Configs \subseteq Config
  /\ Changes \subseteq [mode : Modes \cup {Keep}, policy : Policies \cup {Keep}]

ASSUME ResultLimitAssumption == ResultLimit \in Nat \ {0}
ASSUME MaxCallsAssumption == MaxCalls \in Nat

ConfigCalls == [op : {"change"}, id : Ids, to : Changes]
                 \cup [op : {"reload"}, id : Ids, to : Configs]

NoCall == [op |-> "none"]

Calls == ConfigCalls \cup [op : {"start", "tick", "rpm"}]
           \cup [op : {"stop"}, normal : BOOLEAN]

VARIABLES
  config,       \* _config: the committed effective configuration
  state,        \* _state
  requested,    \* _requested: the mode last asked of the EC
  applied,      \* _applied: the mode last confirmed by the EC
  revision,     \* _revision
  duty,         \* _duty: the confirmed pair
  fault,        \* _fault, by its cause
  failure,      \* _failure_type: decides the exit code, 75 or 78
  identified,   \* _identified: probe() succeeded
  closed,       \* _closed
  results,      \* _results: remembered command results, oldest first
  fresh,        \* the sources whose entry in _samples is usable now
  staged        \* the same for the reload candidate's samples

settings == <<config, state, requested, applied, revision, duty, fault,
              failure, identified, closed, results>>
samples == <<fresh, staged>>

VARIABLES
  commands,     \* _commands: queued callers of start, change, reload, stop
  periodic,     \* waiters of _periodic, {} when it is None
  rpmJob,       \* waiters of _rpm_job, {} when it is None
  worker,       \* the _drain task
  job,          \* the operation _drain is executing
  waiters,      \* the callers whose futures it will resolve
  pc,           \* where in that operation it is
  candidate,    \* the configuration being applied
  hw            \* the executor's current call

queues == <<commands, periodic, rpmJob>>
task == <<worker, job, waiters, pc, candidate, hw>>

VARIABLES
  ec,           \* ground truth: what the EC drives the fans with
  published,    \* the last snapshot handed to the observers
  call,         \* call[c]: the request caller c made last
  answer,       \* answer[c]: the state of the future caller c awaits
  phase,        \* how far Runtime.run is
  asked,        \* configuration commands issued, at most MaxCalls
  log           \* history: log[r] is the command that made revision r

outside == <<call, answer, phase, asked>>

vars == <<settings, samples, queues, task, ec, published, outside, log>>

-----------------------------------------------------------------------------
(* Snapshots, faults and the outcome of an operation.                      *)

\* snapshot(), the parts that the properties tell apart.
Snapshot == [state |-> state, requested |-> requested, applied |-> applied,
             revision |-> revision, duty |-> duty, fault |-> fault,
             config |-> config]

\* Mutant: the observers are called before the change is made.
PublishTooEarly == published' = Snapshot

Publish == published' = Snapshot'

\* _mark_fault; every caller of it publishes in the same step.
MarkFault(cause, kind) ==
  /\ fault' = cause
  /\ failure' = kind
  /\ state' = "fault"

\* Mutant: _hardware forgets unknown=True.
MarkUnknownKeepsReport(cause, kind) ==
  /\ MarkFault(cause, kind)
  /\ UNCHANGED <<applied, duty>>

MarkUnknown(cause, kind) ==
  /\ MarkFault(cause, kind)
  /\ applied' = "unknown"
  /\ duty' = NoPair

\* Mutants: _ensure_active forgets raise_if_faulted(), or the closed flag.
InactiveIgnoresFault == closed \/ state = "stopping"
InactiveIgnoresStop == fault # "none"

\* _ensure_active raises.
Inactive == fault # "none" \/ closed \/ state = "stopping"

\* A policy can be calculated: no _sample() raises SourceUnavailable.
Usable(c, view) == Required[c.policy] \subseteq view

View == IF job.op = "reload" THEN staged ELSE fresh

IsConfigCall(r) == r.op \in {"change", "reload"}

\* Futures of this operation are resolved; a cancelled caller's shield has
\* gone and nobody reads the result.
Resolve(ws, status, rev) ==
  [c \in Callers |-> IF c \in ws /\ answer[c].status = "waiting"
                     THEN [status |-> status, revision |-> rev]
                     ELSE answer[c]]

NoHardware == [method |-> "none", pair |-> NoPair, done |-> "none"]

\* _drain is done with an operation and goes on without leaving the loop.
Finish(status, rev) ==
  /\ answer' = Resolve(waiters, status, rev)
  /\ job' = NoCall
  /\ waiters' = {}
  /\ pc' = "next"
  /\ worker' = "running"
  /\ candidate' = config'
  /\ hw' = NoHardware
  /\ staged' = IF job.op = "reload" THEN {} ELSE staged
  /\ UNCHANGED <<call, phase, asked>>

\* Mutant: the result is made before the revision is incremented.
RememberTooEarly(ok, rev) ==
  LET longer == Append(results, [call |-> job, ok |-> ok, revision |-> revision])
  IN  results' = IF Len(longer) > ResultLimit THEN Tail(longer) ELSE longer

\* _results[request_id] = ...; the oldest entry goes when there are too many.
Remember(ok, rev) ==
  LET longer == Append(results, [call |-> job, ok |-> ok, revision |-> rev])
  IN  results' = IF Len(longer) > ResultLimit THEN Tail(longer) ELSE longer

\* The operation raised: a configuration command turns that into a negative
\* result and remembers it; the others pass the exception to their callers.
Fail ==
  IF IsConfigCall(job)
  THEN /\ Remember(FALSE, revision)
       /\ Finish("refused", revision)
  ELSE /\ UNCHANGED results
       /\ Finish("raised", revision)

\* _hardware: hand a method to the executor and suspend.
Await(where, method, pair) ==
  /\ hw' = [method |-> method, pair |-> pair, done |-> "pending"]
  /\ pc' = where
  /\ worker' = "waiting"

-----------------------------------------------------------------------------
(* The callers: _submit, up to the await of the shielded future.           *)

LoopFree == worker # "running"

Wake == worker' = IF worker = "idle" THEN "scheduled" ELSE worker

Idle(c) == answer[c].status \notin {"waiting", "cancelled"}

Ask(c, r) ==
  /\ LoopFree
  /\ Idle(c)
  /\ call' = [call EXCEPT ![c] = r]
  /\ Wake
  /\ UNCHANGED <<settings, job, waiters, pc, candidate, hw, ec, published, log>>

Waiting == [status |-> "waiting", revision |-> 0]

\* Mutant: the barrier drops the queued tick without resolving its waiters.
SubmitCommandForgetsWaiters(c, r) ==
  /\ Ask(c, r)
  /\ commands' = Append(commands, c)
  /\ periodic' = {}
  /\ answer' = [answer EXCEPT ![c] = Waiting]
  /\ UNCHANGED rpmJob

\* kind == 'command': a barrier.  Pending periodic work is obsolete: its
\* waiters get None at once.
SubmitCommand(c, r) ==
  /\ Ask(c, r)
  /\ commands' = Append(commands, c)
  /\ periodic' = {}
  /\ answer' = [Resolve(periodic, "ok", 0) EXCEPT ![c] = Waiting]
  /\ UNCHANGED rpmJob

Change(c) == \E id \in Ids, to \in Changes :
  /\ asked < MaxCalls
  /\ asked' = asked + 1
  /\ SubmitCommand(c, [op |-> "change", id |-> id, to |-> to])
  /\ UNCHANGED <<phase, samples>>

\* reload_file has read the file and prepared collectors for it: prepare()
\* has waited for a first sample of each required source, or for its timeout.
Reload == \E id \in Ids, to \in Configs, view \in SUBSET Sources :
  /\ phase = "serving"
  /\ asked < MaxCalls
  /\ asked' = asked + 1
  /\ SubmitCommand(Reloader, [op |-> "reload", id |-> id, to |-> to])
  /\ staged' = view
  /\ UNCHANGED <<phase, fresh>>

\* kind == 'periodic': later callers join the waiters of the queued tick.
\* A tick that raised ends its loop; so does an RPM read.
Tick(t) ==
  /\ phase = "serving"
  /\ answer[t].status # "raised"
  /\ Ask(t, [op |-> "tick"])
  /\ periodic' = periodic \cup {t}
  /\ answer' = [answer EXCEPT ![t] = Waiting]
  /\ UNCHANGED <<commands, rpmJob, phase, asked, samples>>

\* kind == 'rpm'
ReadRpm(p) ==
  /\ phase = "serving"
  /\ answer[p].status # "raised"
  /\ Ask(p, [op |-> "rpm"])
  /\ rpmJob' = rpmJob \cup {p}
  /\ answer' = [answer EXCEPT ![p] = Waiting]
  /\ UNCHANGED <<commands, periodic, phase, asked, samples>>

\* Runtime.run: start, serve, cancel the loops, stop.  Between the last two
\* Runtime.stop waits for _reload_lock, that is for the reload under way.
Start ==
  /\ phase = "new"
  /\ SubmitCommand(Main, [op |-> "start"])
  /\ phase' = "starting"
  /\ UNCHANGED <<asked, samples>>

Serve ==
  /\ phase = "starting"
  /\ LoopFree
  /\ answer[Main].status = "ok"
  /\ phase' = "serving"
  /\ UNCHANGED <<settings, samples, queues, task, ec, published, call, answer,
                 asked, log>>

\* The finally clause cancels the loops.  Their futures are shielded: the
\* operations stay queued, or run on, and resolve futures nobody awaits.
Leave ==
  /\ \/ phase = "serving"
     \/ phase = "starting" /\ answer[Main].status = "raised"
  /\ LoopFree
  /\ phase' = "leaving"
  /\ answer' = [c \in Callers |->
                  IF c \in Tickers \cup Pollers /\ answer[c].status = "waiting"
                  THEN [answer[c] EXCEPT !.status = "cancelled"]
                  ELSE answer[c]]
  /\ UNCHANGED <<settings, samples, queues, task, ec, published, call, asked,
                 log>>

\* reason is a signal or 'normal', or 'runtime failure' when a task raised.
Stop == \E normal \in BOOLEAN :
  /\ phase = "leaving"
  /\ answer[Reloader].status # "waiting"
  /\ \E c \in {Main} \cup Tickers \cup Pollers : answer[c].status = "raised"
       => ~normal
  /\ SubmitCommand(Main, [op |-> "stop", normal |-> normal])
  /\ phase' = "stopping"
  /\ UNCHANGED <<asked, samples>>

-----------------------------------------------------------------------------
(* The sample callbacks and time.                                          *)

\* on_sample: a reading replaces the source's entry; an error entry, or one
\* without a temperature, is of no use to the policy.
OnSample(s) ==
  /\ LoopFree
  /\ fresh' \in {fresh \cup {s}, fresh \ {s}}
  /\ UNCHANGED <<settings, staged, queues, task, ec, published, outside, log>>

\* _Sources.put of the reload candidate's collectors, before their commit.
OnStaged(s) ==
  /\ LoopFree
  /\ answer[Reloader].status = "waiting"
  /\ staged' \in {staged \cup {s}, staged \ {s}}
  /\ UNCHANGED <<settings, fresh, queues, task, ec, published, outside, log>>

\* stale_after has passed since the sample was read.
Expire(s) ==
  /\ \/ s \in fresh /\ fresh' = fresh \ {s} /\ UNCHANGED staged
     \/ s \in staged /\ staged' = staged \ {s} /\ UNCHANGED fresh
  /\ UNCHANGED <<settings, queues, task, ec, published, outside, log>>

-----------------------------------------------------------------------------
(* _drain: commands first, then the coalesced tick, then the RPM read.     *)

Take(r, ws) ==
  /\ job' = r
  /\ waiters' = ws
  /\ pc' = "begin"
  /\ worker' = "running"
  /\ UNCHANGED <<settings, samples, candidate, hw, ec, published, outside, log>>

Draining == worker \in {"scheduled", "running"} /\ pc = "next"

DrainCommand ==
  /\ Draining
  /\ commands # <<>>
  /\ commands' = Tail(commands)
  /\ Take(call[Head(commands)], {Head(commands)})
  /\ UNCHANGED <<periodic, rpmJob>>

DrainPeriodic ==
  /\ Draining
  /\ commands = <<>>
  /\ periodic # {}
  /\ periodic' = {}
  /\ Take([op |-> "tick"], periodic)
  /\ UNCHANGED <<commands, rpmJob>>

DrainRpm ==
  /\ Draining
  /\ commands = <<>>
  /\ periodic = {}
  /\ rpmJob # {}
  /\ rpmJob' = {}
  /\ Take([op |-> "rpm"], rpmJob)
  /\ UNCHANGED <<commands, periodic>>

\* The task is done; the next _submit creates another.
DrainDone ==
  /\ Draining
  /\ commands = <<>> /\ periodic = {} /\ rpmJob = {}
  /\ worker' = "idle"
  /\ UNCHANGED <<settings, samples, queues, job, waiters, pc, candidate, hw, ec,
                 published, outside, log>>

-----------------------------------------------------------------------------
(* The executor's thread and the EC.                                       *)

\* What a call that succeeds leaves in the EC.
Effect(h) == IF h.method \in {"set", "restore"} THEN h.pair ELSE ec

\* A failed call has had all of its effect or none of it: the EC takes a pair
\* with one mailbox command, and the failure may lie on either side of it
\* (module Mailbox).  (A slow EC may also perform it after the call failed, see
\* EcService; by then the report is "unknown", so that the outcomes below are all
\* that anything here can tell apart.)  close() raises no HardwareError.
Execute ==
  /\ worker = "waiting"
  /\ hw.done = "pending"
  /\ \/ /\ hw' = [hw EXCEPT !.done = "ok"]
        /\ ec' = Effect(hw)
     \/ /\ hw.method # "close"
        /\ hw' = [hw EXCEPT !.done = "error"]
        /\ ec' \in {ec, Effect(hw)}
     \/ /\ hw.method = "probe"
        /\ hw' = [hw EXCEPT !.done = "preflight"]
        /\ UNCHANGED ec
  /\ UNCHANGED <<settings, samples, queues, worker, job, waiters, pc, candidate,
                 published, outside, log>>

\* The loop resumes _drain behind its await.
Resumed(where, outcomes) ==
  /\ worker = "waiting"
  /\ pc = where
  /\ hw.done \in outcomes

\* Steps of an operation leave alone what belongs to the callers and the EC;
\* Suspended is what a step that ends in an await leaves alone too.
OperationStep == UNCHANGED <<queues, ec>>

Suspended == UNCHANGED <<job, waiters, samples, outside, log>>

\* HardwareError or PreflightError out of _hardware, in every operation but
\* stop: what the EC does is unknown, the operation raises.
HardwareFailed ==
  \E where \in {"probe", "apply", "boost", "tick", "rpm"} :
    /\ Resumed(where, {"error", "preflight"})
    /\ IF hw.done = "preflight" THEN MarkUnknown("preflight", "permanent")
                                ELSE MarkUnknown("hardware", "temporary")
    /\ UNCHANGED <<config, requested, revision, identified, closed>>
    /\ Fail
    /\ Publish
    /\ UNCHANGED <<fresh, log>>
    /\ OperationStep

Boosted ==
  /\ Resumed("boost", {"ok"})
  /\ duty' = MaxPair
  /\ applied' = "override"
  /\ MarkFault("sensor", "temporary")
  /\ UNCHANGED <<config, requested, revision, identified, closed>>
  /\ Fail
  /\ Publish
  /\ UNCHANGED <<fresh, log>>
  /\ OperationStep

\* An operation that ends at its first checks.
EndAtOnce(status) ==
  /\ UNCHANGED settings
  /\ Finish(status, 0)
  /\ UNCHANGED <<fresh, published, log>>
  /\ OperationStep

\* Mutant: a tick that finds its source lost waits for the next one.
SkipTick == EndAtOnce("ok")

\* _sensor_failure: one bounded max_then_exit transaction.
Boost ==
  /\ Await("boost", "set", MaxPair)
  /\ UNCHANGED <<settings, candidate, published>>
  /\ Suspended
  /\ OperationStep

At(op) == worker = "running" /\ pc = "begin" /\ job.op = op

-----------------------------------------------------------------------------
(* start(), change() and reload(): the operations that end in _apply.      *)

StartBegin ==
  /\ At("start")
  /\ IF Inactive THEN EndAtOnce("raised")
     ELSE IF identified THEN EndAtOnce("ok")
     ELSE /\ Await("probe", "probe", NoPair)
          /\ UNCHANGED <<settings, candidate, published>>
          /\ Suspended
          /\ OperationStep

\* Back from probe(): _apply(self._config, self._samples) follows at once.
StartProbed ==
  /\ Resumed("probe", {"ok"})
  /\ identified' = TRUE
  /\ worker' = "running"
  /\ pc' = "apply"
  /\ hw' = NoHardware
  /\ candidate' = config
  /\ UNCHANGED <<config, state, requested, applied, revision, duty, fault,
                 failure, closed, results, published>>
  /\ Suspended
  /\ OperationStep

\* apply_changes: a value the change does not name keeps its setting.
ApplyChanges(change) ==
  [config EXCEPT !.mode = IF change.mode = Keep THEN @ ELSE change.mode,
                 !.policy = IF change.policy = Keep THEN @ ELSE change.policy]

MakeCandidate == IF job.op = "reload" THEN job.to ELSE ApplyChanges(job.to)

\* Mutant: device and mqtt may change.
RejectedIgnoresDevice(c) ==
  \/ c \notin Configs
  \/ job.op = "reload" /\ c.mode = "override" /\ ~Usable(c, staged)

\* make_candidate() raises ConfigError, or device/mqtt differ.
Rejected(c) ==
  \/ c \notin Configs
  \/ job.op = "reload" /\ c.mode = "override" /\ ~Usable(c, staged)
  \/ c.device # config.device

\* Mutant: an id reused with another payload is taken for a new request.
RememberedByPayload == {i \in DOMAIN results : results[i].call = job}

Remembered == {i \in DOMAIN results : results[i].call.id = job.id}

ConfigurationBegin ==
  /\ worker = "running"
  /\ pc = "begin"
  /\ IsConfigCall(job)
  /\ \/ \E i \in Remembered :
          /\ UNCHANGED <<settings, fresh, published, log>>
          /\ IF results[i].call = job
             THEN Finish(IF results[i].ok THEN "ok" ELSE "refused",
                         results[i].revision)
             ELSE Finish("refused", revision)
     \/ /\ Remembered = {}
        /\ Inactive \/ ~identified \/ Rejected(MakeCandidate)
        /\ UNCHANGED <<config, state, requested, applied, revision, duty, fault,
                       failure, identified, closed>>
        /\ Fail
        /\ UNCHANGED <<fresh, published, log>>
     \/ /\ Remembered = {}
        /\ ~Inactive /\ identified /\ ~Rejected(MakeCandidate)
        /\ candidate' = MakeCandidate
        /\ pc' = "apply"
        /\ UNCHANGED <<settings, worker, hw, published>>
        /\ Suspended
  /\ OperationStep

\* Mutant: the bios branch forgets to clear _duty.
ConfirmKeepsPair(pair) ==
  /\ duty' = IF candidate.mode = "bios" THEN duty ELSE pair
  /\ applied' = candidate.mode
  /\ state' = candidate.mode

\* What _apply reports once the EC has done it.
Confirm(pair) ==
  /\ duty' = pair
  /\ applied' = candidate.mode
  /\ state' = candidate.mode

\* The end of _apply and of the operation behind it, in one step of the loop:
\* the confirmed pair, the configuration, the candidate's samples and the
\* revision change together.  The gates start afresh (module FanGates).
Commit(pair) ==
  /\ Confirm(pair)
  /\ UNCHANGED <<fault, failure, identified, closed>>
  /\ config' = candidate
  /\ fresh' = View
  /\ IF IsConfigCall(job)
     THEN /\ revision' = revision + 1
          /\ log' = Append(log, job)
          /\ Remember(TRUE, revision + 1)
     ELSE UNCHANGED <<revision, log, results>>
  /\ Finish("ok", revision')
  /\ Publish

\* _apply up to its await.  For a reload this calculates the policy a second
\* time, at a later clock() than MakeCandidate did.
Apply ==
  /\ worker = "running"
  /\ pc = "apply"
  /\ requested' = candidate.mode
  /\ \/ /\ candidate.mode = "bios" /\ applied = "bios"
        /\ Commit(NoPair)
     \/ /\ \/ /\ candidate.mode = "bios" /\ applied # "bios"
              /\ Await("apply", "restore", NoPair)
           \/ /\ candidate.mode = "override" /\ Usable(candidate, View)
              /\ \E pair \in Targets[candidate.policy] :
                    Await("apply", "set", pair)
           \/ /\ candidate.mode = "override" /\ ~Usable(candidate, View)
              /\ Await("boost", "set", MaxPair)
        /\ UNCHANGED <<config, state, applied, revision, duty, fault, failure,
                       identified, closed, results, candidate, published>>
        /\ Suspended
  /\ OperationStep

Applied ==
  /\ Resumed("apply", {"ok"})
  /\ UNCHANGED requested
  /\ Commit(hw.pair)
  /\ OperationStep

-----------------------------------------------------------------------------
(* tick() and read_rpm().                                                  *)

TickBegin ==
  /\ At("tick")
  /\ IF Inactive \/ ~identified THEN EndAtOnce("raised")
     ELSE IF config.mode = "override" /\ ~Usable(config, fresh) THEN Boost
     ELSE \E target \in IF config.mode = "override"
                        THEN Targets[config.policy] \cup {duty} ELSE {duty} :
       IF target = duty
       THEN /\ UNCHANGED settings
            /\ Finish("ok", 0)
            /\ Publish
            /\ UNCHANGED <<fresh, log>>
            /\ OperationStep
       ELSE /\ Await("tick", "set", target)
            /\ UNCHANGED <<settings, candidate, published>>
            /\ Suspended
            /\ OperationStep

TickWritten ==
  /\ Resumed("tick", {"ok"})
  /\ duty' = hw.pair
  /\ UNCHANGED <<config, state, requested, applied, revision, fault, failure,
                 identified, closed, results>>
  /\ Finish("ok", 0)
  /\ Publish
  /\ UNCHANGED <<fresh, log>>
  /\ OperationStep

RpmBegin ==
  /\ At("rpm")
  /\ IF Inactive \/ ~identified THEN EndAtOnce("raised")
     ELSE /\ Await("rpm", "rpm", NoPair)
          /\ UNCHANGED <<settings, candidate, published>>
          /\ Suspended
          /\ OperationStep

RpmRead ==
  /\ Resumed("rpm", {"ok"})
  /\ UNCHANGED settings
  /\ Finish("ok", 0)
  /\ Publish
  /\ UNCHANGED <<fresh, log>>
  /\ OperationStep

-----------------------------------------------------------------------------
(* stop().                                                                 *)

\* Mutant: an orderly stop restores the BIOS after a fault, too.
NormalIgnoresFault == job.normal

Normal == fault = "none" /\ job.normal

StopBegin ==
  /\ At("stop")
  /\ IF closed THEN EndAtOnce("ok") ELSE
     /\ UNCHANGED <<config, requested, applied, revision, duty, identified,
                    closed, results, candidate>>
     /\ \/ /\ Normal
           /\ state' = "stopping"
           /\ IF identified /\ config.restore
              THEN Await("restore", "restore", NoPair)
              ELSE Await("close", "close", NoPair)
           /\ UNCHANGED <<fault, failure, published>>
        \/ /\ fault = "none" /\ ~job.normal
           /\ MarkFault("reason", "temporary")
           /\ Await("close", "close", NoPair)
           /\ Publish
        \/ /\ fault # "none"
           /\ Await("close", "close", NoPair)
           /\ UNCHANGED <<state, fault, failure, published>>
     /\ Suspended
     /\ OperationStep

StopRestored ==
  /\ Resumed("restore", {"ok"})
  /\ duty' = NoPair
  /\ applied' = "bios"
  /\ Await("close", "close", NoPair)
  /\ UNCHANGED <<config, state, requested, revision, fault, failure, identified,
                 closed, results, candidate, published>>
  /\ Suspended
  /\ OperationStep

\* The exception is raised again once the finally clause has closed the
\* backend.
StopNotRestored ==
  /\ Resumed("restore", {"error"})
  /\ MarkUnknown("hardware", "temporary")
  /\ Await("closeRaise", "close", NoPair)
  /\ UNCHANGED <<config, requested, revision, identified, closed, results,
                 candidate>>
  /\ Publish
  /\ Suspended
  /\ OperationStep

StopClosed ==
  \E where \in {"close", "closeRaise"} :
    /\ Resumed(where, {"ok"})
    /\ closed' = TRUE
    /\ UNCHANGED <<config, state, requested, applied, revision, duty, fault,
                   failure, identified, results>>
    /\ Finish(IF where = "close" THEN "ok" ELSE "raised", 0)
    /\ Publish
    /\ UNCHANGED <<fresh, log>>
    /\ OperationStep

-----------------------------------------------------------------------------
(* The specification.                                                      *)

\* A new process.  The EC holds whatever the previous one left: a clean hold
\* or restore, or any write of a process that was killed.
Init ==
  /\ config \in Configs
  /\ state = "starting"
  /\ requested = config.mode
  /\ applied = "unknown"
  /\ revision = 0
  /\ duty = NoPair
  /\ fault = "none"
  /\ failure = "temporary"
  /\ identified = FALSE
  /\ closed = FALSE
  /\ results = <<>>
  /\ fresh \in SUBSET Sources
  /\ staged = {}
  /\ commands = <<>>
  /\ periodic = {}
  /\ rpmJob = {}
  /\ worker = "idle"
  /\ job = NoCall
  /\ waiters = {}
  /\ pc = "next"
  /\ candidate = config
  /\ hw = NoHardware
  /\ ec \in Pairs \cup {NoPair}
  /\ published = Snapshot
  /\ call = [c \in Callers |-> NoCall]
  /\ answer = [c \in Callers |-> [status |-> "idle", revision |-> 0]]
  /\ phase = "new"
  /\ asked = 0
  /\ log = <<>>

CallerNext ==
  \/ \E c \in Clients : Change(c)
  \/ Reload
  \/ \E t \in Tickers : Tick(t)
  \/ \E p \in Pollers : ReadRpm(p)
  \/ Start \/ Serve \/ Leave \/ Stop

SampleNext == \E s \in Sources : OnSample(s) \/ OnStaged(s) \/ Expire(s)

\* _drain and the operations it executes.
DrainNext ==
  \/ DrainCommand \/ DrainPeriodic \/ DrainRpm \/ DrainDone
  \/ HardwareFailed \/ Boosted
  \/ StartBegin \/ StartProbed \/ ConfigurationBegin \/ Apply \/ Applied
  \/ TickBegin \/ TickWritten
  \/ RpmBegin \/ RpmRead
  \/ StopBegin \/ StopRestored \/ StopNotRestored \/ StopClosed

Next == CallerNext \/ SampleNext \/ DrainNext \/ Execute

\* Mutant: run waits for start() and the stop event only.
RaisedIgnoresLoops == answer[Main].status = "raised"

\* A task of run() ended with an exception.
Raised == \E c \in Tickers \cup Pollers \cup {Reloader, Main} :
            answer[c].status = "raised"

\* _drain goes on when it can and every EC call returns (each mailbox wait has
\* a deadline).  The loops of Runtime call again after their sleep, and run
\* goes on when what it awaits is done: their callbacks are in the loop's FIFO
\* ready queue, so _drain holding the loop now and then delays them but cannot
\* keep them out; hence strong fairness.  Clients, reloads, samples and signals
\* owe nothing.
Fairness ==
  /\ WF_vars(DrainNext)
  /\ WF_vars(Execute)
  /\ \A t \in Tickers : SF_vars(Tick(t))
  /\ \A p \in Pollers : SF_vars(ReadRpm(p))
  /\ SF_vars(Start)
  /\ SF_vars(Serve)
  /\ SF_vars(Leave /\ Raised)
  /\ SF_vars(Stop)

SafetySpec == Init /\ [][Next]_vars

Spec == SafetySpec /\ Fairness

-----------------------------------------------------------------------------
(* Properties.                                                             *)

SettingsOK ==
  /\ config \in Configs
  /\ state \in {"starting", "bios", "override", "fault", "stopping"}
  /\ requested \in Modes
  /\ applied \in Modes \cup {"unknown"}
  /\ revision \in Nat
  /\ duty \in Pairs \cup {NoPair}
  /\ fault \in {"none", "preflight", "hardware", "sensor", "reason"}
  /\ failure \in {"temporary", "permanent"}
  /\ identified \in BOOLEAN
  /\ closed \in BOOLEAN
  /\ results \in Seq([call : ConfigCalls, ok : BOOLEAN, revision : Nat])

SamplesOK ==
  /\ fresh \subseteq Sources
  /\ staged \subseteq Sources

QueuesOK ==
  /\ commands \in Seq(Callers)
  /\ periodic \subseteq Tickers
  /\ rpmJob \subseteq Pollers

Methods == {"none", "probe", "set", "restore", "rpm", "close"}

TaskOK ==
  /\ worker \in {"idle", "scheduled", "running", "waiting"}
  /\ job \in Calls \cup {NoCall}
  /\ waiters \subseteq Callers
  /\ pc \in {"next", "begin", "probe", "apply", "boost", "tick", "rpm",
             "restore", "close", "closeRaise"}
  /\ candidate \in Configs
  /\ hw \in [method : Methods, pair : Pairs \cup {NoPair},
             done : {"none", "pending", "ok", "error", "preflight"}]
  /\ ec \in Pairs \cup {NoPair}

OutsideOK ==
  /\ call \in [Callers -> Calls \cup {NoCall}]
  /\ answer \in [Callers -> [status : {"idle", "waiting", "ok", "refused",
                                       "raised", "cancelled"},
                             revision : Nat]]
  /\ phase \in {"new", "starting", "serving", "leaving", "stopping"}
  /\ asked \in 0..MaxCalls
  /\ log \in Seq(ConfigCalls)

\* Every variable keeps its type: an operation only ever installs validated
\* configurations and whole pairs, and queues only callers.
TypeOK == SettingsOK /\ SamplesOK /\ QueuesOK /\ TaskOK /\ OutsideOK

\* An EC call that changes what the EC does is under way.
Writing == worker = "waiting" /\ hw.method \in {"set", "restore"}

\* What the controller reports as applied is what the EC does, except while a
\* write it has not heard of yet is under way; then it is that or the outcome
\* of that write.  (A failed write leaves "unknown", never the old report.)
ConfirmedMatchesEC ==
  applied # "unknown" =>
    \/ ec = duty
    \/ Writing /\ ec = hw.pair

\* Between two operations of a healthy controller the configuration, the mode
\* and the pair belong together: a commit is all or nothing, and a tick never
\* writes a duty of a policy that is no longer the effective one.
EffectiveIsConfirmed ==
  (pc = "next" /\ fault = "none" /\ ~closed /\ applied # "unknown") =>
    /\ applied = config.mode
    /\ state = config.mode
    /\ requested = config.mode
    /\ duty \in IF config.mode = "override" THEN Targets[config.policy]
                                            ELSE {NoPair}

\* After the loss of a required sensor the fans run at the maximum, and stay
\* there: neither a later command nor the orderly or abnormal stop lowers them.
SensorFaultAtMax == fault = "sensor" => ec = MaxPair /\ duty = MaxPair

\* Once a fault is recorded nothing but close() reaches the hardware: no write,
\* no retry, no restore, no poll.
FaultIsQuiet ==
  fault # "none" /\ worker = "waiting" => hw.method = "close"

\* The first fault and its exit category stay, whatever happens on the way out:
\* a permanent failure is never reported as one worth a restart.
FirstFaultStays == [][fault # "none" => fault' = fault /\ failure' = failure]_vars

\* No operation touches the EC after close(): the worker never waits for the
\* executor again, although commands may still arrive.
ClosedIsQuiet == closed => worker # "waiting"

\* Whatever an operation changed is handed to the observers before the next
\* operation begins: MQTT and health never lag behind a finished operation.
ObserversCurrent == pc = "next" => published = Snapshot

\* While a request id is remembered it is never executed again, although the
\* command may be sent again, and through another caller: every execution of it
\* came before, or is, the one remembered.
RememberedRunsOnce ==
  \A i \in DOMAIN results, r \in DOMAIN log :
    results[i].call.id = log[r].id => r <= results[i].revision

\* A positive answer names the revision this very request made, also when the
\* answer comes from the memory of an earlier delivery.
AnswersAreHonest ==
  \A c \in Clients \cup {Reloader} : answer[c].status = "ok" =>
    /\ answer[c].revision \in DOMAIN log
    /\ log[answer[c].revision] = call[c]

\* Said of reload at controller.py:307: a source the candidate needs and lacks
\* refuses the reload; it does not boost the fans or fault the controller.
ReloadNeverBoosts == job.op = "reload" => pc # "boost"

\* Every call gets its answer: no queue starves, whatever the other callers do,
\* as long as clients send finitely many commands.
EveryCallAnswered ==
  \A c \in Callers :
    answer[c].status = "waiting" ~> answer[c].status # "waiting"

SensorLost == identified /\ config.mode = "override" /\ ~Usable(config, fresh)

\* A required source that stays lost brings the fans to the maximum and the
\* controller to a fault, unless it recovers, the configuration stops needing
\* it, or the service is already on its way out.
SensorLossNoticed ==
  SensorLost /\ phase = "serving"
    ~> fault # "none" \/ ~SensorLost \/ phase # "serving"

\* A fault ends the process: the loops fail, run stops the controller, and the
\* backend is closed so that the supervisor can start another instance.
FaultEndsInClose == fault # "none" ~> closed

-----------------------------------------------------------------------------
(* What the controller promises its users: module FanService.              *)

Service == INSTANCE FanService WITH
  ended <- closed \/ state = "stopping"

ImplementsService == Service!Spec

=============================================================================
