# Formal model of ha-nuc9-ec

`ha-nuc9-ec` drives the two fans of a NUC 9 through the mailbox of its embedded
controller (EC), follows a policy of temperature curves, and is operated from
Home Assistant over MQTT. A fault in it does not show as a wrong number on a
screen: the fans may stand still under load, or the service may go on believing
it controls them. This directory holds TLA+ models of the parts that decide
this, the TLC runs that check them, and TLAPS proofs of the most important
properties for all values of the constants.

All source paths below are relative to the repository's root; `controller.py`
and its neighbours are in `src/ha_nuc9_ec/`.

## 1. The system

    sources/*  --samples-->  runtime.py  --on_sample-->  +----------------+
    (threads)                tick loop   --tick------->  | controller.py  |   one-thread    +-----------+
                             rpm loop    --read_rpm-->   |  queues, one   |   executor      | hardware/ |   ports
                             SIGHUP      --reload---->   |  worker task   | --------------> | linux.py  | --------> EC
    mqtt.py    --change (run_coroutine_threadsafe)--->   |  policy, gates | <-------------- | mailbox.py|
       ^                                                 +----------------+                 +-----------+
       +------------- snapshots (observers) -------------------+
    health.py  <------ snapshots ------------------------------+        container/health_monitor.py, s6

| part | state it keeps | operations | how it interacts | what is hard | what makes it correct |
|---|---|---|---|---|---|
| Controller (`controller.py`) | configuration, requested and applied mode, confirmed duty, revision, fault, samples, three queues, the worker, remembered results | `start`, `change`, `reload`, `tick`, `read_rpm`, `stop`, `on_sample` | called on the asyncio loop; calls the backend in an executor; publishes snapshots | every `await` of the EC lets callers, samples and cancellations in; a failed write has an unknown outcome; repeated requests | the report is what the EC does; a fault is final, quiet and at a safe speed; commands are atomic, answered once, and run once while remembered |
| Policy and gates (`policy.py`) | time since which a fan is wanted lower; time since which each input wants it higher | `calculate`, `DownshiftGate.apply`, `UpshiftGate.observe / apply / confirmed` | driven by `tick`, `_apply` and `on_sample` | samples, ticks and slow writes interleave; several clocks per fan and input | no change before its delay is earned, none withheld for ever, a boost at once, duties within bounds |
| EC mailbox (`hardware/mailbox.py`) | the EC's registers | `read_version`, `set_duty`, `restore_bios`, `read_rpm` | port I/O, one thread, one process (hardware lock) | the EC may be slow or hang; bytes may be garbled; the process may be killed anywhere | never disturb a pending command; the EC acts on verified pairs only; success means performed |
| Backends (`hardware/linux.py`, `mock.py`) | file descriptors | open, the four methods, close | the Controller's executor | failing half way through open | release everything, refuse foreign hardware |
| Runtime (`runtime.py`) | collectors, the reload lock, stop reason | `start`, `run`, `reload_file`, `stop` | owns the loops that call the Controller | reload staging next to stop; loops whose failure must end the process | the process ends after a fault; old collectors go when the new ones are committed |
| Collectors (`sources/*`) | the pending read, the smartctl process | `_read_once`, `run`, `close` | one thread per source, samples to Runtime | late and skipped reads; `close` waits for smartctl on the event loop | one read at a time; a lost source ages |
| MQTT adapter (`mqtt.py`) | client, generations, command and result queues, what was announced | callbacks, worker | paho's thread, its own thread, the loop | reconnects, lost PUBACKs, duplicates, bounded queues | what is retained on the broker converges to the state; online only after an announcement |
| Discovery (`discovery.py`), configuration (`config.py`) | none | pure functions | | | |
| Command line (`cli.py`), health (`health.py`), monitor and s6 (`container/`) | the health file, exit codes | `main`, `write_health`, `check_health`, `check_once`, `finish` | files, signals, exit codes | the monitor's check and kill race with the process | only a stalled instance is killed; 78 stays down, 75 restarts |

`PROJECT.json` lists for every component whether it is modelled, and for every
hazard the line where it bites and the properties that cover it.

## 2. The modules

| module | what it is |
|---|---|
| `Controller.tla` | the Controller with its callers, executor and EC |
| `FanService.tla` | what the Controller promises, seen from its confirmed state only |
| `MCController.tla` + four `.cfg` | small instances of it |
| `Controller_proof.tla` | the inductive invariant of Controller and seven theorems |
| `Service_proof.tla` | on top of it: the refinement of FanService, and the theorems about commands and observers |
| `Policy.tla` | the fan policy as pure operators |
| `FanGates.tla` | the two gates with the parts of tick, `_apply` and `on_sample` around them |
| `MCFanGates.tla`, `.cfg`, `FanGates_proof.tla` | an instance; the types, all action properties, and an order on temperatures |
| `Mailbox.tla`, `Mailbox.cfg` | the mailbox protocol against the EC |
| `EcService.tla` | an EC that performs one command at a time: what the mailbox makes of it |
| `Mailbox_proof.tla` | its invariant, and the refinement of EcService |
| `MqttAnnounce.tla` | the MQTT adapter's transport, worker and stop against a broker |
| `MCMqttAnnounce.tla` + two `.cfg`, `MqttAnnounce_proof.tla` | instances; its invariant and six theorems |
| `MqttCommands.tla`, `.cfg`, `MqttCommands_proof.tla` | its commands, packet ids and results; invariant and three theorems |
| `Collector.tla` | the collectors of all sets of sources, with their readers' threads and smartctl processes |
| `Runtime.tla`, `.cfg`, `Runtime_proof.tla` | start, reloads, run and stop over those sets; invariant and three theorems |
| `Supervision.tla` + two `.cfg`, `Supervision_proof.tla` | processes, health file, monitor and s6; invariant and three theorems |

The first three parts meet in their abstractions: one call of EcService is one
`Execute` of Controller (all of the effect or none, and `unknown` after a
failure), and the set `Targets[p]` of Controller is what Policy and FanGates
may compute for policy `p` (`Targets[p]` is closed under mixing the fans of two
members, as the gates hold back one fan at a time). Runtime extends Collector and
takes the Controller for a reload that is rejected, fails or commits, which is
what FanService allows; MqttCommands takes it for something that answers while
the event loop runs, which is `EveryCallAnswered`; MqttAnnounce and MqttCommands
share the connection, whose generations mean the same in both.

### Controller

The loop runs one callback at a time. `worker` says where the `_drain` task is:
`idle`, `scheduled`, `running` (it holds the loop) or `waiting` (for the
executor, the loop is free). A step of `_drain` between two awaits is one
action; callers, sample callbacks and cancellations take steps only when the
loop is free (`LoopFree`); the ageing of samples (`Expire`) happens always.

| code | model |
|---|---|
| `_config`, `_state`, `_requested`, `_applied`, `_revision`, `_duty`, `_fault`, `_failure_type`, `_identified`, `_closed`, `_results` | the variables of the same names; `fault` is the cause instead of a message, `failure` decides exit code 75 or 78 |
| `_samples` | `fresh`: the sources whose entry is usable now; `staged`: the same for a reload's new collectors |
| `_commands`, `_periodic`, `_rpm_job`, `_worker` | `commands`, `periodic`, `rpmJob` (callers wait, one call each), `worker` |
| the operation under way | `job`, `waiters`, `pc`, `candidate` |
| the executor's call | `hw`; `Execute` is the thread, `ec` what the fans really do |
| `_submit` by its callers | `Change`, `Reload`, `Tick`, `ReadRpm`, `Start`, `Stop`; `Serve` and `Leave` are the rest of `Runtime.run` |
| `_drain` | `DrainCommand`, `DrainPeriodic`, `DrainRpm`, `DrainDone` |
| `start`, `_configuration_command`, `_apply`, `tick`, `read_rpm`, `stop` | one action for each stretch between two awaits; `HardwareFailed` and `Boosted` are the common ends of all of them |

Abstractions: policies are model values with the sources they need and the
pairs they may ask for; device and MQTT settings are one value `device`;
`config.restore` is `shutdown_action`. `published` is the snapshot the observers
saw last. `log` is a history of committed commands. `asked <= MaxCalls` bounds
the configuration commands of a behaviour.

A new process finds the EC as any earlier one left it (`ec` is arbitrary in
`Init`), so a crash is the start of a behaviour.

### FanGates and Policy

Slopes are fractions `rise / per`, so that `ceil` is exact; an optional setting
is a set of at most one value. Timestamps are kept as ages capped above every
threshold (at `AgeCap`, and a sample's where it is stale for good), so that time
is unbounded and the state space finite.
`asking` and `calm` are histories that the properties compare with what the
gates know: `asking` sees every sample, `calm` every tick. A command or a tick
that finds a required source lost ends the behaviour (`faulted`); what happens
then is in Controller.

### Mailbox

One access (index, then byte) is one step: the EC does not look at the index,
and the lock and the single thread keep everybody else out. `command` is
register 0x10, `parameter` 0x11 and 0x12. `EcPerforms` and `EcAcknowledges` are
the firmware, as the mailbox relies on it: it performs before it clears 0x10,
and a byte written to 0x10 arrives, as nothing reads it back. (0x11 and 0x12 may
be garbled on their way; they are read back.) The responses of 0x01 and 0x0F
overwrite parameters. `Killed` is SIGKILL, an ordinary exit, or the failure of
the process to get further, at any point; `Open` is the next process.

### MqttAnnounce

| code | model |
|---|---|
| `_client`, `_connected`, `_online`, `_retry_at` | `conn`: `link` is `down` without a client, `opening` until `_on_connect`, then `up` |
| `_latest`, `_state_sequence`, `_birth_sequence`, `_generation` and what they are compared with | `news.latest`, `news.dirty`, `news.birth`, `conn.synced`, and `job.moved` for what moved under an announcement |
| `_discovery_topics`, `_discovery_fingerprint`, `_source_availability`, `_last_urgent_key` | `known` |
| one pass of `_work` | `Top`, `StartTransport`, `Capture`, then `Send` and `Acknowledged` or `TimedOut` for each topic of `_announce`, `Announced`, `SendOnline` |
| paho's callbacks | `OnConnect`, `OnConnectFail`, `OnDisconnect`, `Birth`; those of a retired client return at once and have no action |
| `publish_state`, `stop` | `PublishState`; the four actions of `stopper`, in a thread of their own |

What has to be written is fixed when the worker looks (`Todo`), since nobody but
the worker changes `known`; `Image(s)` is what each topic then has to hold. A
payload is the name of a configuration, a state or a status. The broker keeps
the order of one connection, may acknowledge late or never, and publishes the
will when it gives up a broken session, which is before the same client is let
in again. `Init` has a broker that retains nothing: discovery documents of an
earlier process with another configuration are unknown to this one, and stay.

### MqttCommands

| code | model |
|---|---|
| `_commands`, `_results`, `_generation` | `queue`, `results` (the messages answered), `gen` |
| `_packet_ids` | `memory`; a key (generation, packet id) is a message `<<g, n>>`, the n-th of connection g |
| `_on_message` | `Arrives`, of a first copy or a duplicate; a full queue forgets the copy |
| a round of `_work` | `Top`, then `Take` (with `Completed` when the future is done) or `Reject` for each command, `Enough`, then `Publish` and `Published` or `NotPublished` for each result |
| `stop` | `StopBegins` ... `StopEnds`: the event loop is blocked in between, and `Completed` with it |

A fresh uuid is the number of the copy it is drawn for; `submitted` is the
history of what went to the controller under which id. The broker numbers the
messages of a connection 1, 2, ... without coming round (it has 65,535 numbers);
a publication that arrives after its wait has timed out is left out, since it
will be sent again anyway, and the answer to a copy that a full queue refuses is
not tracked, as nothing waits for it.

### Collector and Runtime

A set of sources is a number, that of the configuration it is built for, and all
sets read one source; so the samples of an old and a new set differ in nothing
but where they come from, which is what the properties are about. `task` is
where `Collector.run` is, `pending` the `_pending` future, `thread` the
executor's; a reader takes its own time and may hang for ever. `Submit`,
`Collect`, `TimeOut`, `Wake` and `Close` are `run` between two awaits.

The sets of `Smart` are read with smartctl, which is `child`: `Spawn` starts it,
`Sticks` and `Recovers` are a disk that does not answer, so that SIGKILL has no
effect until it does. `SmartctlReader.close` kills a child and waits for it, on
the event loop (`Kill`); if the child is stuck the loop stands still
(`CloseBlocks`, `task` is `blocked`) and nothing that runs on it takes a step:
not `run`, no reload, no collector and no signal handler (`OnLoop`, `LoopFree`).
A child that is started after `close` has looked is left to its thread.

| code | model |
|---|---|
| `Runtime.run` and `start`, `stop` | `run`: `Begin`, `Started`, `ControllerStarts`, `Leave`, `Gathered`, `Stop`, `Closed`, `End` |
| `reload_file` | `reload`: `ReloadBegins`, `Load`, `Prepared`, then `Reject`, or `Apply` and `Commit` or `ApplyFails`, `Committed`, `Dropped` |
| `_reload_lock`, `_sources`, `stop_event`, `reload_event` | `lock`, `sources`, `stop`, `hup` |
| `_Sources.active`, `.samples`, the controller's `_samples` | `active`, `staged`, `samples` |

`effective` and `fault` are the controller's configuration and whether it is
faulted. A tick or a command that fails is `LoopFails`, at any time.
docs/operations.md:33 says a source has at most one read under way. That is per
collector (`OneReadAtATime`): while a reload prepares, the candidate's collector
may read a source that the old one is reading.

### Supervision

| code | model |
|---|---|
| `main` and `_run` of `cli.py` | `phase` of each process: `TakeSlot`, `PublishStarting`, `Ready`, `Cycle`, `Faults`, `Stops`, `WriteFinal`, `Exit`; a loser of the slot is `refused` |
| `write_health` | `Record`: the file is replaced whole; `Expire`: it grows old |
| `check_health` | `Status`, with `SameProcess` for `process_starttime` |
| `check_once` | `monitor`: `ReadStatus`, `CheckHealth`, `Pin`, `Identify`, `CheckAgain`, `ReadStatusAgain`, `Kill` |
| `run`, `finish`, `timeout-kill`, s6-supervise | `S6Start`, `Finish`, `S6Kills`, `S6Reap` |

A process is a number that is never used again, as the triple of pid, start time
and instance id never is; its pid is used again once the process is reaped.
Processes crash, hang and are told to stop at any time, and one may be started
by hand next to the service. A process that hangs before its first record or
after its last is killed by nobody: the monitor goes by the record.

## 3. Runs

| run | question | bounds | states |
|---|---|---|---|
| `commands` | Are commands run once while remembered, and answered truthfully? | 2 clients and the reloader, 3 ids, 4 commands, a memory of 2 | 1.9 million |
| `service` | Are commands and ticks atomic, is the report true, are faults final, quiet and safe, and is the whole a FanService? | one caller of each kind, 2 to 4 configurations, 2 commands | 0.8 million |
| `live` | Is every call answered, a lost sensor noticed, and does a fault end the process? | one caller of each kind, 1 command | 72,000 |
| `reload` | (violation) Does a reload with a stale sample really never boost? | tick loop and reloader | |
| `gates` | Is every rise and fall earned and every boost immediate, and does an earned change happen, however the other fan behaves? | 2 fans, 2 sources, 2 temperatures, 2 configurations, ages up to `AgeCap` | 89,000 |
| `mailbox` | Is the mailbox an EC that performs one command at a time? | 2 duties, hence 4 pairs | 5,300 |
| `announce` | Is online shown only over a complete image, and is everything retained remembered? | 3 snapshots of one configuration and one of another, 2 documents, 2 sources, 2 changes, 2 faults | 1.6 million |
| `mqtt` | Are duplicates recognised, and is every queued command answered? | 2 messages on each of 2 connections, 4 copies, a queue of 1, 2 results, 1 remembered packet id, 1 fault | 0.7 million |
| `runtime` | Do samples and collectors follow the configuration, and does nothing outlive `run()`? | 3 sets of sources: the start's and two reloads', the second one read with smartctl | 0.5 million |
| `supervision` | Is the health file the holder's, and is only the stalled process killed? | 3 processes of the service and 1 started by hand, 2 pids | 0.7 million |
| `supervision_exit` | (violation) Does a fault end in exit 75? | the same | |
| `announce_live` | Does the broker come to retain the latest state, and is every birth answered? | 2 snapshots of two configurations, 3 changes, 1 fault | 0.5 million |

Why the bounds are enough. *commands*: to violate exactly-once or a truthful
answer takes an id used twice by different senders with an eviction in between
or not; three ids against a memory of two and four commands contain all of
those orders. *service*: every pair of operations may overlap (each kind of
caller has one member, and the waiters of a coalesced tick are a set), every EC
call may fail, the sensor may be lost at any point and the stop come at any
point. A second command follows a first in every way, and may change the policy
under a tick that is queued or being written. *gates*: two temperatures, of which
one asks for little and the other for more, or boosts; delays of 0, 1 and 2, a
fan with two inputs of which one is delayed and boosts, the same fan without the
boost, so that one input waits while the other raises the fan, a fan with one
delayed input, a fixed fan, and floors above and below the curves; a delay longer
than two ages adds waiting and nothing else. Two inputs that both wait, or a boost
next to a wait of another temperature, are not in the run: for these there are
the theorems, which hold for any inputs. *mailbox*: two duties tell the
halves of a pair and any two pairs apart, and `Noise` stands for every byte
nobody asked for. The number of calls, kills and hangs is not bounded.
*announce*: two faults lose an acknowledgement and then the connection, or the
connection twice, at any point of an announcement; a change of configuration
replaces the document and a source, and a state that differs in nothing urgent
is among them. *announce_live*: three changes are needed to leave a state and
come back to it before the other has been announced. *mqtt*: four copies are a
command in the worker's hands, one that fills the queue, one that is refused and
its duplicate, over a reconnect; they also let one packet id be forgotten between
a message and its duplicate. *runtime*: a set that is replaced by a second while
its collector is still stopping, and a third that is rejected, repeated or caught
by the stop; a fourth would find what the third found. The set read with smartctl
is replaced, or rejected, or in force at the stop, so its `close` is awaited by
the reload and by `run`; the others are sysfs reads. *supervision*: with two
pids the third process has the pid of the first, and the one started by hand may
take either.

In `commands`, clients and ids are symmetric; no other run uses symmetry, and
none that checks a temporal formula. Deadlock is checked in the runs of
Controller, Mailbox and Supervision; FanGates ends with the loss of a required
source, MqttAnnounce and MqttCommands when the adapter has been stopped, and
Runtime when `run()` has returned.

### What the runs show

* **The report is true.** `ConfirmedMatchesEC`: what is published as applied is
  what the EC does, except while a write is under way; after a failed write it is
  `unknown`. `ObserversCurrent`: observers have seen the last word before the
  next operation begins. `EffectiveIsConfirmed`: between operations of a healthy
  controller configuration, mode and pair belong together, though ticks and changes
of policy overtake each other in the queues.
* **Faults are final, quiet and safe.** `SensorFaultAtMax`, `FaultIsQuiet`,
  `ClosedIsQuiet`, `FirstFaultStays`; and `FaultEndsInClose`: the process goes.
* **Commands.** `RememberedRunsOnce` and `AnswersAreHonest`, including ids shared
  by clients and reloads.
* **Nothing is forgotten.** `EveryCallAnswered`, `SensorLossNoticed`.
* **The whole.** `ImplementsService`: all the queues, awaits and failures add up
  to the atomic changes of FanService.
* **The gates.** `RiseIsEarned` (in *every* sample, not only those that ticks
  saw), `LoweringIsEarned`, `BoostIsImmediate`, `GateTracksDuty`, `RiseHappens`,
  `LoweringHappens`.
* **The mailbox.** `QuietWhileBusy`, `VerifiedPairs`, `CallReturns`,
  `ImplementsEcService`.
* **MQTT.** `OnlineMeansComplete`, `NothingForgotten`, `TrustedIsRetained`,
  `StoppedStaysDown`, `UrgentConverges` (the flag `retry_announce` is what it
  hangs on), `BirthAnswered`. One thing the model
  reaches that no property here rules out, because nothing in the repository
  promises the contrary: `stop()` publishes `offline`, but a worker near the end
  of the first announcement of a connection may publish `online` after it, and
  `disconnect()` then suppresses the will, so that the broker retains `online`.

* **Commands over MQTT.** `DuplicatesRecognised`: one message, one id, although
  packet ids begin anew with every connection. Its two exceptions are the code's:
  a duplicate that is still queued when a reconnect clears `_packet_ids`, or that
  comes after 512 others, gets an id of its own and runs again, possibly after a
  later command; docs/design.md:299 relies on set-value commands there.
  `EveryCommandEnds`: results survive reconnects, and `stop()` on the event loop
  does not wait for ever for a worker that waits for the event loop.
* **Reloads.** `SamplesFitConfiguration`, `NothingLeftRunning`, `OneReadAtATime`,
  `StopEnds`: a repeated reload whose first answer was good must not stop the
  active set, and a cancelled one ends before the sources are torn down. That no
  tick drives the fans by samples of another configuration is
  `SamplesFitConfiguration` alone: in Controller a usable sample has no origin.
  `StopEnds` says that a stop or a fault ends `run()`, whatever the sysfs reads do,
  and however long a smartctl takes to die, on the premise that no `close` blocks
  the event loop for ever (`[]<>LoopFree`). Without the premise TLC finds the
  behaviour described below. When
  `run()` has returned the thread of a hanging read may still be there
  (`shutdown(wait=False)`), and the interpreter joins it on exit.
* **Processes.** `FileIsHolders`, `HealthyHoldsSlot`, `KillsTheJudged`,
  `HungIsKilled`.

Each property has a mutant in `PROJECT.json`: a definition of the model changed
as a slip in the code would change it (a forgotten flag, a lost reset, a result
made too early), which the property then catches. The mutated forms stand before
the definitions they replace and are marked as such.

### The disagreements found

The comment at `controller.py:307-308` says that a reload whose candidate lacks
a source "must not fault/boost". The candidate is calculated at line 310, and
again in `_apply` at line 222, each time with its own reading of the clock. A
sample whose `stale_after` runs out between the two passes the first and fails
the second, and then boosts and faults. The run `reload` shows such a behaviour.
No await lies between the two readings, so the window is microseconds; nothing
but its width protects the promise.

docs/design.md:274 says that a failed EC call ends in exit code 75, after which
s6 waits five seconds. The run `supervision_exit` shows another end: the fault is
in the health file as soon as the call has failed, `check_health` calls that
stale at once, and the monitor, which looks every second, sends SIGKILL while the
process is still on its way out (stopping the MQTT adapter waits for seconds when
the broker does not answer). `finish` then does not see 75, does not sleep, and
the last record is missing.

A third one has no run, as the model states it as a premise. docs/design.md:57
says that slow queries such as SMART have a time limit and do not block the
control of the CPU fan ("有超时且不阻塞 CPU 控制"). That holds of reading. But
`SmartctlReader.close` (`sources/smart.py:69-74`) kills a smartctl that is under
way and waits for its end without a limit, on the event loop
(`sources/base.py:88-90`), when a reload has replaced the collectors and when
the service stops. If the disk keeps smartctl in the kernel, the ticks stop, the reload and
`run()` do not end, and the signal handlers do not run; the process ends by the
monitor's SIGKILL, once the record is stale. With the premise of `StopEnds`
dropped TLC shows this: a reload, a read of its set under way, a stuck child, a
stop, `CloseBlocks`.

### Fairness

*Controller*: weak fairness of `_drain` (a task that can go on does) and of
`Execute` (every mailbox wait has a deadline: `CallReturns` in Mailbox is that
assumption discharged). Strong fairness of the loops of Runtime (`Tick`,
`ReadRpm`), of `Start`, `Serve`, `Stop` and of `Leave` after an exception:
asyncio's ready queue is first in, first out, so a callback that is ready again
and again is delayed by `_drain`, not kept out. Nothing is assumed of clients,
reloads, samples or signals. *FanGates*: time passes, writes end, and the tick
loop runs again and again (strong fairness, since samples and commands may make
one tick impossible or another possible in between). *Mailbox*: the thread goes
on and its clock reaches the deadline; the EC may hang for ever. *MqttAnnounce*:
the worker's loop goes on, an open connection delivers and acknowledges in the
end, a broken one is noticed, the backoff ends; all of it weak fairness. That
`publish_interval` passes is not assumed, so that `UrgentConverges` does not owe
anything to the periodic announcements. *MqttCommands*: the worker's thread goes
on, the event loop completes commands unless `stop()` blocks it, the broker can
be reached again and answers; lost connections and acknowledgements are bounded
by `MaxFaults`. *Runtime*: weak fairness of `run`, of the reload's task and of a
cancelled collector, all on the event loop, and so only while no `close` holds it;
none of the readers, who may hang, nor of a stuck smartctl. `StopEnds` carries the
premise that the loop is freed again and again. The liveness of Controller,
FanGates and MqttCommands, whose fairness is the same event loop's, rests on it as
well, in a service that has smartctl sources.
*Supervision*: weak fairness of the monitor's loop and of the ageing of the
record; nothing is assumed of processes, s6 or the operator.

## 4. Proofs

TLC checks the instances above; the following hold for every value of the
constants that satisfies the named assumptions in the modules (disjoint roles of
callers, `MaxPair` a pair and `NoPair` none, validated configurations well
formed, bounds in 0..100, temperatures integers, the bytes of the mailbox
distinct, topics of different kinds apart). Every invariant and every action
property that a passing run checks is a theorem, and so are the refinements; most
are proved of `SafetySpec`, the specification without its fairness, which is all
that they need. TLC checked the parts of each inductive invariant before they
were proved.

**Controller_proof.** `InductiveInvariant` proves `IInv`, five conjuncts:
`TypeOK`; `CallFitsPlace` (the executor's call is the one `_drain` is waiting for
at its `pc`, and there is none when it is not waiting); `ReportFitsEC`
(`ConfirmedMatchesEC` with what is known of `hw` before and after the thread has
done its part); `FaultFitsPlace` (after a fault `_drain` is nowhere but at its
first checks or in `stop`, and after a sensor fault the pair is the maximum on
both sides); `ModeFitsConfig` (a confirmed BIOS mode is that of the configuration until
`stop` restores it, so that a tick writes in override mode only). Without `CallFitsPlace` a step of `Execute` could
write anything, and the safety properties are not inductive. From it follow
`TypeCorrect`, `ConfirmedIsReal`, `SensorFaultIsSafe`, `FaultKeepsQuiet` and
`ClosedKeepsQuiet`; `FirstFaultIsFinal` is an action property: the only steps
that set `fault` start from `fault = "none"`.

**Service_proof** goes on from that invariant. `CoherentAlways` proves `Coherent`:
`JobFitsPlace` and `StopFitsPlace` (which operation can be at which `pc`, and what
`state` may say there), `ReportFitsConfig` (until a fault or an orderly stop, a
known report belongs to the effective configuration, also while a candidate is
being written), `CandidateFits` (what is about to be confirmed belongs to the
candidate, and a tick's write to the configuration in force) and `ObserversFit`.
It gives `EffectiveAlways` and `ObserversAlways`, and it is what the refinement
needs: `Implements` maps each action of Controller to one action of FanService or
a stutter. Coherence enters where an operation confirms (the new pair is one the
new configuration may ask for) and where it stops. `TruthfulAlways` proves
`Truthful`: `QueueFits` (a command in the queue, or under way, is the one its
caller waits for), `MemoryFits` (a remembered result names the revision its
request made, and its id was not executed again since; a command that is being
applied has an id that is not remembered) and `AnswersAreHonest`. An answer is
honest because the memory it may come from is, and the memory is because a command
under way cannot have been in it. `RunsOnceAlways` and `HonestAlways` follow, for
any number of callers and any size of the memory.

**FanGates_proof.** `GatesStayInStep`: `GateTracksDuty` is inductive by itself.
`TypesAlways` is `TypeOK`, whose substance are the duty bounds: every duty
confirmed or sent to the EC is in `Lower..Upper`, for any curves and
temperatures. It rests on lemmas about the operators of Policy (`LargestNatural`,
by the well-foundedness of the order on Nat, `CurveFits`, `ClampFits`,
`FanDutyFits`). `HotterIsNeverSlower` is about them too: of two sets of samples,
the one that is nowhere cooler never gets a fan a lower target, since rounding,
boosts, the choice among inputs and the clamps all keep the order.
`BoostNeverWaits` needs no invariant but the types. `LoweringWaits` needs
`CalmCovers`: the gate has not waited longer than the ticks have been calm.
`RiseWaits` needs `AskingCovers` (the same of the other gate, for every input) and
`DutyFits` (confirmed pairs and pairs under way are fixed points of the clamp of
the configuration they belong to): without it a tick could raise a fan to its
floor without any input asking.

**Mailbox_proof.** `MailboxInvariant` proves `IInv`: `TypeOK`, the register index
and the parameters read back so far fit the call (`AtParameter`, `SeenIsHeld`),
the call fits the place (`CallFitsPlace`, `SubmitsItsOwn`), `QuietWhileBusy` and
`VerifiedPairs`. The point is `SeenIsHeld`: bytes that were read back stay what
they were, because a pending command, whose response could overwrite them, is
excluded by `QuietWhileBusy`. `MailboxIsEcService` is the refinement: under the
mapping `owed <- IF 0x10 is pending THEN handed ELSE None` every step is a step
of EcService or a stutter; `VerifiedPairs` is what makes `EcPerforms` a
`Perform` of the pair that was asked for.

**MqttAnnounce_proof.** `StopIsFinal`: `StoppedStaysDown`, strengthened to hold
from the moment `stop()` joins the worker. It rests on the second look at `_stop`
under the lock in `_start_transport`, and on `disconnect()` of a client that is
still opening. `AnnounceTypes`: `TypeOK`, which no run checks, from four groups
that every step preserves: `Linked` (an open session has its client, and a worker
about to start a client has none), `JobFits` (an announcement under way exactly
where the worker is at one), the types of what is remembered, and `NetFits` (an
ended session leaves nothing under way).
The other four follow from `Kept`, which adds to the types: `Steady` (the client is
not replaced while an announcement is under way), `PlaceFits` and `WireFits` (where
the worker is tells what is on the wire and what was acknowledged, and `stop()`
puts nothing there but `offline`), `MemoryFits` (a document or a source that is not
remembered is neither retained nor on its way, and a status is sure only with
nothing on its way), `TrustFits` (`TrustedIsRetained` during the announcement, too,
for the sources it has done), `Settled` (what this announcement has written, or
found no need to write, is there to stay) and `OnlineFits`. A lost acknowledgement
is why the parts hang together: what the worker remembers is right only because of
what may still be on the wire, and online is only sent when nothing is.
`OthersFrame` says once what the actions of all others leave alone, so that the
parts are proved against the worker's own steps and that frame. `MemoryIsKept`,
`TrustIsDeserved`, `AnnouncedIsRetained` and `OnlineComesLast` follow.

**MqttCommands_proof.** `CommandsInvariant` proves `IInv`: types; `Room` (a
command is only taken while there is room for its result) and `InFlight` (the
publication under way is the first result's); `InOrder` and `Older` (copies are
taken in the order they came, so that the next copy's number is nobody's id);
`Remembered` (`_packet_ids` holds only ids under which that very message was
submitted). It gives `IdsStayApart`, the half of `DuplicatesRecognised` that says
no id is shared by two messages, and `LimitsHold`: queue and results stay within
their limits (`Bounded`). `DuplicatesRunOnce` is the whole of
`DuplicatesRecognised`, by `Recognised`: `Firsts` (a copy without the duplicate
flag is the first of its message), `OneEntry` (`_packet_ids` has one entry for a
message, made for the copy it names) and `KeptOrCrowdedOut`: an id given on this
connection is remembered, or at least `IdLimit` other messages were submitted
since. When a full `_packet_ids` drops its oldest entry, all the others are younger
and of different messages, which an injection counts.

**Runtime_proof.** `RuntimeInvariant` proves `IInv`: `SourcesFit` (the set in
force is the configuration's and nobody else publishes), `ReloadFits` (a reload
holds the lock and its candidate until one of the two sets is stopped, and
happens between start and stop only), `Owned` (every collector that runs is
somebody's to stop) and `Built`. `Owned` is the strengthening of
`NothingLeftRunning`: it is what every abandoned reload has to restore. It gives
`SamplesAlwaysFit`, `RunCleansUp` and `ReadsDoNotOverlap`, for any number of
reloads and whichever sets are read with smartctl. `GatheringStep` is the step of
a collector or a reader: it builds nothing, stops nothing, and publishes for the
active set only.

**Supervision_proof.** `SupervisionInvariant` proves `IInv`: `LockFitsPhase`,
`PidsDiffer`, `RecordFitsWriter`, `ChildIsHeld`, and `MonitorFits`, what
`check_once` knows of the processes it has seen at each of its steps: each has
the pid s6 gave it or is gone, which nothing undoes. From it follow
`FileKeepsHolder`, `HealthyIsHolder` and `MonitorKillsTheJudged`, for any number
of processes and pids.

Only model-checked is liveness (`EveryCallAnswered`, `SensorLossNoticed`,
`FaultEndsInClose`, `RiseHappens`, `LoweringHappens`, `CallReturns`,
`UrgentConverges`, `BirthAnswered`, `EveryCommandEnds`, `StopEnds`,
`HungIsKilled`), which with fairness and ENABLED is out of the prover's reach.

## 5. What is not modelled

* Temperatures as floats: overflow, NaN and infinities in `curve_duty` and
  `_sample`; malformed numbers are refused before the policy runs.
* The contents of EC responses, device identity and the checks of
  `LinuxBackend.open`; they end the process or do nothing.
* The firmware or another program using the ports at the same time: the hardware
  lock only keeps out another instance of this program.
* A command that a slow EC performs after its call failed is in Mailbox and
  EcService. In Controller a failed call has its effect at once or never, which
  nothing there can tell apart, since the report is `unknown` from then on and
  only `close()` follows.
* In `Controller`, the failure of a task that is not an EC failure (a bug).
* A `write_health` that fails (a full or read-only file system): in Supervision
  every record that is due is written.
* That a long announcement delays commands and results: MqttAnnounce and
  MqttCommands are the two halves of one worker, and are not composed.
* Discovery documents, YAML, units, the checks of a command's payload, finding
  and parsing sysfs files and smartctl output: data conversion without control.
  The subcommands of `cli.py` that only read, and the secrets and certificates of
  `prepare_mqtt`, which are read before anything starts.
* The hardware lock, a guard that only ever ends a process.

## 6. Plan

Done: Controller with FanService, Policy and FanGates, Mailbox with EcService, in
the order of what would hurt most; then MqttAnnounce; then Supervision, Runtime
with Collector, and MqttCommands, with the theorems of each.

The theorems came in this order: the invariants of Controller and of the mailbox,
with the refinement of EcService; stop and types of MqttAnnounce, Supervision,
Runtime, commands; then the refinement of FanService, the delays of FanGates, the
rest of MqttAnnounce and of the commands.

Next, what carries the liveness and can be proved without fairness: the step
properties by which a waiting call comes closer to its answer (the place in the
queue and the place of the running operation of Controller, the deadline of the
mailbox, the topics an announcement has still to do), and that the duties FanGates
computes are ones that Controller's `Targets` allows.

## 7. Running

    tlc -config MCController_service.cfg MCController
    tlapm Controller_proof.tla

`*_proof.tla` need the TLAPS library; the models use the standard modules only.
