------------------------------ MODULE FanGates ------------------------------
(***************************************************************************)
(* The two gates between the policy and the EC: UpshiftGate, which lets an *)
(* input raise a fan only after it has asked for it without a break for    *)
(* its increase_delay, and DownshiftGate, which lowers a fan only after    *)
(* the ticks of decrease_delay all wanted it lower.  They live in the      *)
(* Controller, whose tick(), _apply() and on_sample() drive them; those    *)
(* are modelled here as far as they reach the gates, for a controller in   *)
(* override mode.  Module Controller has the rest.                         *)
(*                                                                         *)
(* Time is kept as ages: a timestamp t is represented by now - t, capped   *)
(* above every threshold: at AgeCap, and where a sample is stale for good; *)
(* so time need not be bounded.                                            *)
(***************************************************************************)
EXTENDS Policy

CONSTANTS
  Temps,        \* temperatures a source may report
  Settings,     \* override configurations [fans, decreaseDelay]
  AgeCap        \* bound: ages at or above it are all alike

ASSUME GatesAssumption ==
  /\ Temps \subseteq Int
  /\ \A c \in Settings : \A f \in Fans : IsFanConfig(c.fans[f])
  /\ AgeCap \in Nat
  /\ \A c \in Settings : c.decreaseDelay \in 0 .. AgeCap - 1
  /\ \A c \in Settings, f \in Fans : \A s \in Inputs(c.fans[f]) :
       \A d \in c.fans[f].inputs[s].increaseDelay : d < AgeCap
  /\ \A s \in Sources : StaleAfter[s] \in 0 .. AgeCap - 1

Never == -1   \* no timestamp

Ages == 0..AgeCap
Older(age) == IF age = Never THEN Never ELSE AtMost(AgeCap, age + 1)

VARIABLES
  config,       \* the effective configuration
  samples,      \* _samples
  duty,         \* _duty, by fan
  current,      \* DownshiftGate._current
  lowerSince,   \* DownshiftGate._lower_since, as ages
  higherSince,  \* UpshiftGate._higher_since, as ages
  write,        \* the EC write under way: its kind, target and configuration
  faulted       \* a required source was lost: the controller is at its end

controller == <<config, samples, duty, current, lowerSince, higherSince, write,
                faulted>>

VARIABLES
  asking,       \* history: how long the samples of an input have, without a
                \* break, made it wait to raise its fan's confirmed duty
  calm          \* history: how long all ticks have wanted fan f lower

vars == <<controller, asking, calm>>

-----------------------------------------------------------------------------
(* UpshiftGate.                                                            *)

\* An input's demand that has to wait: more than the confirmed duty, no boost.
Waits(item, sample, target) ==
  /\ item.increaseDelay # {}
  /\ ~Boosted(item, sample)
  /\ InputDuty(item, sample) > target

\* apply(), for one input: the start of its wait, and what it may ask for now.
Since(f, s) ==
  IF Waits(config.fans[f].inputs[s], samples[s], duty[f])
  THEN AtLeast(0, higherSince[f][s]) ELSE Never

Granted(f, s) ==
  LET item == config.fans[f].inputs[s]
  IN  IF /\ Waits(item, samples[s], duty[f])
         /\ \E d \in item.increaseDelay : Since(f, s) < d
      THEN duty[f] ELSE InputDuty(item, samples[s])

\* apply(), for one fan.
Wanted(f) ==
  LET fan == config.fans[f]
  IN  IF IsFixed(fan) THEN FanDuty(fan, samples)
      ELSE Clamp(fan, IF \E s \in Inputs(fan) : Boosted(fan.inputs[s], samples[s])
                      THEN Upper ELSE Largest({Granted(f, s) : s \in Inputs(fan)}))

ApplyUpshift ==
  higherSince' = [f \in Fans |-> [s \in Sources |->
    IF s \in Inputs(config.fans[f]) THEN Since(f, s) ELSE higherSince[f][s]]]

\* Mutant: only a failed sample breaks it, as apply() has the low ones covered.
BreaksOnFailure(f, s, sample) == s \in Inputs(config.fans[f]) /\ ~sample.ok

\* observe(): a sample that does not have to wait breaks the wait.
Breaks(f, s, sample) ==
  /\ s \in Inputs(config.fans[f])
  /\ sample.ok => ~Waits(config.fans[f].inputs[s], sample, duty[f])

Observe(s, sample) ==
  higherSince' = [f \in Fans |->
    IF Breaks(f, s, sample) THEN [higherSince[f] EXCEPT ![s] = Never]
                            ELSE higherSince[f]]

\* Mutant: one map of waits, cleared as a whole.
ConfirmedClearsAll(target) ==
  higherSince' = IF target = duty THEN higherSince
                 ELSE [f \in Fans |-> [s \in Sources |-> Never]]

\* confirmed(): a new target is a new baseline, for that fan only.
Confirmed(target) ==
  higherSince' = [f \in Fans |->
    IF target[f] # duty[f] THEN [s \in Sources |-> Never] ELSE higherSince[f]]

-----------------------------------------------------------------------------
(* DownshiftGate.                                                          *)

\* Mutant: each tick starts the time anew.
LowerForThisTick(f) == 0

LowerFor(f) == AtLeast(0, lowerSince[f])

\* Mutant: a gate that debounces both directions.
PassesInTime(f) == Wanted(f) = current[f] \/ LowerFor(f) >= config.decreaseDelay

\* apply(), for one fan: a rise passes at once, a fall when its time is up.
Passes(f) == Wanted(f) >= current[f] \/ LowerFor(f) >= config.decreaseDelay

Gated == [f \in Fans |-> IF Passes(f) THEN Wanted(f) ELSE current[f]]

\* Mutant: the time is not cleared when the fan is wanted high again.
ApplyDownshiftKeepsTime ==
  /\ current' = Gated
  /\ lowerSince' = [f \in Fans |->
       IF Wanted(f) >= current[f] THEN lowerSince[f]
       ELSE IF Passes(f) THEN Never ELSE LowerFor(f)]

ApplyDownshift ==
  /\ current' = Gated
  /\ lowerSince' = [f \in Fans |-> IF Passes(f) THEN Never ELSE LowerFor(f)]

-----------------------------------------------------------------------------
(* The controller around the gates.                                        *)

NoWrite == [kind |-> "none", target |-> duty, config |-> config]

Free == write.kind = "none" /\ ~faulted

\* The history of an input's demand, after a sample or a new baseline.
Asking(c, f, s, sample, target, before) ==
  IF /\ s \in Inputs(c.fans[f])
     /\ sample.ok
     /\ Waits(c.fans[f].inputs[s], sample, target)
  THEN AtLeast(0, before) ELSE Never

Elapse ==
  /\ samples' = [s \in Sources |->
       [samples[s] EXCEPT !.age = AtMost(StaleAfter[s] + 1, @ + 1)]]
  /\ lowerSince' = [f \in Fans |-> Older(lowerSince[f])]
  /\ higherSince' = [f \in Fans |-> [s \in Sources |-> Older(higherSince[f][s])]]
  /\ asking' = [f \in Fans |-> [s \in Sources |-> Older(asking[f][s])]]
  /\ calm' = [f \in Fans |-> Older(calm[f])]
  /\ UNCHANGED <<config, duty, current, write, faulted>>

\* on_sample: a reading, or an error entry.  It may come while the EC writes.
OnSample(s) == \E ok \in BOOLEAN, celsius \in Temps :
  LET sample == [ok |-> ok, celsius |-> celsius, age |-> 0]
  IN  /\ Observe(s, sample)
      /\ samples' = [samples EXCEPT ![s] = sample]
      /\ asking' = [f \in Fans |->
           [asking[f] EXCEPT ![s] = Asking(config, f, s, sample, duty[f], @)]]
      /\ UNCHANGED <<config, duty, current, lowerSince, write, faulted, calm>>

\* _sensor_failure: max_then_exit, which no gate delays (module Controller).
LoseSensor ==
  /\ faulted' = TRUE
  /\ UNCHANGED <<config, samples, duty, current, lowerSince, higherSince, write,
                 asking, calm>>

TickLoses == Free /\ ~Calculable(config.fans, samples) /\ LoseSensor

\* tick(), up to its await if there is something to write.
Tick ==
  /\ Free
  /\ Calculable(config.fans, samples)
  /\ ApplyUpshift
  /\ ApplyDownshift
  /\ write' = IF Gated = duty THEN write
              ELSE [kind |-> "tick", target |-> Gated, config |-> config]
  /\ calm' = [f \in Fans |-> IF Wanted(f) >= current[f] \/ Gated[f] # current[f]
                             THEN 0 ELSE calm[f]]
  /\ UNCHANGED <<config, samples, duty, faulted, asking>>

TickWritten ==
  /\ write.kind = "tick"
  /\ UNCHANGED <<config, samples, current, lowerSince, faulted, calm>>
  /\ Confirmed(write.target)
  /\ duty' = write.target
  /\ write' = NoWrite'
  /\ asking' = [f \in Fans |-> [s \in Sources |->
       IF write.target[f] = duty[f] THEN asking[f][s]
       ELSE Asking(config, f, s, samples[s], write.target[f], Never)]]

\* A command: _apply calculates the policy without the gates.
Apply(c) ==
  /\ Free
  /\ Calculable(c.fans, samples)
  /\ write' = [kind |-> "apply", target |-> Calculate(c.fans, samples),
               config |-> c]
  /\ UNCHANGED <<config, samples, duty, current, lowerSince, higherSince,
                 faulted, asking, calm>>

ApplyLoses(c) == Free /\ ~Calculable(c.fans, samples) /\ LoseSensor

\* Mutant: the gate of the old configuration stays.
AppliedKeepsGate ==
  /\ write.kind = "apply"
  /\ config' = write.config
  /\ duty' = write.target
  /\ higherSince' = [f \in Fans |-> [s \in Sources |-> Never]]
  /\ write' = NoWrite'
  /\ asking' = [f \in Fans |-> [s \in Sources |-> Never]]
  /\ calm' = [f \in Fans |-> 0]
  /\ UNCHANGED <<samples, current, lowerSince, faulted>>

\* The command commits: new gates, the new pair applied to them at once.
Applied ==
  /\ write.kind = "apply"
  /\ config' = write.config
  /\ duty' = write.target
  /\ current' = write.target
  /\ lowerSince' = [f \in Fans |-> Never]
  /\ higherSince' = [f \in Fans |-> [s \in Sources |-> Never]]
  /\ write' = NoWrite'
  /\ asking' = [f \in Fans |-> [s \in Sources |->
       Asking(write.config, f, s, samples[s], write.target[f], Never)]]
  /\ calm' = [f \in Fans |-> 0]
  /\ UNCHANGED <<samples, faulted>>

\* start() has applied the configuration read from the file.
Init ==
  /\ config \in Settings
  /\ samples \in [Sources -> [ok : {TRUE}, celsius : Temps, age : {0}]]
  /\ duty = Calculate(config.fans, samples)
  /\ current = duty
  /\ lowerSince = [f \in Fans |-> Never]
  /\ higherSince = [f \in Fans |-> [s \in Sources |-> Never]]
  /\ write = NoWrite
  /\ faulted = FALSE
  /\ asking = [f \in Fans |-> [s \in Sources |-> Never]]
  /\ calm = [f \in Fans |-> 0]

Next ==
  \/ Elapse
  \/ \E s \in Sources : OnSample(s)
  \/ Tick \/ TickLoses \/ TickWritten
  \/ \E c \in Settings : Apply(c) \/ ApplyLoses(c)
  \/ Applied

SafetySpec == Init /\ [][Next]_vars

\* Time passes, Runtime ticks again and again, and the EC answers.  Samples and
\* commands owe nothing: they may turn up between any two ticks, so that a tick
\* is only possible again and again, never for good.
Spec == SafetySpec /\ WF_vars(Elapse) /\ SF_vars(Tick \/ TickLoses)
          /\ WF_vars(TickWritten) /\ WF_vars(Applied)

-----------------------------------------------------------------------------
(* Properties.                                                             *)

Pair == [Fans -> Lower..Upper]

\* Types; and no pair outside the bounds is ever confirmed or sent to the EC,
\* whatever the configuration and the temperatures.
TypeOK ==
  /\ config \in Settings
  /\ samples \in [Sources -> [ok : BOOLEAN, celsius : Temps, age : Ages]]
  /\ duty \in Pair
  /\ current \in Pair
  /\ lowerSince \in [Fans -> Ages \cup {Never}]
  /\ higherSince \in [Fans -> [Sources -> Ages \cup {Never}]]
  /\ write \in [kind : {"none", "tick", "apply"}, target : Pair,
                config : Settings]
  /\ faulted \in BOOLEAN
  /\ asking \in [Fans -> [Sources -> Ages \cup {Never}]]
  /\ calm \in [Fans -> Ages]

\* The downshift gate and the controller keep the confirmed pair each on its
\* own; they agree unless a tick's write is under way, and then the gate is at
\* the target.  A command's write leaves them alone until it is confirmed.
GateTracksDuty == current = IF write.kind = "tick" THEN write.target ELSE duty

TickWrites == write.kind = "none" /\ write'.kind = "tick"

\* A tick raises a fan only for an input that boosts, or that has asked for it
\* by itself for its whole increase_delay, in every sample that arrived, not
\* only in those the ticks happened to see.
RiseIsEarned ==
  [][TickWrites => \A f \in Fans : write'.target[f] > duty[f] =>
       \E s \in Inputs(config.fans[f]) :
         LET item == config.fans[f].inputs[s]
         IN  \/ Boosted(item, samples[s])
             \/ /\ InputDuty(item, samples[s]) >= write'.target[f]
                /\ \A d \in item.increaseDelay : asking[f][s] >= d]_vars

\* A tick lowers a fan only if, for decrease_delay, all ticks wanted it lower.
LoweringIsEarned ==
  [][TickWrites => \A f \in Fans : write'.target[f] < duty[f] =>
       calm[f] >= config.decreaseDelay]_vars

\* No delay holds back a boost: the tick that sees it sends the maximum.
BoostIsImmediate ==
  [][Tick => \A f \in Fans :
       (\E s \in Inputs(config.fans[f]) :
          Boosted(config.fans[f].inputs[s], samples[s]))
       => Gated[f] = Upper]_vars

\* An input that keeps asking for more gets it: neither the other fan's changes
\* nor new readings that ask for more, too, restart its wait for ever.
RiseHappens ==
  \A f \in Fans, s \in Sources :
    asking[f][s] # Never ~> asking[f][s] = Never \/ faulted

\* A fan does not stay above what its policy asks for for ever.
LoweringHappens ==
  \A f \in Fans :
    ~<>[](~faulted /\ FanDuty(config.fans[f], samples) < duty[f])

=============================================================================
