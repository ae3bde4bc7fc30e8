----------------------------- MODULE MCFanGates -----------------------------
(***************************************************************************)
(* FanGates for TLC: a fan with two inputs of which one boosts past its    *)
(* delay, one of which one waits, a fan with a patient input, a fixed one. *)
(***************************************************************************)
EXTENDS FanGates

CONSTANTS cpufan, sysfan, cpu, disk

MCStaleAfter == [s \in {cpu, disk} |-> IF s = cpu THEN 1 ELSE 0]

MCInput(minimum, boostAbove, delay) ==
  [curve |-> [from |-> 1, minimum |-> minimum, rise |-> 35, per |-> 2],
   boostAbove |-> boostAbove, increaseDelay |-> delay]

\* 1 asks for `minimum`, 3 for 35 more, or boosts the fan where `boostAbove` is
\* set.  Otherwise the cpu's input waits while the disk's raises the fan at once.
TwoInputs(boostAbove) ==
  [fixed |-> {}, minimum |-> 40,
   inputs |-> [s \in {cpu, disk} |-> IF s = cpu THEN MCInput(30, boostAbove, {1})
                                               ELSE MCInput(20, {}, {})]]
OneInput(s, delay) ==
  [fixed |-> {}, minimum |-> 30, inputs |-> [x \in {s} |-> MCInput(60, {}, {delay})]]
Fixed == [fixed |-> {20}, minimum |-> 30, inputs |-> [s \in {} |-> 0]]

MCSetting(cpuPart, sysPart, delay) ==
  [fans |-> [f \in {cpufan, sysfan} |-> IF f = cpufan THEN cpuPart ELSE sysPart],
   decreaseDelay |-> delay]

\* The boosting input makes one fan jump while the other is patient.
MCSettings == {MCSetting(TwoInputs({2}), OneInput(disk, 2), 1),
               MCSetting(TwoInputs({}), Fixed, 0)}

=============================================================================
