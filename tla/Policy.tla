------------------------------- MODULE Policy -------------------------------
(***************************************************************************)
(* The fan policy of src/ha_nuc9_ec/policy.py: from the samples of the     *)
(* sources to a duty per fan.  Everything here is a pure operator.         *)
(*                                                                         *)
(* A sample is [ok, celsius, age]: ok is FALSE for an error entry or one   *)
(* without a temperature, age is clock() - read_at.  An optional setting   *)
(* is a set of at most one value, {} standing for Python's None.           *)
(***************************************************************************)
EXTENDS Integers

CONSTANTS
  Fans,         \* cpufan and sysfan
  Sources,      \* temperature sources
  Lower, Upper, \* duty_bounds of the backend
  StaleAfter    \* StaleAfter[s]: stale_after of source s

\* calculate() raises ValueError for other bounds.
ASSUME BoundsAssumption ==
  /\ Lower \in 0..100
  /\ Upper \in Lower..100

Curve == [from : Int, minimum : 0..100, rise : Nat, per : Nat \ {0}]

Input == [curve : Curve, boostAbove : SUBSET Int, increaseDelay : SUBSET Nat]

\* A fan is fixed, or follows the inputs in the domain of `inputs`.
IsFanConfig(fan) ==
  /\ fan.fixed \subseteq 0..100
  /\ fan.minimum \in 0..100
  /\ DOMAIN fan.inputs \subseteq Sources
  /\ \A s \in DOMAIN fan.inputs : fan.inputs[s] \in Input
  /\ fan.fixed # {} \/ DOMAIN fan.inputs # {}

AtMost(limit, x) == IF x > limit THEN limit ELSE x
AtLeast(limit, x) == IF x < limit THEN limit ELSE x
Largest(S) == CHOOSE x \in S : \A y \in S : y <= x

\* curve_duty: rounded up, so that a rising temperature never rounds a duty
\* down.  The slope is the fraction rise / per; the code clamps before ceil,
\* which is the same for the integer limit Upper.
CurveDuty(temp, curve) ==
  LET climb == AtLeast(0, temp - curve.from) * curve.rise
  IN  AtMost(Upper, curve.minimum + (climb + curve.per - 1) \div curve.per)

\* _sample does not raise SourceUnavailable.
UsableSample(s, sample) == sample.ok /\ sample.age <= StaleAfter[s]

\* _input_duty
InputDuty(item, sample) == CurveDuty(sample.celsius, item.curve)
Boosted(item, sample) == \E limit \in item.boostAbove : sample.celsius >= limit

IsFixed(fan) == fan.fixed # {}
Inputs(fan) == IF IsFixed(fan) THEN {} ELSE DOMAIN fan.inputs

\* Mutant: the floors of the fan and of the EC are forgotten.
ClampFromAbove(fan, duty) == AtMost(Upper, duty)

\* The final clamp of _fan_duty and of UpshiftGate.apply.
Clamp(fan, duty) == AtMost(Upper, AtLeast(AtLeast(Lower, fan.minimum), duty))

\* _fan_duty
FanDuty(fan, samples) ==
  Clamp(fan,
        IF IsFixed(fan) THEN Largest(fan.fixed)
        ELSE IF \E s \in Inputs(fan) : Boosted(fan.inputs[s], samples[s])
             THEN Upper
             ELSE Largest({InputDuty(fan.inputs[s], samples[s]) : s \in Inputs(fan)}))

\* calculate() raises SourceUnavailable unless every named source is usable.
Calculable(fans, samples) ==
  \A f \in Fans : \A s \in Inputs(fans[f]) : UsableSample(s, samples[s])

Calculate(fans, samples) == [f \in Fans |-> FanDuty(fans[f], samples)]

=============================================================================
