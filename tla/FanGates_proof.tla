---------------------------- MODULE FanGates_proof ----------------------------
(***************************************************************************)
(* Theorems about module FanGates, for all settings, curves and delays.    *)
(***************************************************************************)
EXTENDS FanGates, TLAPS, WellFoundedInduction

-----------------------------------------------------------------------------
(* The policy: every duty it calculates is within the bounds.              *)

\* A bounded set of numbers has a largest member.
LEMMA LargestNatural ==
  ASSUME NEW n \in Nat, NEW T, T \subseteq 0..n, T # {}
  PROVE  /\ Largest(T) \in T
         /\ \A y \in T : y <= Largest(T)
<1> DEFINE R == {p \in Nat \X Nat : p[1] < p[2]}
           D == {n - y : y \in T}
<1>1. R = OpToRel(<, Nat)
  BY DEF OpToRel
<1>2. IsWellFoundedOn(R, Nat)
  BY <1>1, NatLessThanWellFounded
<1>3. D \subseteq Nat /\ D # {}
  <2>1. \A y \in T : y \in Int /\ n - y \in Nat
    OBVIOUS
  <2> QED
    BY <2>1
<1> HIDE DEF D, R
<1>4. PICK d \in D : \A e \in D : ~(<<e, d>> \in R)
  BY <1>2, <1>3, WFMin
<1>5. \A e \in D : ~(e < d)
  BY <1>3, <1>4 DEF R
<1>6. PICK x \in T : d = n - x
  BY DEF D
<1>7. ASSUME NEW y \in T
      PROVE  y <= x
  <2>1. n - y \in D
    BY DEF D
  <2>2. ~(n - y < n - x)
    BY <1>5, <1>6, <2>1
  <2>3. x \in Int /\ y \in Int
    OBVIOUS
  <2> QED
    BY <2>2, <2>3
<1> QED
  BY <1>7 DEF Largest

\* Clamping leads into the bounds, and does nothing there to what it clamped.
LEMMA ClampFits ==
  ASSUME NEW fan, fan.minimum \in 0..100, NEW d \in Int
  PROVE  /\ Clamp(fan, d) \in Lower..Upper
         /\ Clamp(fan, Clamp(fan, d)) = Clamp(fan, d)
         /\ d <= Upper => d <= Clamp(fan, d)
         /\ Clamp(fan, Upper) = Upper
         /\ \A low \in Int : low = Clamp(fan, low) /\ Clamp(fan, d) > low
              => d >= Clamp(fan, d)
BY BoundsAssumption DEF Clamp, AtMost, AtLeast

\* A curve never leaves 0..Upper.
LEMMA CurveFits ==
  ASSUME NEW curve \in Curve, NEW temp \in Int
  PROVE  CurveDuty(temp, curve) \in 0..Upper
<1> DEFINE above == AtLeast(0, temp - curve.from)
           climb == above * curve.rise
           steps == (climb + curve.per - 1) \div curve.per
<1>1. /\ curve.from \in Int /\ curve.minimum \in 0..100 /\ curve.rise \in Nat
      /\ curve.per \in Nat /\ curve.per > 0
  BY DEF Curve
<1>2. above \in Nat
  BY <1>1 DEF AtLeast
<1>3. climb \in Nat
  <2> HIDE DEF above
  <2> QED
    BY <1>1, <1>2
<1>4. climb + curve.per - 1 \in Nat
  <2> HIDE DEF climb
  <2> QED
    BY <1>1, <1>3
<1>5. steps \in Nat
  <2> DEFINE top == climb + curve.per - 1
  <2>1. top \in Nat /\ curve.per \in Nat \ {0}
    BY <1>1, <1>4
  <2> HIDE DEF top
  <2>2. top \div curve.per \in Nat
    BY <2>1
  <2> QED
    BY <2>2 DEF top
<1>6. CurveDuty(temp, curve) = AtMost(Upper, curve.minimum + steps)
  BY DEF CurveDuty
<1> HIDE DEF steps
<1> QED
  BY <1>1, <1>5, <1>6, BoundsAssumption DEF AtMost


\* What a configuration that passed validation says of a fan.
LEMMA FanConfigFacts ==
  ASSUME NEW c \in Settings, NEW f \in Fans
  PROVE  /\ c.fans[f].minimum \in 0..100
         /\ c.fans[f].fixed \subseteq 0..100
         /\ Inputs(c.fans[f]) \subseteq Sources
         /\ ~IsFixed(c.fans[f]) => Inputs(c.fans[f]) # {}
         /\ IsFixed(c.fans[f]) => Inputs(c.fans[f]) = {} /\ c.fans[f].fixed # {}
         /\ \A s \in Inputs(c.fans[f]) :
              /\ c.fans[f].inputs[s].curve \in Curve
              /\ c.fans[f].inputs[s].boostAbove \subseteq Int
              /\ c.fans[f].inputs[s].increaseDelay \subseteq Nat
         /\ c.decreaseDelay \in Nat
<1> DEFINE fan == c.fans[f]
<1>1. IsFanConfig(fan) /\ c.decreaseDelay \in 0 .. AgeCap - 1
  BY GatesAssumption
<1>2. c.decreaseDelay \in Nat
  BY <1>1, GatesAssumption
<1> HIDE DEF fan
<1>3. /\ fan.minimum \in 0..100 /\ fan.fixed \subseteq 0..100
      /\ DOMAIN fan.inputs \subseteq Sources
      /\ \A s \in DOMAIN fan.inputs : fan.inputs[s] \in Input
      /\ fan.fixed # {} \/ DOMAIN fan.inputs # {}
  BY <1>1 DEF IsFanConfig
<1>4. \A item \in Input : /\ item.curve \in Curve /\ item.boostAbove \subseteq Int
                          /\ item.increaseDelay \subseteq Nat
  BY DEF Input
<1> QED
  BY <1>2, <1>3, <1>4 DEF Inputs, IsFixed, fan

\* What an input asks for.
LEMMA InputFits ==
  ASSUME NEW c \in Settings, NEW f \in Fans, NEW s \in Inputs(c.fans[f]),
         NEW sample, sample.celsius \in Temps
  PROVE  InputDuty(c.fans[f].inputs[s], sample) \in 0..Upper
BY FanConfigFacts, CurveFits, GatesAssumption DEF InputDuty

\* The duty of a fan is what its fixed value, its boost or its inputs ask for,
\* clamped.
LEMMA FanDutyFits ==
  ASSUME NEW c \in Settings, NEW f \in Fans, NEW view,
         \A s \in Sources : view[s].celsius \in Temps
  PROVE  /\ FanDuty(c.fans[f], view) \in Lower..Upper
         /\ \E d \in 0..100 : FanDuty(c.fans[f], view) = Clamp(c.fans[f], d)
         /\ IsFixed(c.fans[f]) =>
              FanDuty(c.fans[f], view) = Clamp(c.fans[f], Largest(c.fans[f].fixed))
         /\ \A s \in Inputs(c.fans[f]) :
              InputDuty(c.fans[f].inputs[s], view[s]) <= FanDuty(c.fans[f], view)
<1> DEFINE fan == c.fans[f]
           D(s) == InputDuty(fan.inputs[s], view[s])
<1>1. fan.minimum \in 0..100
  BY FanConfigFacts
<1>2. \A s \in Inputs(fan) : D(s) \in 0..Upper
  BY InputFits, FanConfigFacts
<1>3. Upper \in 0..100
  BY BoundsAssumption
<1>4. ASSUME NEW d \in 0..100, FanDuty(fan, view) = Clamp(fan, d)
      PROVE  FanDuty(fan, view) \in Lower..Upper
  BY <1>1, <1>4, ClampFits
<1>5. CASE IsFixed(fan)
  <2>1. fan.fixed \subseteq 0..100 /\ fan.fixed # {} /\ Inputs(fan) = {}
    BY <1>5, FanConfigFacts
  <2>2. Largest(fan.fixed) \in 0..100
    BY <2>1, LargestNatural
  <2>3. FanDuty(fan, view) = Clamp(fan, Largest(fan.fixed))
    BY <1>5 DEF FanDuty
  <2> QED
    BY <1>4, <2>1, <2>2, <2>3
<1>6. CASE ~IsFixed(fan) /\ \E s \in Inputs(fan) : Boosted(fan.inputs[s], view[s])
  <2>1. FanDuty(fan, view) = Clamp(fan, Upper)
    BY <1>6 DEF FanDuty
  <2>2. Clamp(fan, Upper) = Upper
    BY <1>1, <1>3, ClampFits
  <2> QED
    BY <1>2, <1>3, <1>4, <1>6, <2>1, <2>2
<1>7. CASE ~IsFixed(fan) /\ ~\E s \in Inputs(fan) : Boosted(fan.inputs[s], view[s])
  <2> DEFINE top == Largest({D(s) : s \in Inputs(fan)})
  <2>1. FanDuty(fan, view) = Clamp(fan, top)
    BY <1>7 DEF FanDuty
  <2>2. top \in 0..Upper /\ \A s \in Inputs(fan) : D(s) <= top
    <3> DEFINE T == {D(s) : s \in Inputs(fan)}
    <3>1. T \subseteq 0..Upper /\ T # {} /\ Upper \in Nat
      BY <1>2, <1>3, <1>7, FanConfigFacts
    <3>2. Largest(T) \in T /\ \A y \in T : y <= Largest(T)
      BY <3>1, LargestNatural
    <3> QED
      BY <3>1, <3>2
  <2> HIDE DEF top
  <2>3. top \in 0..100 /\ top \in Int /\ top <= Upper
    BY <1>3, <2>2
  <2>4. top <= Clamp(fan, top) /\ Clamp(fan, top) \in Lower..Upper
    BY <1>1, <2>3, ClampFits
  <2>5. \A s \in Inputs(fan) : D(s) <= Clamp(fan, top)
    <3> SUFFICES ASSUME NEW s \in Inputs(fan)
                 PROVE  D(s) <= Clamp(fan, top)
      OBVIOUS
    <3>1. D(s) \in 0..Upper /\ D(s) <= top
      BY <1>2, <2>2
    <3>2. Clamp(fan, top) \in Int
      BY <2>4, BoundsAssumption
    <3> HIDE DEF D, fan
    <3> QED
      BY <1>3, <2>3, <2>4, <3>1, <3>2
  <2> QED
    BY <1>4, <1>7, <2>1, <2>3, <2>5
<1> QED
  BY <1>5, <1>6, <1>7

\* Multiplication and rounding division keep the order.
LEMMA ProductsKeepOrder ==
  ASSUME NEW a \in Nat, NEW b \in Nat, NEW r \in Nat, a <= b
  PROVE  a * r \in Nat /\ b * r \in Nat /\ a * r <= b * r
<1>1. PICK d \in Nat : b = a + d
  <2>1. b - a \in Nat /\ b = a + (b - a)
    OBVIOUS
  <2> QED
    BY <2>1
<1>2. a * r \in Nat /\ d * r \in Nat
  OBVIOUS
<1>3. b * r = a * r + d * r
  BY <1>1
<1> QED
  BY <1>2, <1>3

LEMMA QuotientsKeepOrder ==
  ASSUME NEW a \in Nat, NEW b \in Nat, NEW p \in Nat \ {0}, a <= b
  PROVE  a \div p \in Nat /\ b \div p \in Nat /\ a \div p <= b \div p
<1> DEFINE q == a \div p
           t == b \div p
<1>1. /\ q \in Nat /\ t \in Nat
      /\ p * q <= a
      /\ b < p * (t + 1)
  OBVIOUS
<1> HIDE DEF q, t
<1>2. ASSUME t < q
      PROVE  FALSE
  <2>1. t + 1 \in Nat /\ t + 1 <= q
    BY <1>1, <1>2
  <2>2. (t + 1) * p <= q * p
    BY <1>1, <2>1, ProductsKeepOrder
  <2>3. (t + 1) * p = p * (t + 1) /\ q * p = p * q
    BY <1>1
  <2>4. p * (t + 1) \in Int /\ p * q \in Int
    BY <1>1
  <2> QED
    BY <1>1, <2>2, <2>3, <2>4
<1>3. q <= t
  BY <1>1, <1>2
<1> QED
  BY <1>1, <1>3 DEF q, t

\* A curve rises with the temperature, for all its rounding (policy.py:
\* curve_duty).
LEMMA CurveKeepsOrder ==
  ASSUME NEW curve \in Curve, NEW cool \in Int, NEW hot \in Int, cool <= hot
  PROVE  CurveDuty(cool, curve) <= CurveDuty(hot, curve)
<1> DEFINE above(t) == AtLeast(0, t - curve.from)
           climb(t) == above(t) * curve.rise
           steps(t) == (climb(t) + curve.per - 1) \div curve.per
<1>1. /\ curve.from \in Int /\ curve.minimum \in 0..100 /\ curve.rise \in Nat
      /\ curve.per \in Nat \ {0}
  BY DEF Curve
<1>2. above(cool) \in Nat /\ above(hot) \in Nat /\ above(cool) <= above(hot)
  BY <1>1 DEF AtLeast
<1>3. climb(cool) \in Nat /\ climb(hot) \in Nat /\ climb(cool) <= climb(hot)
  <2> HIDE DEF above
  <2> QED
    BY <1>1, <1>2, ProductsKeepOrder
<1>4. steps(cool) \in Nat /\ steps(hot) \in Nat /\ steps(cool) <= steps(hot)
  <2> HIDE DEF climb
  <2> DEFINE low == climb(cool) + curve.per - 1
             high == climb(hot) + curve.per - 1
  <2>1. low \in Nat /\ high \in Nat /\ low <= high
    BY <1>1, <1>3
  <2> HIDE DEF low, high
  <2>2. low \div curve.per \in Nat /\ high \div curve.per \in Nat
        /\ low \div curve.per <= high \div curve.per
    BY <1>1, <2>1, QuotientsKeepOrder
  <2> QED
    BY <2>2 DEF low, high
<1>5. \A t \in {cool, hot} :
        CurveDuty(t, curve) = AtMost(Upper, curve.minimum + steps(t))
  BY DEF CurveDuty
<1> HIDE DEF steps
<1> QED
  BY <1>1, <1>4, <1>5, BoundsAssumption DEF AtMost

\* No fan gets a lower target because the machine is hotter: not through a
\* boost, the choice among several inputs, the rounding of a curve or a clamp
\* (policy.py:calculate).
THEOREM HotterIsNeverSlower ==
  ASSUME NEW c \in Settings, NEW f \in Fans, NEW cool, NEW hot,
         \A s \in Sources : /\ cool[s].celsius \in Temps
                            /\ hot[s].celsius \in Temps
                            /\ cool[s].celsius <= hot[s].celsius
  PROVE  FanDuty(c.fans[f], cool) <= FanDuty(c.fans[f], hot)
<1> DEFINE fan == c.fans[f]
           D(view, s) == InputDuty(fan.inputs[s], view[s])
           T(view) == {D(view, s) : s \in Inputs(fan)}
           Hurries(view) == \E s \in Inputs(fan) : Boosted(fan.inputs[s], view[s])
<1>1. /\ fan.minimum \in 0..100
      /\ Inputs(fan) \subseteq Sources
      /\ Upper \in 0..100 /\ Lower \in 0..100
  BY FanConfigFacts, BoundsAssumption
<1>2. \A s \in Inputs(fan) :
        /\ D(cool, s) \in 0..Upper /\ D(hot, s) \in 0..Upper
        /\ D(cool, s) <= D(hot, s)
  <2> TAKE s \in Inputs(fan)
  <2>1. /\ cool[s].celsius \in Temps /\ hot[s].celsius \in Temps
        /\ cool[s].celsius <= hot[s].celsius
        /\ fan.inputs[s].curve \in Curve /\ Temps \subseteq Int
    BY <1>1, FanConfigFacts, GatesAssumption
  <2>2. D(cool, s) \in 0..Upper /\ D(hot, s) \in 0..Upper
    BY <2>1, InputFits
  <2>3. D(cool, s) <= D(hot, s)
    BY <2>1, CurveKeepsOrder DEF InputDuty
  <2> QED
    BY <2>2, <2>3
<1>3. Hurries(cool) => Hurries(hot)
  <2> SUFFICES ASSUME NEW s \in Inputs(fan), Boosted(fan.inputs[s], cool[s])
               PROVE  Boosted(fan.inputs[s], hot[s])
    OBVIOUS
  <2>1. PICK limit \in fan.inputs[s].boostAbove : cool[s].celsius >= limit
    BY DEF Boosted
  <2>2. limit \in Int /\ cool[s].celsius \in Int /\ hot[s].celsius \in Int
        /\ cool[s].celsius <= hot[s].celsius
    BY <1>1, FanConfigFacts, GatesAssumption
  <2>3. hot[s].celsius >= limit
    BY <2>1, <2>2
  <2> QED
    BY <2>3 DEF Boosted
<1>4. \A x \in Int, y \in Int : x <= y => Clamp(fan, x) <= Clamp(fan, y)
  BY <1>1 DEF Clamp, AtMost, AtLeast
<1>5. CASE IsFixed(fan)
  <2>1. FanDuty(fan, cool) = FanDuty(fan, hot)
    BY <1>5 DEF FanDuty
  <2>2. FanDuty(fan, hot) \in Lower..Upper
    BY FanDutyFits
  <2> QED
    BY <1>1, <2>1, <2>2
<1>6. CASE ~IsFixed(fan) /\ Hurries(hot)
  <2>1. FanDuty(fan, hot) = Clamp(fan, Upper) /\ Clamp(fan, Upper) = Upper
    BY <1>1, <1>6, ClampFits DEF FanDuty
  <2>2. FanDuty(fan, cool) \in Lower..Upper
    BY FanDutyFits
  <2> QED
    BY <1>1, <2>1, <2>2
<1>7. CASE ~IsFixed(fan) /\ ~Hurries(hot)
  <2>1. /\ FanDuty(fan, cool) = Clamp(fan, Largest(T(cool)))
        /\ FanDuty(fan, hot) = Clamp(fan, Largest(T(hot)))
    BY <1>3, <1>7 DEF FanDuty
  <2>2. /\ T(cool) \subseteq 0..Upper /\ T(cool) # {}
        /\ T(hot) \subseteq 0..Upper /\ T(hot) # {}
    BY <1>2, <1>7, FanConfigFacts
  <2>3. /\ Largest(T(cool)) \in T(cool)
        /\ Largest(T(hot)) \in T(hot) /\ \A d \in T(hot) : d <= Largest(T(hot))
    <3> HIDE DEF T
    <3>1. Upper \in Nat
      BY <1>1
    <3> QED
      BY <2>2, <3>1, LargestNatural
  <2>4. PICK s \in Inputs(fan) : Largest(T(cool)) = D(cool, s)
    BY <2>3
  <2>5. D(hot, s) <= Largest(T(hot))
    BY <2>3
  <2> HIDE DEF D, T
  <2>6. Largest(T(cool)) <= Largest(T(hot))
    BY <1>1, <1>2, <2>2, <2>3, <2>4, <2>5
  <2>7. Largest(T(cool)) \in Int /\ Largest(T(hot)) \in Int
    BY <2>2, <2>3
  <2> QED
    BY <1>4, <2>1, <2>6, <2>7
<1> QED
  BY <1>5, <1>6, <1>7

-----------------------------------------------------------------------------
(* TypeOK is an invariant.                                                 *)

\* A source's age cap is within the ages.
LEMMA AgeFacts ==
  /\ AgeCap \in Nat
  /\ \A s \in Sources : StaleAfter[s] \in 0 .. AgeCap - 1
  /\ \A age \in Ages \cup {Never} :
       /\ Older(age) \in Ages \cup {Never}
       /\ age \in Ages => Older(age) \in Ages
       /\ AtLeast(0, age) \in Ages
       /\ age <= AtLeast(0, age)
BY GatesAssumption DEF Ages, Never, Older, AtMost, AtLeast

\* Every wait that is calculated is an age.
LEMMA WaitTypes ==
  ASSUME TypeOK, NEW f \in Fans
  PROVE  /\ \A s \in Sources : Since(f, s) \in Ages \cup {Never}
         /\ LowerFor(f) \in Ages
         /\ \A c, s, sample, target : \A before \in Ages \cup {Never} :
              Asking(c, f, s, sample, target, before) \in Ages \cup {Never}
<1>1. /\ \A s \in Sources : higherSince[f][s] \in Ages \cup {Never}
      /\ lowerSince[f] \in Ages \cup {Never}
  BY DEF TypeOK
<1> QED
  BY <1>1, AgeFacts DEF Since, LowerFor, Asking

\* What the gates and the policy want of a fan.
LEMMA WantedFits ==
  ASSUME TypeOK, NEW f \in Fans
  PROVE  /\ Wanted(f) \in Lower..Upper
         /\ Gated[f] \in Lower..Upper
         /\ IsFixed(config.fans[f]) =>
              Wanted(f) = Clamp(config.fans[f], Largest(config.fans[f].fixed))
         /\ \E d \in 0..100 : Wanted(f) = Clamp(config.fans[f], d)
         /\ (\E s \in Inputs(config.fans[f]) :
               Boosted(config.fans[f].inputs[s], samples[s])) => Wanted(f) = Upper
         /\ ~IsFixed(config.fans[f])
              /\ ~(\E s \in Inputs(config.fans[f]) :
                     Boosted(config.fans[f].inputs[s], samples[s])) =>
              \E s \in Inputs(config.fans[f]) :
                 Granted(f, s) \in 0..Upper
                 /\ Wanted(f) = Clamp(config.fans[f], Granted(f, s))
<1> DEFINE fan == config.fans[f]
           Boosts == \E s \in Inputs(fan) : Boosted(fan.inputs[s], samples[s])
<1>1. /\ config \in Settings /\ duty[f] \in Lower..Upper
      /\ current[f] \in Lower..Upper
      /\ \A s \in Sources : samples[s].celsius \in Temps
  BY DEF TypeOK, Pair
<1>2. fan.minimum \in 0..100 /\ Inputs(fan) \subseteq Sources
      /\ (IsFixed(fan) => Inputs(fan) = {}) /\ (~IsFixed(fan) => Inputs(fan) # {})
  BY <1>1, FanConfigFacts
<1>3. Upper \in 0..100 /\ Lower \in 0..Upper
  BY BoundsAssumption
<1>4. \A s \in Inputs(fan) : Granted(f, s) \in 0..Upper
  BY <1>1, <1>2, <1>3, InputFits DEF Granted
<1>5. CASE IsFixed(fan)
  <2>1. Wanted(f) = FanDuty(fan, samples)
    BY <1>5 DEF Wanted
  <2> QED
    BY <1>1, <1>2, <1>5, <2>1, FanDutyFits DEF Gated
<1>6. CASE ~IsFixed(fan) /\ Boosts
  <2>1. Wanted(f) = Clamp(fan, Upper)
    BY <1>6 DEF Wanted
  <2>2. Clamp(fan, Upper) = Upper
    BY <1>2, <1>3, ClampFits
  <2>3. Upper \in Lower..Upper
    BY <1>3
  <2> QED
    BY <1>1, <1>3, <1>6, <2>1, <2>2, <2>3 DEF Gated
<1>7. CASE ~IsFixed(fan) /\ ~Boosts
  <2> DEFINE T == {Granted(f, s) : s \in Inputs(fan)}
  <2>1. Wanted(f) = Clamp(fan, Largest(T))
    BY <1>7 DEF Wanted
  <2>2. T \subseteq 0..Upper /\ T # {} /\ Upper \in Nat
    BY <1>2, <1>3, <1>4, <1>7
  <2>3. Largest(T) \in T
    BY <2>2, LargestNatural
  <2>4. PICK s \in Inputs(fan) : Largest(T) = Granted(f, s)
    BY <2>3
  <2>5. Granted(f, s) \in 0..100 /\ Granted(f, s) \in 0..Upper
    BY <1>3, <1>4
  <2>6. Clamp(fan, Granted(f, s)) \in Lower..Upper
    BY <1>2, <2>5, ClampFits
  <2> HIDE DEF T
  <2>7. Wanted(f) = Clamp(fan, Granted(f, s)) /\ Wanted(f) \in Lower..Upper
    BY <2>1, <2>4, <2>6
  <2>8. Gated[f] \in Lower..Upper
    BY <1>1, <2>7 DEF Gated
  <2> QED
    BY <1>7, <2>5, <2>7, <2>8
<1> QED
  BY <1>5, <1>6, <1>7

LEMMA InitTypes == Init => TypeOK
<1> SUFFICES ASSUME Init
             PROVE  TypeOK
  OBVIOUS
<1>1. 0 \in Ages
  BY GatesAssumption DEF Ages
<1>2. /\ config \in Settings
      /\ samples \in [Sources -> [ok : BOOLEAN, celsius : Temps, age : Ages]]
      /\ \A s \in Sources : samples[s].celsius \in Temps
  BY <1>1 DEF Init
<1>3. duty \in Pair
  BY <1>2, FanDutyFits DEF Init, Calculate, Pair
<1>4. write \in [kind : {"none", "tick", "apply"}, target : Pair, config : Settings]
  BY <1>2, <1>3 DEF Init, NoWrite
<1>5. /\ lowerSince \in [Fans -> Ages \cup {Never}]
      /\ higherSince \in [Fans -> [Sources -> Ages \cup {Never}]]
      /\ asking \in [Fans -> [Sources -> Ages \cup {Never}]]
      /\ calm \in [Fans -> Ages]
  BY <1>1 DEF Init
<1> QED
  BY <1>2, <1>3, <1>4, <1>5 DEF Init, TypeOK

LEMMA StepTypes == TypeOK /\ [Next]_vars => TypeOK'
<1> SUFFICES ASSUME TypeOK, [Next]_vars
             PROVE  TypeOK'
  OBVIOUS
<1> DEFINE Sample == [ok : BOOLEAN, celsius : Temps, age : Ages]
           Write == [kind : {"none", "tick", "apply"}, target : Pair, config : Settings]
           Waits1 == [Sources -> Ages \cup {Never}]
<1>0. /\ config \in Settings /\ samples \in [Sources -> Sample]
      /\ duty \in Pair /\ current \in Pair
      /\ lowerSince \in [Fans -> Ages \cup {Never}]
      /\ higherSince \in [Fans -> Waits1]
      /\ write \in Write /\ asking \in [Fans -> Waits1] /\ calm \in [Fans -> Ages]
  BY DEF TypeOK
<1>t. faulted \in BOOLEAN
  BY DEF TypeOK
<1>a. 0 \in Ages /\ Never \in Ages \cup {Never}
  BY GatesAssumption DEF Ages
<1>n. [f \in Fans |-> [s \in Sources |-> Never]] \in [Fans -> Waits1]
  OBVIOUS
<1>w. ASSUME duty' \in Pair, config' \in Settings, write' = NoWrite'
      PROVE  write' \in Write
  BY <1>w DEF NoWrite
<1>1. CASE Elapse
  <2>1. samples' \in [Sources -> Sample]
    <3> SUFFICES ASSUME NEW s \in Sources
                 PROVE  [samples[s] EXCEPT !.age = AtMost(StaleAfter[s] + 1, @ + 1)]
                          \in Sample
      BY <1>1 DEF Elapse
    <3>1. samples[s] \in Sample
      BY <1>0
    <3>2. samples[s].age \in Ages /\ StaleAfter[s] \in 0 .. AgeCap - 1 /\ AgeCap \in Nat
      BY <3>1, AgeFacts
    <3>3. AtMost(StaleAfter[s] + 1, samples[s].age + 1) \in Ages
      BY <3>2 DEF Ages, AtMost
    <3> QED
      BY <3>1, <3>3
  <2>2. /\ lowerSince' \in [Fans -> Ages \cup {Never}]
        /\ higherSince' \in [Fans -> Waits1]
        /\ asking' \in [Fans -> Waits1]
        /\ calm' \in [Fans -> Ages]
    BY <1>0, <1>1, AgeFacts DEF Elapse
  <2>3. UNCHANGED <<config, duty, current, write, faulted>>
    BY <1>1 DEF Elapse
  <2> QED
    BY <1>0, <1>t, <2>1, <2>2, <2>3 DEF TypeOK
<1>2. ASSUME NEW s \in Sources, OnSample(s)
      PROVE  TypeOK'
  <2>1. PICK ok \in BOOLEAN, celsius \in Temps :
          LET sample == [ok |-> ok, celsius |-> celsius, age |-> 0]
          IN  /\ Observe(s, sample)
              /\ samples' = [samples EXCEPT ![s] = sample]
              /\ asking' = [f \in Fans |->
                   [asking[f] EXCEPT ![s] = Asking(config, f, s, sample, duty[f], @)]]
              /\ UNCHANGED <<config, duty, current, lowerSince, write, faulted, calm>>
    BY <1>2 DEF OnSample
  <2> DEFINE sample == [ok |-> ok, celsius |-> celsius, age |-> 0]
  <2>2. samples' \in [Sources -> Sample]
    BY <1>0, <1>a, <2>1
  <2>3. higherSince' \in [Fans -> Waits1]
    BY <1>0, <2>1 DEF Observe
  <2>4. asking' \in [Fans -> Waits1]
    <3> SUFFICES ASSUME NEW f \in Fans
                 PROVE  [asking[f] EXCEPT ![s] =
                           Asking(config, f, s, sample, duty[f], asking[f][s])] \in Waits1
      BY <2>1
    <3>1. asking[f] \in Waits1 /\ asking[f][s] \in Ages \cup {Never}
      BY <1>0
    <3>2. Asking(config, f, s, sample, duty[f], asking[f][s]) \in Ages \cup {Never}
      BY <3>1, WaitTypes
    <3> QED
      BY <3>1, <3>2
  <2>5. UNCHANGED <<config, duty, current, lowerSince, write, faulted, calm>>
    BY <2>1
  <2> QED
    BY <1>0, <1>t, <2>2, <2>3, <2>4, <2>5 DEF TypeOK
<1>3. CASE Tick
  <2>1. Gated \in Pair
    BY WantedFits DEF Gated, Pair
  <2>2. /\ current' \in Pair
        /\ lowerSince' \in [Fans -> Ages \cup {Never}]
    BY <1>3, <2>1, WaitTypes DEF Tick, ApplyDownshift
  <2>3. higherSince' \in [Fans -> Waits1]
    BY <1>0, <1>3, WaitTypes DEF Tick, ApplyUpshift
  <2>4. write' \in Write
    BY <1>0, <1>3, <2>1 DEF Tick
  <2>5. calm' \in [Fans -> Ages]
    BY <1>0, <1>3, <1>a DEF Tick
  <2>6. UNCHANGED <<config, samples, duty, faulted, asking>>
    BY <1>3 DEF Tick
  <2> QED
    BY <1>0, <1>t, <2>2, <2>3, <2>4, <2>5, <2>6 DEF TypeOK
<1>4. CASE TickWritten
  <2>1. UNCHANGED <<config, samples, current, lowerSince, faulted, calm>>
    BY <1>4 DEF TickWritten
  <2>2. duty' \in Pair /\ write' \in Write
    BY <1>0, <1>4, <1>w, <2>1 DEF TickWritten
  <2>3. higherSince' \in [Fans -> Waits1]
    BY <1>0, <1>4 DEF TickWritten, Confirmed
  <2>4. asking' \in [Fans -> Waits1]
    BY <1>0, <1>4, <1>a, WaitTypes DEF TickWritten
  <2> QED
    BY <1>0, <1>t, <2>1, <2>2, <2>3, <2>4 DEF TypeOK
<1>5. ASSUME NEW c \in Settings, Apply(c)
      PROVE  TypeOK'
  <2>1. Calculate(c.fans, samples) \in Pair
    BY <1>0, FanDutyFits DEF Calculate, Pair
  <2>2. write' \in Write
    BY <1>5, <2>1 DEF Apply
  <2> QED
    BY <1>0, <1>t, <1>5, <2>2 DEF Apply, TypeOK
<1>6. CASE Applied
  <2>1. /\ config' \in Settings /\ duty' \in Pair /\ current' \in Pair
        /\ UNCHANGED <<samples, faulted>>
    BY <1>0, <1>6 DEF Applied
  <2>2. write' \in Write
    BY <1>6, <1>w, <2>1 DEF Applied
  <2>3. /\ lowerSince' \in [Fans -> Ages \cup {Never}]
        /\ higherSince' \in [Fans -> Waits1]
        /\ calm' \in [Fans -> Ages]
    BY <1>6, <1>a DEF Applied
  <2>4. asking' \in [Fans -> Waits1]
    BY <1>0, <1>6, <1>a, WaitTypes DEF Applied
  <2> QED
    BY <1>0, <1>t, <2>1, <2>2, <2>3, <2>4 DEF TypeOK
<1>7. CASE TickLoses \/ \E c \in Settings : ApplyLoses(c)
  <2>1. LoseSensor
    BY <1>7 DEF TickLoses, ApplyLoses
  <2>2. faulted' = TRUE
    BY <2>1 DEF LoseSensor
  <2> QED
    BY <1>0, <2>1, <2>2 DEF LoseSensor, TypeOK
<1>8. CASE UNCHANGED vars
  BY <1>0, <1>t, <1>8 DEF vars, controller, TypeOK
<1> QED
  BY <1>1, <1>2, <1>3, <1>4, <1>5, <1>6, <1>7, <1>8 DEF Next

\* Every variable keeps its type, and no pair outside the bounds is confirmed
\* or sent to the EC, for any curves and temperatures (policy.py:calculate,
\* UpshiftGate.apply).
THEOREM TypesAlways == SafetySpec => []TypeOK
  BY InitTypes, StepTypes, PTL DEF SafetySpec

-----------------------------------------------------------------------------
(* The gate and the confirmed pair.                                        *)

LEMMA InitTracks == Init => GateTracksDuty
  BY DEF Init, GateTracksDuty, NoWrite

\* The only steps that move the gate's pair or the confirmed one are a tick
\* and the two confirmations.
LEMMA StepTracks == GateTracksDuty /\ [Next]_vars => GateTracksDuty'
<1> SUFFICES ASSUME GateTracksDuty, [Next]_vars
             PROVE  GateTracksDuty'
  OBVIOUS
<1> USE DEF GateTracksDuty
<1>1. CASE Elapse
  BY <1>1 DEF Elapse
<1>2. ASSUME NEW s \in Sources, OnSample(s)
      PROVE  GateTracksDuty'
  BY <1>2 DEF OnSample
<1>3. CASE Tick
  <2>1. write.kind = "none" /\ current' = Gated /\ duty' = duty
    BY <1>3 DEF Tick, Free, ApplyDownshift
  <2>2. CASE Gated = duty
    BY <1>3, <2>1, <2>2 DEF Tick
  <2>3. CASE Gated # duty
    <3>1. write' = [kind |-> "tick", target |-> Gated, config |-> config]
      BY <1>3, <2>3 DEF Tick
    <3> QED
      BY <2>1, <3>1
  <2> QED
    BY <2>2, <2>3
<1>4. CASE TickWritten
  BY <1>4 DEF TickWritten, NoWrite
<1>5. CASE Applied
  BY <1>5 DEF Applied, NoWrite
<1>6. ASSUME NEW c \in Settings, Apply(c)
      PROVE  GateTracksDuty'
  BY <1>6 DEF Apply, Free
<1>7. CASE TickLoses \/ \E c \in Settings : ApplyLoses(c)
  BY <1>7 DEF TickLoses, ApplyLoses, LoseSensor
<1>8. CASE UNCHANGED vars
  BY <1>8 DEF vars, controller
<1> QED
  BY <1>1, <1>2, <1>3, <1>4, <1>5, <1>6, <1>7, <1>8 DEF Next

\* The pair the downshift gate keeps on its own and the one the controller has
\* confirmed never drift apart, for any number of inputs and any settings.
THEOREM GatesStayInStep == SafetySpec => []GateTracksDuty
  BY InitTracks, StepTracks, PTL DEF SafetySpec

-----------------------------------------------------------------------------
(* What a tick may do.                                                     *)

\* No delay holds back a boost: the tick that sees it asks for the upper bound
\* (policy.py:UpshiftGate.apply, DownshiftGate.apply).
THEOREM BoostNeverWaits == SafetySpec => BoostIsImmediate
<1>1. TypeOK /\ [Next]_vars =>
        [Tick => \A f \in Fans :
           (\E s \in Inputs(config.fans[f]) :
              Boosted(config.fans[f].inputs[s], samples[s]))
           => Gated[f] = Upper]_vars
  <2> SUFFICES ASSUME TypeOK, NEW f \in Fans,
                      \E s \in Inputs(config.fans[f]) :
                        Boosted(config.fans[f].inputs[s], samples[s])
               PROVE  Gated[f] = Upper
    OBVIOUS
  <2>1. Wanted(f) = Upper
    BY WantedFits
  <2>2. current[f] \in Lower..Upper /\ Upper \in Int
    BY BoundsAssumption DEF TypeOK, Pair
  <2> QED
    BY <2>1, <2>2 DEF Gated, Passes
<1> QED
  BY <1>1, TypesAlways, PTL DEF SafetySpec, BoostIsImmediate

\* The downshift gate waits no longer than the ticks have been calm.
CalmCovers == \A f \in Fans : lowerSince[f] <= calm[f]

LEMMA CalmInvariant == SafetySpec => []CalmCovers
<1>1. Init => CalmCovers
  <2> SUFFICES ASSUME Init, NEW f \in Fans
               PROVE  lowerSince[f] <= calm[f]
    BY DEF CalmCovers
  <2>1. lowerSince[f] = -1 /\ calm[f] = 0
    BY DEF Init, Never
  <2> QED
    BY <2>1
<1>2. TypeOK /\ CalmCovers /\ [Next]_vars => CalmCovers'
  <2> SUFFICES ASSUME TypeOK, CalmCovers, [Next]_vars
               PROVE  CalmCovers'
    OBVIOUS
  <2>0. /\ AgeCap \in Nat
        /\ \A f \in Fans : /\ lowerSince[f] \in Ages \cup {Never}
                           /\ calm[f] \in Ages /\ lowerSince[f] <= calm[f]
    BY AgeFacts DEF TypeOK, CalmCovers
  <2>1. CASE Elapse
    BY <2>0, <2>1 DEF Elapse, CalmCovers, Older, AtMost, Ages, Never
  <2>2. CASE Tick
    <3> SUFFICES ASSUME NEW f \in Fans
                 PROVE  lowerSince'[f] <= calm'[f]
      BY DEF CalmCovers
    <3>1. CASE Passes(f)
      BY <2>0, <2>2, <3>1 DEF Tick, ApplyDownshift, Ages, Never
    <3>2. CASE ~Passes(f)
      <4>1. ~(Wanted(f) >= current[f]) /\ Gated[f] = current[f]
        BY <3>2 DEF Passes, Gated
      <4>2. lowerSince'[f] = LowerFor(f) /\ calm'[f] = calm[f]
        BY <2>2, <3>2, <4>1 DEF Tick, ApplyDownshift
      <4> QED
        BY <2>0, <4>2 DEF LowerFor, AtLeast, Ages, Never
    <3> QED
      BY <3>1, <3>2
  <2>3. CASE Applied
    BY <2>3 DEF Applied, CalmCovers, Never
  <2>4. CASE UNCHANGED <<lowerSince, calm>>
    BY <2>0, <2>4 DEF CalmCovers
  <2> QED
    BY <2>1, <2>2, <2>3, <2>4 DEF Next, OnSample, TickLoses, ApplyLoses, LoseSensor,
       TickWritten, Apply, vars, controller
<1> QED
  BY <1>1, <1>2, TypesAlways, PTL DEF SafetySpec

\* A tick that starts to write writes what the gates let through.
LEMMA TickWritesGated ==
  ASSUME [Next]_vars, TickWrites
  PROVE  Tick /\ write'.target = Gated
<1>1. write.kind = "none" /\ write'.kind = "tick"
  BY DEF TickWrites
<1>2. CASE Tick
  BY <1>1, <1>2 DEF Tick
<1>3. CASE \E c \in Settings : Apply(c)
  BY <1>1, <1>3 DEF Apply
<1>4. CASE write' = write
  BY <1>1, <1>4
<1> QED
  BY <1>1, <1>2, <1>3, <1>4 DEF Next, Elapse, OnSample, TickLoses, ApplyLoses,
     LoseSensor, TickWritten, Applied, vars, controller

\* A tick lowers a fan only if, for decrease_delay, all ticks wanted it lower
\* (policy.py:DownshiftGate.apply).
THEOREM LoweringWaits == SafetySpec => LoweringIsEarned
<1>1. TypeOK /\ GateTracksDuty /\ CalmCovers /\ [Next]_vars =>
        [TickWrites => \A f \in Fans : write'.target[f] < duty[f] =>
           calm[f] >= config.decreaseDelay]_vars
  <2> SUFFICES ASSUME TypeOK, GateTracksDuty, CalmCovers, [Next]_vars, TickWrites,
                      NEW f \in Fans, write'.target[f] < duty[f]
               PROVE  calm[f] >= config.decreaseDelay
    OBVIOUS
  <2>1. write.kind = "none" /\ write'.target[f] = Gated[f]
    BY TickWritesGated DEF TickWrites
  <2>2. current[f] = duty[f]
    BY <2>1 DEF GateTracksDuty
  <2>3. /\ current[f] \in Int /\ Wanted(f) \in Int
        /\ lowerSince[f] \in Ages \cup {Never} /\ calm[f] \in Ages
        /\ config.decreaseDelay \in Nat /\ lowerSince[f] <= calm[f]
    BY WantedFits, FanConfigFacts, BoundsAssumption DEF TypeOK, Pair, CalmCovers
  <2>4. Wanted(f) < current[f] /\ LowerFor(f) >= config.decreaseDelay
    BY <2>1, <2>2, <2>3 DEF Gated, Passes
  <2> QED
    BY <2>3, <2>4, AgeFacts DEF LowerFor, AtLeast, Ages, Never
<1> QED
  BY <1>1, TypesAlways, GatesStayInStep, CalmInvariant, PTL
     DEF SafetySpec, LoweringIsEarned

-----------------------------------------------------------------------------
(* Rises.                                                                  *)

\* A pair as the clamp of a configuration leaves it.
PairFits(pair, c) ==
  \A f \in Fans :
    /\ pair[f] = Clamp(c.fans[f], pair[f])
    /\ IsFixed(c.fans[f]) => pair[f] = Clamp(c.fans[f], Largest(c.fans[f].fixed))

DutyFits ==
  /\ PairFits(duty, config)
  /\ write.kind # "none" => PairFits(write.target, write.config)
  /\ write.kind = "tick" => write.config = config

LEMMA CalculateFits ==
  ASSUME NEW c \in Settings, \A s \in Sources : samples[s].celsius \in Temps
  PROVE  PairFits(Calculate(c.fans, samples), c)
<1> SUFFICES ASSUME NEW f \in Fans
             PROVE  /\ FanDuty(c.fans[f], samples) =
                         Clamp(c.fans[f], FanDuty(c.fans[f], samples))
                    /\ IsFixed(c.fans[f]) => FanDuty(c.fans[f], samples) =
                         Clamp(c.fans[f], Largest(c.fans[f].fixed))
  BY DEF PairFits, Calculate
<1>1. PICK d \in 0..100 : FanDuty(c.fans[f], samples) = Clamp(c.fans[f], d)
  BY FanDutyFits
<1> QED
  BY <1>1, ClampFits, FanConfigFacts, FanDutyFits

LEMMA GatedFits ==
  ASSUME TypeOK, GateTracksDuty, write.kind = "none", PairFits(duty, config)
  PROVE  PairFits(Gated, config)
<1> SUFFICES ASSUME NEW f \in Fans
             PROVE  /\ Gated[f] = Clamp(config.fans[f], Gated[f])
                    /\ IsFixed(config.fans[f]) =>
                         Gated[f] = Clamp(config.fans[f], Largest(config.fans[f].fixed))
  BY DEF PairFits
<1>1. current[f] = duty[f] /\ config \in Settings
  BY DEF GateTracksDuty, TypeOK
<1>2. CASE Gated[f] = current[f]
  BY <1>1, <1>2 DEF PairFits
<1>3. CASE Gated[f] = Wanted(f)
  <2>1. PICK d \in 0..100 : Wanted(f) = Clamp(config.fans[f], d)
    BY WantedFits
  <2>2. config.fans[f].minimum \in 0..100 /\ d \in Int
    BY <1>1, FanConfigFacts
  <2>3. Wanted(f) = Clamp(config.fans[f], Wanted(f))
    BY <2>1, <2>2, ClampFits
  <2> QED
    BY <1>3, <2>3, WantedFits
<1> QED
  BY <1>2, <1>3 DEF Gated

LEMMA DutyInvariant == SafetySpec => []DutyFits
<1>1. Init => DutyFits
  <2> SUFFICES ASSUME Init
               PROVE  DutyFits
    OBVIOUS
  <2>1. config \in Settings /\ \A s \in Sources : samples[s].celsius \in Temps
    BY DEF Init
  <2> QED
    BY <2>1, CalculateFits DEF Init, DutyFits, NoWrite
<1>2. TypeOK /\ GateTracksDuty /\ DutyFits /\ [Next]_vars => DutyFits'
  <2> SUFFICES ASSUME TypeOK, GateTracksDuty, DutyFits, [Next]_vars
               PROVE  DutyFits'
    OBVIOUS
  <2>0. \A s \in Sources : samples[s].celsius \in Temps
    BY DEF TypeOK
  <2>1. CASE Tick
    <3>1. /\ write.kind = "none" /\ UNCHANGED <<duty, config>>
          /\ \/ write' = write
             \/ write' = [kind |-> "tick", target |-> Gated, config |-> config]
      BY <2>1 DEF Tick, Free
    <3>2. PairFits(duty, config) /\ PairFits(Gated, config)
      BY <3>1, GatedFits DEF DutyFits
    <3> QED
      BY <3>1, <3>2 DEF DutyFits, PairFits
  <2>2. CASE TickWritten \/ Applied
    <3>1. /\ duty' = write.target /\ config' = write.config
          /\ write'.kind = "none" /\ write.kind # "none"
      BY <2>2 DEF TickWritten, Applied, NoWrite, DutyFits
    <3> QED
      BY <3>1 DEF DutyFits, PairFits
  <2>3. ASSUME NEW c \in Settings, Apply(c)
        PROVE  DutyFits'
    <3>1. /\ UNCHANGED <<duty, config>>
          /\ write' = [kind |-> "apply", target |-> Calculate(c.fans, samples),
                       config |-> c]
      BY <2>3 DEF Apply
    <3>2. PairFits(Calculate(c.fans, samples), c)
      BY <2>0, CalculateFits
    <3> QED
      BY <3>1, <3>2 DEF DutyFits, PairFits
  <2>4. CASE UNCHANGED <<duty, config, write>>
    BY <2>4 DEF DutyFits, PairFits
  <2> QED
    BY <2>1, <2>2, <2>3, <2>4 DEF Next, Elapse, OnSample, TickLoses, ApplyLoses,
       LoseSensor, vars, controller
<1> QED
  BY <1>1, <1>2, TypesAlways, GatesStayInStep, PTL DEF SafetySpec

\* The gate has not waited longer for an input than its samples have asked, and
\* an input whose sample asks is asking.
AskingCovers ==
  \A f \in Fans : \A s \in Inputs(config.fans[f]) :
    /\ higherSince[f][s] <= asking[f][s]
    /\ samples[s].ok /\ Waits(config.fans[f].inputs[s], samples[s], duty[f])
         => asking[f][s] >= 0

\* A fresh start of the history is a cover for a fresh start of the gate.
LEMMA FreshCovers ==
  ASSUME NEW c, NEW f, NEW s, NEW target, NEW view
  PROVE  /\ Never <= Asking(c, f, s, view, target, Never)
         /\ s \in Inputs(c.fans[f]) /\ view.ok
              /\ Waits(c.fans[f].inputs[s], view, target) =>
                Asking(c, f, s, view, target, Never) >= 0
BY DEF Asking, AtLeast, Never

LEMMA AskingInit == Init => AskingCovers
<1> SUFFICES ASSUME Init, NEW f \in Fans, NEW s \in Inputs(config.fans[f])
             PROVE  /\ higherSince[f][s] <= asking[f][s]
                    /\ ~Waits(config.fans[f].inputs[s], samples[s], duty[f])
  BY DEF AskingCovers
<1>1. config \in Settings /\ s \in Sources
      /\ \A x \in Sources : samples[x].celsius \in Temps
  BY FanConfigFacts DEF Init
<1>2. InputDuty(config.fans[f].inputs[s], samples[s]) <= duty[f]
  BY <1>1, FanDutyFits DEF Init, Calculate
<1>3. duty[f] \in Int /\ InputDuty(config.fans[f].inputs[s], samples[s]) \in Int
  BY <1>1, FanDutyFits, InputFits, BoundsAssumption DEF Init, Calculate
<1>4. higherSince[f][s] = Never /\ asking[f][s] = Never
  BY <1>1 DEF Init
<1> QED
  BY <1>2, <1>3, <1>4 DEF Waits, Never

LEMMA AskingStep == TypeOK /\ AskingCovers /\ [Next]_vars => AskingCovers'
<1> SUFFICES ASSUME TypeOK, AskingCovers, [Next]_vars
             PROVE  AskingCovers'
  OBVIOUS
<1>0. /\ config \in Settings
      /\ \A f \in Fans : Inputs(config.fans[f]) \subseteq Sources
      /\ \A f \in Fans, s \in Sources :
           /\ higherSince[f][s] \in Ages \cup {Never}
           /\ asking[f][s] \in Ages \cup {Never}
      /\ AgeCap \in Nat
  BY FanConfigFacts, AgeFacts DEF TypeOK
<1>1. CASE Elapse
  <2> SUFFICES ASSUME NEW f \in Fans, NEW s \in Inputs(config.fans[f])
               PROVE  /\ higherSince'[f][s] <= asking'[f][s]
                      /\ samples'[s].ok
                           /\ Waits(config.fans[f].inputs[s], samples'[s], duty[f])
                           => asking'[f][s] >= 0
    BY <1>1 DEF Elapse, AskingCovers
  <2>1. s \in Sources
    BY <1>0
  <2>2. higherSince'[f][s] = Older(higherSince[f][s])
        /\ asking'[f][s] = Older(asking[f][s])
    BY <1>1, <2>1 DEF Elapse
  <2>3. samples'[s].ok = samples[s].ok /\ samples'[s].celsius = samples[s].celsius
    BY <1>1, <2>1 DEF Elapse, TypeOK
  <2>4. Waits(config.fans[f].inputs[s], samples'[s], duty[f]) =
          Waits(config.fans[f].inputs[s], samples[s], duty[f])
    BY <2>3 DEF Waits, Boosted, InputDuty
  <2>5. /\ higherSince[f][s] <= asking[f][s]
        /\ samples[s].ok /\ Waits(config.fans[f].inputs[s], samples[s], duty[f])
             => asking[f][s] >= 0
    BY DEF AskingCovers
  <2>6. /\ higherSince'[f][s] <= asking'[f][s]
        /\ asking[f][s] >= 0 => asking'[f][s] >= 0
    BY <1>0, <2>1, <2>2, <2>5 DEF Older, AtMost, Ages, Never
  <2> QED
    BY <2>3, <2>4, <2>5, <2>6
<1>2. ASSUME NEW x \in Sources, OnSample(x)
      PROVE  AskingCovers'
  <2>1. PICK ok \in BOOLEAN, celsius \in Temps :
          LET sample == [ok |-> ok, celsius |-> celsius, age |-> 0]
          IN  /\ Observe(x, sample)
              /\ samples' = [samples EXCEPT ![x] = sample]
              /\ asking' = [f \in Fans |->
                   [asking[f] EXCEPT ![x] = Asking(config, f, x, sample, duty[f], @)]]
              /\ UNCHANGED <<config, duty, current, lowerSince, write, faulted, calm>>
    BY <1>2 DEF OnSample
  <2> DEFINE sample == [ok |-> ok, celsius |-> celsius, age |-> 0]
  <2>2. sample.ok = ok
    OBVIOUS
  <2> HIDE DEF sample
  <2> SUFFICES ASSUME NEW f \in Fans, NEW s \in Inputs(config.fans[f])
               PROVE  /\ higherSince'[f][s] <= asking'[f][s]
                      /\ samples'[s].ok
                           /\ Waits(config.fans[f].inputs[s], samples'[s], duty[f])
                           => asking'[f][s] >= 0
    BY <2>1 DEF AskingCovers
  <2>3. s \in Sources /\ samples \in [Sources -> [ok : BOOLEAN, celsius : Temps, age : Ages]]
        /\ higherSince[f] \in [Sources -> Ages \cup {Never}]
        /\ asking[f] \in [Sources -> Ages \cup {Never}]
    BY <1>0 DEF TypeOK
  <2>4. /\ higherSince[f][s] <= asking[f][s]
        /\ samples[s].ok /\ Waits(config.fans[f].inputs[s], samples[s], duty[f])
             => asking[f][s] >= 0
    BY DEF AskingCovers
  <2>5. higherSince'[f] = IF Breaks(f, x, sample)
                          THEN [higherSince[f] EXCEPT ![x] = Never] ELSE higherSince[f]
    BY <2>1 DEF Observe, sample
  <2>6. asking'[f] = [asking[f] EXCEPT ![x] =
                        Asking(config, f, x, sample, duty[f], asking[f][x])]
    BY <2>1 DEF sample
  <2>7. samples' = [samples EXCEPT ![x] = sample]
    BY <2>1 DEF sample
  <2>8. CASE s # x
    <3>1. /\ samples'[s] = samples[s] /\ asking'[f][s] = asking[f][s]
          /\ higherSince'[f][s] = higherSince[f][s]
      BY <2>3, <2>5, <2>6, <2>7, <2>8
    <3> QED
      BY <2>4, <3>1
  <2>9. CASE s = x
    <3>1. /\ samples'[s] = sample
          /\ asking'[f][s] = Asking(config, f, s, sample, duty[f], asking[f][s])
          /\ higherSince'[f][s] = IF Breaks(f, s, sample) THEN Never ELSE higherSince[f][s]
      BY <2>3, <2>5, <2>6, <2>7, <2>9
    <3>2. asking[f][s] \in Ages \cup {Never} /\ higherSince[f][s] \in Ages \cup {Never}
      BY <2>3
    <3>3. CASE sample.ok /\ Waits(config.fans[f].inputs[s], sample, duty[f])
      <4>1. asking'[f][s] = AtLeast(0, asking[f][s])
            /\ higherSince'[f][s] = higherSince[f][s]
        BY <3>1, <3>3 DEF Asking, Breaks
      <4> QED
        BY <1>0, <2>4, <3>2, <4>1 DEF AtLeast, Ages, Never
    <3>4. CASE ~(sample.ok /\ Waits(config.fans[f].inputs[s], sample, duty[f]))
      <4>1. asking'[f][s] = Never /\ higherSince'[f][s] = Never
        BY <3>1, <3>4 DEF Asking, Breaks
      <4>2. ~(samples'[s].ok /\ Waits(config.fans[f].inputs[s], samples'[s], duty[f]))
        BY <3>1, <3>4
      <4> QED
        BY <4>1, <4>2 DEF Never
    <3> QED
      BY <3>3, <3>4
  <2> QED
    BY <2>8, <2>9
<1>3. CASE Tick
  <2> SUFFICES ASSUME NEW f \in Fans, NEW s \in Inputs(config.fans[f])
               PROVE  /\ higherSince'[f][s] <= asking[f][s]
                      /\ samples[s].ok
                           /\ Waits(config.fans[f].inputs[s], samples[s], duty[f])
                           => asking[f][s] >= 0
    BY <1>3 DEF Tick, AskingCovers
  <2>1. s \in Sources /\ samples[s].ok
    BY <1>0, <1>3 DEF Tick, Calculable, UsableSample
  <2>2. higherSince'[f][s] = Since(f, s)
    BY <1>3, <2>1 DEF Tick, ApplyUpshift
  <2>3. /\ higherSince[f][s] <= asking[f][s]
        /\ Waits(config.fans[f].inputs[s], samples[s], duty[f]) => asking[f][s] >= 0
    BY <2>1 DEF AskingCovers
  <2>4. higherSince[f][s] \in Ages \cup {Never} /\ asking[f][s] \in Ages \cup {Never}
    BY <1>0, <2>1
  <2>5. Since(f, s) <= asking[f][s]
    BY <1>0, <2>3, <2>4 DEF Since, AtLeast, Ages, Never
  <2> QED
    BY <2>2, <2>3, <2>5
<1>4. CASE TickWritten
  <2> SUFFICES ASSUME NEW f \in Fans, NEW s \in Inputs(config.fans[f])
               PROVE  /\ higherSince'[f][s] <= asking'[f][s]
                      /\ samples[s].ok
                           /\ Waits(config.fans[f].inputs[s], samples[s], write.target[f])
                           => asking'[f][s] >= 0
    BY <1>4 DEF TickWritten, AskingCovers
  <2>1. s \in Sources
    BY <1>0
  <2>2. CASE write.target[f] = duty[f]
    <3>1. higherSince'[f] = higherSince[f] /\ asking'[f][s] = asking[f][s]
      BY <1>4, <2>1, <2>2 DEF TickWritten, Confirmed
    <3> QED
      BY <2>2, <3>1 DEF AskingCovers
  <2>3. CASE write.target[f] # duty[f]
    <3>1. higherSince'[f][s] = Never
          /\ asking'[f][s] = Asking(config, f, s, samples[s], write.target[f], Never)
      BY <1>4, <2>1, <2>3 DEF TickWritten, Confirmed
    <3> QED
      BY <3>1, FreshCovers
  <2> QED
    BY <2>2, <2>3
<1>5. CASE Applied
  <2> SUFFICES ASSUME NEW f \in Fans, NEW s \in Inputs(write.config.fans[f])
               PROVE  /\ higherSince'[f][s] <= asking'[f][s]
                      /\ samples[s].ok
                           /\ Waits(write.config.fans[f].inputs[s], samples[s], write.target[f])
                           => asking'[f][s] >= 0
    BY <1>5 DEF Applied, AskingCovers
  <2>1. s \in Sources
    BY FanConfigFacts DEF TypeOK
  <2>2. higherSince'[f][s] = Never
        /\ asking'[f][s] = Asking(write.config, f, s, samples[s], write.target[f], Never)
    BY <1>5, <2>1 DEF Applied
  <2> QED
    BY <2>2, FreshCovers
<1>6. CASE UNCHANGED <<config, samples, duty, higherSince, asking>>
  BY <1>6 DEF AskingCovers
<1> QED
  BY <1>1, <1>2, <1>3, <1>4, <1>5, <1>6 DEF Next, TickLoses, ApplyLoses,
     LoseSensor, Apply, vars, controller

\* What a tick may ask for on behalf of an input above the confirmed duty is
\* what the input has asked for by itself for its whole delay.
LEMMA GrantIsEarned ==
  ASSUME TypeOK, AskingCovers, NEW f \in Fans, NEW s \in Inputs(config.fans[f]),
         samples[s].ok, Granted(f, s) > duty[f]
  PROVE  LET item == config.fans[f].inputs[s]
         IN  \/ Boosted(item, samples[s])
             \/ /\ InputDuty(item, samples[s]) = Granted(f, s)
                /\ \A d \in item.increaseDelay : asking[f][s] >= d
<1> DEFINE item == config.fans[f].inputs[s]
<1>1. /\ config \in Settings /\ s \in Sources /\ duty[f] \in Int
      /\ samples[s].celsius \in Temps
      /\ higherSince[f][s] \in Ages \cup {Never}
      /\ asking[f][s] \in Ages \cup {Never}
      /\ item.increaseDelay \subseteq Nat
  BY FanConfigFacts, BoundsAssumption DEF TypeOK, Pair
<1>2. InputDuty(item, samples[s]) \in Int
  BY <1>1, InputFits, BoundsAssumption
<1>3. CASE Waits(item, samples[s], duty[f])
  <2>1. Since(f, s) = AtLeast(0, higherSince[f][s])
    BY <1>3 DEF Since
  <2>2. Since(f, s) \in Nat /\ Since(f, s) <= asking[f][s] /\ asking[f][s] \in Nat
    BY <1>1, <1>3, <2>1, AgeFacts DEF AskingCovers, AtLeast, Ages, Never
  <2>3. /\ ~\E d \in item.increaseDelay : Since(f, s) < d
        /\ Granted(f, s) = InputDuty(item, samples[s])
    BY <1>1, <1>3 DEF Granted
  <2>4. \A d \in item.increaseDelay : asking[f][s] >= d
    BY <1>1, <2>2, <2>3
  <2> QED
    BY <2>3, <2>4
<1>4. CASE ~Waits(item, samples[s], duty[f])
  <2>1. Granted(f, s) = InputDuty(item, samples[s])
    BY <1>4 DEF Granted
  <2>2. item.increaseDelay = {} \/ Boosted(item, samples[s])
    BY <1>1, <1>2, <1>4, <2>1 DEF Waits
  <2> QED
    BY <2>1, <2>2
<1> QED
  BY <1>3, <1>4

\* A tick raises a fan only for an input that boosts, or that has asked for it
\* by itself for its whole increase_delay in every sample that arrived
\* (policy.py:UpshiftGate, controller.py:on_sample).
THEOREM RiseWaits == SafetySpec => RiseIsEarned
<1>1. TypeOK /\ GateTracksDuty /\ DutyFits /\ AskingCovers /\ [Next]_vars =>
        [TickWrites => \A f \in Fans : write'.target[f] > duty[f] =>
           \E s \in Inputs(config.fans[f]) :
             LET item == config.fans[f].inputs[s]
             IN  \/ Boosted(item, samples[s])
                 \/ /\ InputDuty(item, samples[s]) >= write'.target[f]
                    /\ \A d \in item.increaseDelay : asking[f][s] >= d]_vars
  <2> SUFFICES ASSUME TypeOK, GateTracksDuty, DutyFits, AskingCovers, [Next]_vars,
                      TickWrites, NEW f \in Fans, write'.target[f] > duty[f],
                      ~\E s \in Inputs(config.fans[f]) :
                         Boosted(config.fans[f].inputs[s], samples[s])
               PROVE  \E s \in Inputs(config.fans[f]) :
                        /\ InputDuty(config.fans[f].inputs[s], samples[s])
                             >= write'.target[f]
                        /\ \A d \in config.fans[f].inputs[s].increaseDelay :
                             asking[f][s] >= d
    OBVIOUS
  <2> DEFINE fan == config.fans[f]
  <2>1. /\ write.kind = "none" /\ write'.target[f] = Gated[f] /\ Tick
        /\ current[f] = duty[f]
    BY TickWritesGated DEF TickWrites, GateTracksDuty
  <2>2. /\ config \in Settings /\ duty[f] \in Int /\ Gated[f] \in Int
        /\ fan.minimum \in 0..100 /\ Upper \in 0..100
    BY WantedFits, FanConfigFacts, BoundsAssumption DEF TypeOK, Pair
  <2>3. Gated[f] = Wanted(f) /\ Wanted(f) > duty[f]
    BY <2>1, <2>2 DEF Gated
  <2>4. duty[f] = Clamp(fan, duty[f])
        /\ (IsFixed(fan) => duty[f] = Clamp(fan, Largest(fan.fixed)))
    BY DEF DutyFits, PairFits
  <2>5. ~IsFixed(fan)
    BY <2>2, <2>3, <2>4, WantedFits
  <2>6. PICK s \in Inputs(fan) :
          Granted(f, s) \in 0..Upper /\ Wanted(f) = Clamp(fan, Granted(f, s))
    BY <2>5, WantedFits
  <2>7. Granted(f, s) \in Int
    BY <2>2, <2>6
  <2>8. Granted(f, s) >= Wanted(f)
    BY <2>2, <2>3, <2>4, <2>6, <2>7, ClampFits
  <2>9. samples[s].ok
    BY <2>1 DEF Tick, Calculable, UsableSample
  <2>10. Granted(f, s) > duty[f]
    BY <2>2, <2>3, <2>7, <2>8
  <2> QED
    BY <2>1, <2>3, <2>8, <2>9, <2>10, GrantIsEarned
<1> QED
  BY <1>1, TypesAlways, GatesStayInStep, DutyInvariant, AskingInit, AskingStep, PTL
     DEF SafetySpec, RiseIsEarned

=============================================================================
