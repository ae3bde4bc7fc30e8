---------------------------- MODULE MCController ----------------------------
(***************************************************************************)
(* Small instances of Controller for TLC.  One required and one optional   *)
(* source; a fixed policy that needs no source and a curve that needs one; *)
(* configurations of both modes, one of them of another device.            *)
(***************************************************************************)
EXTENDS Controller, TLC

CONSTANTS c1, c2, r1, t1, t2, p1, m1, id1, id2, id3, dev1, dev2, fixed, curve,
          cpu, low, high, max

MCRequired == [p \in {fixed, curve} |-> IF p = curve THEN {cpu} ELSE {}]
MCTargets == [p \in {fixed, curve} |-> IF p = curve THEN {low, high} ELSE {low}]

Setting(device, mode, policy, restore) ==
  [device |-> device, mode |-> mode, policy |-> policy, restore |-> restore]

\* Every kind of configuration a reload can bring, one of a foreign device.
MCConfigs == {Setting(dev1, "bios", curve, TRUE),
              Setting(dev1, "override", curve, TRUE),
              Setting(dev1, "override", fixed, FALSE),
              Setting(dev2, "bios", fixed, FALSE)}

\* The two that differ most, for the larger sets of callers.
TwoConfigs == {Setting(dev1, "bios", curve, TRUE),
               Setting(dev1, "override", curve, TRUE)}

Patch(mode, policy) == [mode |-> mode, policy |-> policy]

\* To the BIOS and back; the second cannot follow from every configuration.
MCChanges == {Patch("bios", Keep), Patch("override", curve)}
OneChange == {Patch("override", curve)}

\* Clients and request ids are interchangeable (runs without temporal
\* properties only).
Symmetric == Permutations({c1, c2}) \cup Permutations({id1, id2, id3})

=============================================================================
