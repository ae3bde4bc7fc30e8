----------------------------- MODULE FanService -----------------------------
(***************************************************************************)
(* What the controller promises, seen from its confirmed state only: which *)
(* configuration is effective, what the EC was last confirmed to do, and   *)
(* how both may change.  There are no queues, no EC calls and no callers   *)
(* here; each action is one atomic change of the confirmed state.  Module  *)
(* Controller implements it.                                               *)
(***************************************************************************)
EXTENDS Integers

CONSTANTS Policies, Pairs, MaxPair, NoPair, Targets, Configs

VARIABLES
  config,     \* the effective configuration
  applied,    \* the confirmed mode, or "unknown"
  duty,       \* the confirmed pair, NoPair while the BIOS drives the fans
  revision,   \* the number of committed configuration commands
  fault,      \* the cause of the terminal fault, or "none"
  ended       \* the service has begun to stop

confirmed == <<config, applied, duty, revision, fault, ended>>

\* The pairs a configuration may be confirmed with.
Fitting(c) == IF c.mode = "override" THEN Targets[c.policy] ELSE {NoPair}

Healthy == fault = "none" /\ ~ended

Init ==
  /\ config \in Configs
  /\ applied = "unknown"
  /\ duty = NoPair
  /\ revision = 0
  /\ fault = "none"
  /\ ended = FALSE

\* The configuration read at start becomes effective.
Begin ==
  /\ Healthy
  /\ applied = "unknown"
  /\ applied' = config.mode
  /\ duty' \in Fitting(config)
  /\ UNCHANGED <<config, revision, fault, ended>>

\* A command or a reload replaces configuration, mode and pair as one.
Reconfigure ==
  /\ Healthy
  /\ applied # "unknown"
  /\ \E c \in Configs :
       /\ c.device = config.device
       /\ config' = c
       /\ applied' = c.mode
       /\ duty' \in Fitting(c)
  /\ revision' = revision + 1
  /\ UNCHANGED <<fault, ended>>

\* The effective policy follows the temperatures.
Adjust ==
  /\ Healthy
  /\ applied = "override"
  /\ duty' \in Targets[config.policy]
  /\ UNCHANGED <<config, applied, revision, fault, ended>>

\* A hardware call failed: nothing is known of the fans any more.
LoseHardware ==
  /\ fault = "none"
  /\ fault' \in {"hardware", "preflight"}
  /\ applied' = "unknown"
  /\ duty' = NoPair
  /\ UNCHANGED <<config, revision>>
  /\ ended' \in {FALSE, ended}

\* A required sensor is lost: the fans go to the maximum for good.
LoseSensor ==
  /\ Healthy
  /\ fault' = "sensor"
  /\ applied' = "override"
  /\ duty' = MaxPair
  /\ UNCHANGED <<config, revision, ended>>

\* The process goes down for a reason of its own; the fans keep their pair.
Abort ==
  /\ Healthy
  /\ fault' = "reason"
  /\ UNCHANGED <<config, applied, duty, revision, ended>>

\* An orderly stop begins.
Stop ==
  /\ Healthy
  /\ ended' = TRUE
  /\ UNCHANGED <<config, applied, duty, revision, fault>>

\* An orderly stop hands the fans back to the BIOS if configured to.
Restore ==
  /\ ended
  /\ fault = "none"
  /\ config.restore
  /\ applied' = "bios"
  /\ duty' = NoPair
  /\ UNCHANGED <<config, revision, fault, ended>>

\* A stop, orderly or not, is over.
Close ==
  /\ ended' = TRUE
  /\ UNCHANGED <<config, applied, duty, revision, fault>>

Next == \/ Begin \/ Reconfigure \/ Adjust
        \/ LoseHardware \/ LoseSensor \/ Abort
        \/ Stop \/ Restore \/ Close

Spec == Init /\ [][Next]_confirmed

=============================================================================
