----------------------------- MODULE Collector -----------------------------
(***************************************************************************)
(* The collectors of runtime._Sources: sources.base.Collector.run with its *)
(* reader's thread, one for each set of sources that is ever built.  All   *)
(* sets read the same source, so that their samples can be told apart by   *)
(* their origin only; module Runtime builds, activates and stops the sets. *)
(*                                                                         *)
(* A sysfs read hangs in its thread and nowhere else.  smartctl is a child *)
(* process, and closing its reader kills it and waits for its end on the   *)
(* event loop, which stands still until then.                              *)
(***************************************************************************)
EXTENDS Naturals

CONSTANTS
  Sets,      \* 1, 2, ...: the sets in the order they are built
  Smart      \* those that read their source with smartctl

ASSUME SetsAssumption ==
  Sets \subseteq Nat \ {0} /\ 1 \in Sets /\ Smart \subseteq Sets

None == 0

VARIABLES
  task,      \* Collector.run of each set: none, due, wait, sleep, closing,
             \* blocked (in close(), and the event loop with it), ended
  pending,   \* _pending, the future of the read that was submitted last
  thread,    \* the executor's one thread: idle or busy
  child,     \* its smartctl: none, alive, stuck (SIGKILL does not end it), reaped
  staged,    \* the sets that have a sample
  active,    \* the sets that publish theirs
  samples    \* the controller's: the set its sample comes from

collector == <<task, pending, thread, child>>

Tasks == {"none", "due", "wait", "sleep", "closing", "blocked", "ended"}
Children == {"none", "alive", "stuck", "reaped"}

\* A value and an error are both published as a sample, a skip is not.
Outcomes == {"sample", "skip"}

CollectorInit ==
  /\ task = [k \in Sets |-> "none"]
  /\ pending = [k \in Sets |-> "none"]
  /\ thread = [k \in Sets |-> "idle"] /\ child = [k \in Sets |-> "none"]
  /\ staged = {} /\ active = {} /\ samples = None

Goto(k, at) == task' = [task EXCEPT ![k] = at]

\* _Sources.put
Put(k) ==
  /\ staged' = staged \cup {k}
  /\ samples' = IF k \in active THEN k ELSE samples

Quiet == UNCHANGED <<staged, samples>>

\* No reader's close() holds the event loop.
LoopFree == \A k \in Sets : task[k] # "blocked"

-----------------------------------------------------------------------------
\* The next reading is due: await the read under way or begin one.
Submit(k) ==
  /\ task[k] = "due" /\ Goto(k, "wait")
  /\ IF pending[k] = "none"
     THEN /\ pending' = [pending EXCEPT ![k] = "running"]
          /\ thread' = [thread EXCEPT ![k] = "busy"]
     ELSE UNCHANGED <<pending, thread>>
  /\ UNCHANGED <<child, active>> /\ Quiet

\* The thread starts smartctl, perhaps after the reader was closed.
Spawn(k) ==
  /\ k \in Smart /\ thread[k] = "busy" /\ child[k] = "none"
  /\ child' = [child EXCEPT ![k] = "alive"]
  /\ UNCHANGED <<task, pending, thread, active>> /\ Quiet

\* The reader returns a value, fails or skips, in its own time, but not before
\* its smartctl has ended: after its own time limit it kills it, and waits.
ReadEnds(k) == \E outcome \in Outcomes :
  /\ thread[k] = "busy" /\ child[k] # "stuck"
  /\ outcome = "skip" => child[k] = "alive"
  /\ thread' = [thread EXCEPT ![k] = "idle"]
  /\ pending' = [pending EXCEPT ![k] = outcome]
  /\ child' = [child EXCEPT ![k] = "none"]
  /\ UNCHANGED <<task, active>> /\ Quiet

\* The disk does not answer: smartctl hangs in the kernel.
Sticks(k) ==
  /\ child[k] = "alive" /\ child' = [child EXCEPT ![k] = "stuck"]
  /\ UNCHANGED <<task, pending, thread, active>> /\ Quiet

\* It comes back, perhaps to the SIGKILL of close() that waits for it.
Recovers(k) ==
  /\ child[k] = "stuck"
  /\ child' = [child EXCEPT ![k] = IF task[k] = "blocked" THEN "reaped" ELSE "alive"]
  /\ UNCHANGED <<task, pending, thread, active>> /\ Quiet

\* A skipped read publishes nothing: the last sample grows old.
Collect(k) ==
  /\ task[k] = "wait" /\ pending[k] \in Outcomes
  /\ Goto(k, "sleep") /\ pending' = [pending EXCEPT ![k] = "none"]
  /\ IF pending[k] = "skip" THEN Quiet ELSE Put(k)
  /\ UNCHANGED <<thread, child, active>>

\* Mutant: a read that takes too long is given up, and another one begun.
TimeOutForgets(k) ==
  /\ task[k] = "wait" /\ pending[k] = "running"
  /\ Goto(k, "sleep") /\ Put(k) /\ pending' = [pending EXCEPT ![k] = "none"]
  /\ UNCHANGED <<thread, child, active>>

\* An error is published, and the same read awaited again next time.
TimeOut(k) ==
  /\ task[k] = "wait" /\ pending[k] = "running"
  /\ Goto(k, "sleep") /\ Put(k)
  /\ UNCHANGED <<pending, thread, child, active>>

Wake(k) ==
  /\ task[k] = "sleep" /\ Goto(k, "due")
  /\ UNCHANGED <<pending, thread, child, active>> /\ Quiet

\* SmartctlReader.close: a smartctl under way is killed and waited for.
Kill(k) == child' = [child EXCEPT ![k] = IF @ = "alive" THEN "reaped" ELSE @]

\* The reader is closed; a read under way keeps its thread.
Close(k) ==
  /\ task[k] = "blocked" \/ (LoopFree /\ task[k] = "closing")
  /\ child[k] # "stuck" /\ Kill(k)
  /\ Goto(k, "ended")
  /\ UNCHANGED <<pending, thread, active>> /\ Quiet

\* process.wait() does not return, and nothing else runs on the event loop.
CloseBlocks(k) ==
  /\ LoopFree /\ task[k] = "closing"
  /\ child[k] = "stuck" /\ Goto(k, "blocked")
  /\ UNCHANGED <<pending, thread, child, active>> /\ Quiet

Closing(k) == Close(k) \/ CloseBlocks(k)

Collecting(k) ==
  \/ LoopFree /\ (Submit(k) \/ Collect(k) \/ TimeOut(k) \/ Wake(k))
  \/ Closing(k)

Reading(k) == Spawn(k) \/ ReadEnds(k) \/ Sticks(k) \/ Recovers(k)

-----------------------------------------------------------------------------
\* What Runtime does to a set: build it ...
Build(k) ==
  task[k] = "none" /\ Goto(k, "due") /\ UNCHANGED <<pending, thread, child>>

\* ... and stop it, which is awaited.
Cancel(k) ==
  /\ active' = active \ {k}
  /\ task' = [task EXCEPT ![k] = IF @ = "ended" THEN @ ELSE "closing"]
  /\ UNCHANGED <<pending, thread, child>>

Stopped(k) == task[k] = "ended"
=============================================================================
