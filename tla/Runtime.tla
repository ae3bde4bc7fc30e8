------------------------------ MODULE Runtime ------------------------------
(***************************************************************************)
(* runtime.Runtime: the sets of collectors over reloads and the stop.  The *)
(* Controller is what its methods promise here: a reload is answered at    *)
(* once or commits after a hardware write (module Controller has the       *)
(* whole of it).  The configuration a set is built for bears its number.   *)
(***************************************************************************)
EXTENDS Collector

VARIABLES
  run,        \* where Runtime.run is
  reload,     \* reload_file: where it is, its candidate, the set to stop
  lock,       \* _reload_lock
  sources,    \* _sources
  effective,  \* the controller's configuration
  stop,       \* stop_event
  fault,      \* the controller is faulted, or run failed before it started
  hup         \* reload_event

controller == <<effective, fault>>
vars == <<collector, staged, active, samples, run, reload, lock, sources,
          controller, stop, hup>>

NoReload == [at |-> "none", new |-> None, old |-> None]

Init ==
  /\ CollectorInit
  /\ run = "begin" /\ reload = NoReload /\ lock = "free" /\ sources = None
  /\ effective = 1 /\ stop = FALSE /\ fault = FALSE /\ hup = FALSE

Fresh(k) == k \in Sets /\ task[k] = "none" /\ \A j \in Sets : j < k => task[j] # "none"

\* _Sources.prepare waits for the first samples, each for so long.
Sampled(k) == k \in staged
NeverGivesUp(k) == FALSE      \* Mutant: without a time limit.
GivesUp(k) == k \notin staged

-----------------------------------------------------------------------------
(* Runtime.run and start. *)

Begin ==
  /\ run = "begin"
  /\ \/ run' = "prepare" /\ Build(1) /\ UNCHANGED fault
     \/ run' = "stop" /\ fault' = TRUE /\ UNCHANGED collector
  /\ UNCHANGED <<staged, active, samples, reload, lock, sources, effective, stop, hup>>

Started ==
  /\ run = "prepare" /\ (Sampled(1) \/ GivesUp(1))
  /\ run' = "start" /\ sources' = 1 /\ active' = {1}
  /\ samples' = IF 1 \in staged THEN 1 ELSE None
  /\ UNCHANGED <<collector, staged, reload, lock, controller, stop, hup>>

ControllerStarts ==
  /\ run = "start"
  /\ \/ run' = "serve" /\ UNCHANGED fault
     \/ run' = "stop" /\ fault' = TRUE
  /\ UNCHANGED <<collector, staged, active, samples, reload, lock, sources,
                 effective, stop, hup>>

\* A tick, an RPM read or a command, perhaps a shielded one, meets a failure.
LoopFails ==
  /\ run \in {"serve", "gather"} /\ fault' = TRUE
  /\ UNCHANGED <<collector, staged, active, samples, run, reload, lock, sources,
                 effective, stop, hup>>

Leave ==
  /\ run = "serve" /\ (stop \/ fault) /\ run' = "gather"
  /\ UNCHANGED <<collector, staged, active, samples, reload, lock, sources,
                 controller, stop, hup>>

\* A cancelled reload goes on; gather awaits the reloading task, which awaits it.
Gathered ==
  /\ run = "gather" /\ reload.at = "none" /\ run' = "stop"
  /\ UNCHANGED <<collector, staged, active, samples, reload, lock, sources,
                 controller, stop, hup>>

Stop ==
  /\ run = "stop" /\ lock = "free" /\ lock' = "stop" /\ run' = "close"
  /\ UNCHANGED <<collector, staged, active, samples, reload, sources,
                 controller, stop, hup>>

\* The controller's stop returns or fails; the sources are stopped anyway.
Closed ==
  /\ run = "close" /\ run' = "sources" /\ fault' \in {fault, TRUE}
  /\ IF sources = None THEN UNCHANGED <<collector, active>> ELSE Cancel(sources)
  /\ UNCHANGED <<staged, samples, reload, lock, sources, effective, stop, hup>>

End ==
  /\ run = "sources" /\ (sources # None => Stopped(sources))
  /\ run' = "end" /\ lock' = "free"
  /\ UNCHANGED <<collector, staged, active, samples, reload, sources,
                 controller, stop, hup>>

-----------------------------------------------------------------------------
(* reload_file, begun by SIGHUP; its task is shielded from cancellation. *)

ReloadBegins ==
  /\ run = "serve" /\ hup /\ reload.at = "none" /\ hup' = FALSE
  /\ reload' = [NoReload EXCEPT !.at = "begin"]
  /\ UNCHANGED <<collector, staged, active, samples, run, lock, sources,
                 controller, stop>>

\* Under the lock: loading the file and building the candidate's set, either
\* of which may fail.
Load(k) ==
  /\ reload.at = "begin" /\ lock = "free" /\ Fresh(k)
  /\ Build(k) /\ lock' = "reload"
  /\ reload' = [at |-> "prepare", new |-> k, old |-> None]
  /\ UNCHANGED <<staged, active, samples, run, sources, controller, stop, hup>>

LoadFails ==
  /\ reload.at = "begin" /\ lock = "free" /\ reload' = NoReload
  /\ UNCHANGED <<collector, staged, active, samples, run, lock, sources,
                 controller, stop, hup>>

Prepared ==
  /\ reload.at = "prepare" /\ (Sampled(reload.new) \/ GivesUp(reload.new))
  /\ reload' = [reload EXCEPT !.at = "ask", !.old = sources]
  /\ UNCHANGED <<collector, staged, active, samples, run, lock, sources,
                 controller, stop, hup>>

\* Mutant: any good answer is taken for this candidate's.
KeepsAfter(ok) == ok
\* result.ok and self._sources is candidate_sources
Keeps(ok) == ok /\ sources = reload.new

\* The answer arrives: one of the two sets is stopped.
Answered(ok) ==
  LET dropped == IF Keeps(ok) THEN reload.old ELSE reload.new
  IN  /\ reload' = [reload EXCEPT !.at = "drop", !.old = dropped]
      /\ Cancel(dropped)

\* The controller rejects the candidate, or remembers the request: a good
\* answer is then an earlier one's.
Reject == \E ok \in BOOLEAN :
  /\ reload.at = "ask" /\ (ok => effective # 1)
  /\ Answered(ok)
  /\ UNCHANGED <<staged, samples, run, lock, sources, controller, stop, hup>>

Apply ==
  /\ reload.at = "ask" /\ ~fault
  /\ reload' = [reload EXCEPT !.at = "apply"]
  /\ UNCHANGED <<collector, staged, active, samples, run, lock, sources,
                 controller, stop, hup>>

ApplyFails ==
  /\ reload.at = "apply" /\ fault' = TRUE
  /\ Answered(FALSE)
  /\ UNCHANGED <<staged, samples, run, lock, sources, effective, stop, hup>>

\* Mutant: the old set goes on publishing until it is stopped.
CommitKeepsOld ==
  /\ sources' = reload.new /\ active' = active \cup {reload.new}

\* The commit callback.
Swap == sources' = reload.new /\ active' = (active \ {reload.old}) \cup {reload.new}

\* The EC has confirmed: configuration, samples and sets are swapped at once.
Commit ==
  /\ reload.at = "apply" /\ Swap
  /\ effective' = reload.new
  /\ samples' = IF reload.new \in staged THEN reload.new ELSE None
  /\ reload' = [reload EXCEPT !.at = "answer"]
  /\ UNCHANGED <<collector, staged, run, lock, fault, stop, hup>>

Committed ==
  /\ reload.at = "answer" /\ Answered(TRUE)
  /\ UNCHANGED <<staged, samples, run, lock, sources, controller, stop, hup>>

Dropped ==
  /\ reload.at = "drop" /\ Stopped(reload.old)
  /\ reload' = NoReload /\ lock' = "free"
  /\ UNCHANGED <<collector, staged, active, samples, run, sources, controller, stop, hup>>

-----------------------------------------------------------------------------
\* SIGTERM, SIGINT and SIGHUP.
RequestStop ==
  /\ ~stop /\ stop' = TRUE
  /\ UNCHANGED <<collector, staged, active, samples, run, reload, lock, sources,
                 controller, hup>>

RequestReload ==
  /\ ~hup /\ run # "end" /\ hup' = TRUE
  /\ UNCHANGED <<collector, staged, active, samples, run, reload, lock, sources,
                 controller, stop>>

Main == Begin \/ Started \/ ControllerStarts \/ Leave \/ Gathered \/ Stop \/ Closed \/ End

Reloading ==
  \/ ReloadBegins \/ (\E k \in Sets : Load(k)) \/ LoadFails \/ Prepared
  \/ Reject \/ Apply \/ ApplyFails \/ Commit \/ Committed \/ Dropped

Gathering(k) ==
  /\ Collecting(k) \/ Reading(k)
  /\ UNCHANGED <<run, reload, lock, sources, controller, stop, hup>>

\* All of it runs on the event loop, the signal handlers as well.
OnLoop ==
  LoopFree /\ (Main \/ Reloading \/ LoopFails \/ RequestStop \/ RequestReload)

Next == OnLoop \/ (\E k \in Sets : Gathering(k))

\* The event loop serves run, the reload and every collector that is
\* cancelled, while no close() holds it.  A reader may take for ever, and so
\* may a smartctl.
Spec ==
  /\ Init /\ [][Next]_vars
  /\ WF_vars(LoopFree /\ Main) /\ WF_vars(LoopFree /\ Reloading)
  /\ \A k \in Sets : WF_vars(Gathering(k) /\ Closing(k))

-----------------------------------------------------------------------------
(* Properties. *)

\* Types.
TypeOK ==
  /\ task \in [Sets -> Tasks] /\ thread \in [Sets -> {"idle", "busy"}]
  /\ child \in [Sets -> Children]
  /\ pending \in [Sets -> Outcomes \cup {"none", "running"}]
  /\ staged \subseteq Sets /\ active \subseteq Sets
  /\ samples \in Sets \cup {None} /\ sources \in Sets \cup {None}
  /\ effective \in Sets
  /\ run \in {"begin", "prepare", "start", "serve", "gather", "stop", "close", "sources", "end"}
  /\ reload \in [at : {"none", "begin", "prepare", "ask", "apply", "answer", "drop"},
                 new : Sets \cup {None}, old : Sets \cup {None}]
  /\ lock \in {"free", "reload", "stop"}
  /\ stop \in BOOLEAN /\ fault \in BOOLEAN /\ hup \in BOOLEAN

\* What the controller drives the fans by was read for the configuration in
\* force: its samples and the one active set are this configuration's, before,
\* during and after a reload, whatever the old set still brings.
SamplesFitConfiguration ==
  /\ samples \in {None, effective}
  /\ sources # None /\ run \notin {"sources", "end"} =>
       sources = effective /\ active = {sources}

\* When run() returns no collector is left running: not the one of a reload
\* that was rejected, repeated or overtaken by the stop either.
NothingLeftRunning ==
  run = "end" => \A k \in Sets : task[k] \in {"none", "ended"}

\* A reader is never asked for a second reading while the first is under way,
\* however long it takes (docs/operations.md:33).
OneReadAtATime ==
  [][\A k \in Sets : pending[k] = "none" /\ pending'[k] = "running"
       => thread[k] = "idle"]_vars

\* A stop or a fault ends run(), though a reload is under way and sysfs reads
\* may never return, and though closing a reader blocks the event loop for
\* as long as its smartctl takes to die.  One that never dies blocks it for
\* ever: then nothing ends.
StopEnds == []<>LoopFree => (stop \/ fault ~> run = "end")

=============================================================================
