-------------------------- MODULE Controller_proof --------------------------
(***************************************************************************)
(* Proofs about Controller: see the README for the argument.               *)
(***************************************************************************)
EXTENDS Controller, TLAPS

-----------------------------------------------------------------------------
(* Operators.                                                              *)

\* What a sequence holds is of the sequence's type.
LEMMA ElementOfSequence ==
  ASSUME NEW S, NEW s \in Seq(S), NEW i \in DOMAIN s
  PROVE  s[i] \in S
OBVIOUS

\* A configuration command is one by its op alone.
LEMMA ConfigCallType ==
  ASSUME NEW r \in Calls \cup {NoCall}, IsConfigCall(r)
  PROVE  r \in ConfigCalls
BY DEF Calls, NoCall, ConfigCalls, IsConfigCall

\* A reload brings a validated configuration.
LEMMA ReloadType ==
  ASSUME NEW r \in Calls \cup {NoCall}, r.op = "reload"
  PROVE  r.to \in Configs
BY DEF Calls, NoCall, ConfigCalls

\* The memory of results stays a sequence of results.
LEMMA RememberType ==
  ASSUME TypeOK, IsConfigCall(job), NEW ok \in BOOLEAN, NEW rev \in Nat,
         Remember(ok, rev)
  PROVE  results' \in Seq([call : ConfigCalls, ok : BOOLEAN, revision : Nat])
<1> DEFINE R == [call : ConfigCalls, ok : BOOLEAN, revision : Nat]
           entry == [call |-> job, ok |-> ok, revision |-> rev]
           longer == Append(results, entry)
<1>1. job \in ConfigCalls
  BY ConfigCallType DEF TypeOK, TaskOK
<1>2. entry \in R
  BY <1>1
<1>3. longer \in Seq(R) /\ longer # <<>>
  BY <1>2 DEF TypeOK, SettingsOK
<1>4. Tail(longer) \in Seq(R)
  BY <1>3
<1> QED
  BY <1>3, <1>4 DEF Remember

\* Resolving futures gives every caller an answer of the right type.
LEMMA ResolveType ==
  ASSUME TypeOK, NEW ws, NEW rev \in Nat,
         NEW status \in {"ok", "refused", "raised"}
  PROVE  Resolve(ws, status, rev) \in
           [Callers -> [status : {"idle", "waiting", "ok", "refused", "raised",
                                  "cancelled"}, revision : Nat]]
BY DEF Resolve, TypeOK, OutsideOK

\* What Finish leaves behind is well typed.
LEMMA FinishType ==
  ASSUME TypeOK, config' \in Configs, NEW rev \in Nat,
         NEW status \in {"ok", "refused", "raised"}, Finish(status, rev)
  PROVE  /\ answer' \in [Callers -> [status : {"idle", "waiting", "ok",
                                               "refused", "raised", "cancelled"},
                                     revision : Nat]]
         /\ job' = NoCall /\ waiters' = {} /\ pc' = "next"
         /\ worker' = "running"
         /\ candidate' \in Configs
         /\ hw' = NoHardware
         /\ staged' \subseteq Sources
         /\ call' = call /\ phase' = phase /\ asked' = asked
BY ResolveType DEF Finish, TypeOK, SamplesOK

\* Fail is Finish behind a change of the results.
LEMMA FailType ==
  ASSUME TypeOK, config' \in Configs, Fail
  PROVE  /\ results' \in Seq([call : ConfigCalls, ok : BOOLEAN, revision : Nat])
         /\ answer' \in [Callers -> [status : {"idle", "waiting", "ok",
                                               "refused", "raised", "cancelled"},
                                     revision : Nat]]
         /\ job' = NoCall /\ waiters' = {} /\ pc' = "next"
         /\ worker' = "running"
         /\ candidate' \in Configs
         /\ hw' = NoHardware
         /\ staged' \subseteq Sources
         /\ call' = call /\ phase' = phase /\ asked' = asked
<1>1. revision \in Nat /\ results \in Seq([call : ConfigCalls, ok : BOOLEAN, revision : Nat])
  BY DEF TypeOK, SettingsOK
<1>2. CASE IsConfigCall(job)
  <2>1. Remember(FALSE, revision) /\ Finish("refused", revision)
    BY <1>2 DEF Fail
  <2> QED
    BY <1>1, <1>2, <2>1, FinishType, RememberType
<1>3. CASE ~IsConfigCall(job)
  <2>1. results' = results /\ Finish("raised", revision)
    BY <1>3 DEF Fail
  <2> QED
    BY <1>1, <2>1, FinishType
<1> QED
  BY <1>2, <1>3

-----------------------------------------------------------------------------
(* TypeOK is an invariant.                                                 *)

\* Callers, samples and time.
LEMMA OutsideStepType ==
  ASSUME TypeOK, CallerNext \/ SampleNext
  PROVE  TypeOK'
<1> USE DEF TypeOK, SettingsOK, SamplesOK, QueuesOK, TaskOK, OutsideOK,
            settings, samples, queues, task, outside, Methods
<1> DEFINE AnswerType == [Callers -> [status : {"idle", "waiting", "ok",
                                        "refused", "raised", "cancelled"},
                                      revision : Nat]]
<1>1. ASSUME NEW c \in Callers, NEW r \in Calls, SubmitCommand(c, r)
      PROVE  /\ SettingsOK' /\ QueuesOK' /\ TaskOK'
             /\ call' \in [Callers -> Calls \cup {NoCall}]
             /\ answer' \in AnswerType
             /\ log' = log
  <2>1. Resolve(periodic, "ok", 0) \in AnswerType
    BY ResolveType
  <2>2. answer' \in AnswerType
    BY <1>1, <2>1 DEF SubmitCommand, Waiting
  <2>3. commands' \in Seq(Callers)
    BY <1>1 DEF SubmitCommand
  <2> QED
    BY <1>1, <2>2, <2>3 DEF SubmitCommand, Ask, Wake
<1>2. ASSUME NEW c \in Clients, Change(c)
      PROVE  TypeOK'
  <2>1. c \in Callers
    BY DEF Callers
  <2>2. PICK id \in Ids, to \in Changes :
          /\ asked < MaxCalls
          /\ asked' = asked + 1
          /\ SubmitCommand(c, [op |-> "change", id |-> id, to |-> to])
          /\ UNCHANGED <<phase, samples>>
    BY <1>2 DEF Change
  <2>3. [op |-> "change", id |-> id, to |-> to] \in Calls
    BY DEF Calls, ConfigCalls
  <2>4. asked' \in 0..MaxCalls
    BY <2>2, MaxCallsAssumption
  <2>5. SettingsOK' /\ QueuesOK' /\ TaskOK'
    BY <2>1, <2>2, <2>3, <1>1
  <2>6. OutsideOK'
    BY <2>1, <2>2, <2>3, <2>4, <1>1
  <2>7. SamplesOK'
    BY <2>2
  <2> QED
    BY <2>5, <2>6, <2>7
<1>3. CASE Reload
  <2>1. Reloader \in Callers
    BY DEF Callers
  <2>2. PICK id \in Ids, to \in Configs, view \in SUBSET Sources :
          /\ asked < MaxCalls
          /\ asked' = asked + 1
          /\ SubmitCommand(Reloader, [op |-> "reload", id |-> id, to |-> to])
          /\ staged' = view
          /\ UNCHANGED <<phase, fresh>>
    BY <1>3 DEF Reload
  <2>3. [op |-> "reload", id |-> id, to |-> to] \in Calls
    BY DEF Calls, ConfigCalls
  <2>4. asked' \in 0..MaxCalls
    BY <2>2, MaxCallsAssumption
  <2>5. SettingsOK' /\ QueuesOK' /\ TaskOK'
    BY <2>1, <2>2, <2>3, <1>1
  <2>6. OutsideOK'
    BY <2>1, <2>2, <2>3, <2>4, <1>1
  <2>7. SamplesOK'
    BY <2>2
  <2> QED
    BY <2>5, <2>6, <2>7
<1>4. ASSUME NEW t \in Tickers, Tick(t)
      PROVE  TypeOK'
  <2>1. t \in Callers /\ [op |-> "tick"] \in Calls
    BY DEF Callers, Calls
  <2> QED
    BY <1>4, <2>1 DEF Tick, Ask, Wake, Waiting
<1>5. ASSUME NEW p \in Pollers, ReadRpm(p)
      PROVE  TypeOK'
  <2>1. p \in Callers /\ [op |-> "rpm"] \in Calls
    BY DEF Callers, Calls
  <2> QED
    BY <1>5, <2>1 DEF ReadRpm, Ask, Wake, Waiting
<1>6. CASE Start
  <2>1. Main \in Callers /\ [op |-> "start"] \in Calls
    BY DEF Callers, Calls
  <2> QED
    BY <1>6, <2>1, <1>1 DEF Start
<1>7. CASE Serve
  BY <1>7 DEF Serve
<1>8. CASE Leave
  <2>1. ASSUME NEW c \in Callers
        PROVE  [answer[c] EXCEPT !.status = "cancelled"] \in
                 [status : {"idle", "waiting", "ok", "refused", "raised",
                            "cancelled"}, revision : Nat]
    OBVIOUS
  <2>2. answer' \in AnswerType
    BY <1>8, <2>1 DEF Leave
  <2> QED
    BY <1>8, <2>2 DEF Leave
<1>9. CASE Stop
  <2>1. PICK normal \in BOOLEAN :
          /\ SubmitCommand(Main, [op |-> "stop", normal |-> normal])
          /\ phase' = "stopping"
          /\ UNCHANGED <<asked, samples>>
    BY <1>9 DEF Stop
  <2>2. Main \in Callers /\ [op |-> "stop", normal |-> normal] \in Calls
    BY DEF Callers, Calls
  <2> QED
    BY <2>1, <2>2, <1>1
<1>10. ASSUME NEW s \in Sources, OnSample(s) \/ OnStaged(s) \/ Expire(s)
       PROVE  TypeOK'
  BY <1>10 DEF OnSample, OnStaged, Expire
<1> QED
  BY <1>2, <1>3, <1>4, <1>5, <1>6, <1>7, <1>8, <1>9, <1>10
  DEF CallerNext, SampleNext

\* The executor.
LEMMA ExecuteStepType ==
  ASSUME TypeOK, Execute
  PROVE  TypeOK'
<1> USE DEF TypeOK, SettingsOK, SamplesOK, QueuesOK, TaskOK, OutsideOK,
            settings, samples, queues, outside, Methods
<1>1. ec' \in Pairs \cup {NoPair}
  BY DEF Execute, Effect
<1>2. hw' \in [method : Methods, pair : Pairs \cup {NoPair},
               done : {"none", "pending", "ok", "error", "preflight"}]
  BY DEF Execute
<1> QED
  BY <1>1, <1>2 DEF Execute

\* The worker: taking an operation out of a queue.
LEMMA TakeStepType ==
  ASSUME TypeOK, DrainCommand \/ DrainPeriodic \/ DrainRpm \/ DrainDone
  PROVE  TypeOK'
<1> USE DEF TypeOK, SettingsOK, SamplesOK, QueuesOK, TaskOK, OutsideOK,
            settings, samples, queues, outside, Methods
<1>1. CASE DrainCommand
  <2>1. Head(commands) \in Callers /\ Tail(commands) \in Seq(Callers)
    BY <1>1 DEF DrainCommand
  <2> QED
    BY <1>1, <2>1 DEF DrainCommand, Take
<1>2. CASE DrainPeriodic
  BY <1>2 DEF DrainPeriodic, Take, Calls, Callers
<1>3. CASE DrainRpm
  BY <1>3 DEF DrainRpm, Take, Calls, Callers
<1>4. CASE DrainDone
  BY <1>4 DEF DrainDone
<1> QED
  BY <1>1, <1>2, <1>3, <1>4

\* A commit installs a validated candidate and a whole pair.
LEMMA CommitType ==
  ASSUME TypeOK, NEW pair \in Pairs \cup {NoPair}, requested' \in Modes,
         Commit(pair), OperationStep
  PROVE  TypeOK'
<1>0. /\ revision \in Nat /\ candidate \in Configs
      /\ results \in Seq([call : ConfigCalls, ok : BOOLEAN, revision : Nat])
  BY DEF TypeOK, SettingsOK, TaskOK
<1>1. config' \in Configs /\ candidate.mode \in Modes
  BY <1>0, ConfigsAssumption DEF Commit, Config
<1>2. /\ revision' \in Nat
      /\ results' \in Seq([call : ConfigCalls, ok : BOOLEAN, revision : Nat])
  <2>1. CASE IsConfigCall(job)
    <3>1. revision' = revision + 1 /\ Remember(TRUE, revision + 1)
      BY <2>1 DEF Commit
    <3>2. revision + 1 \in Nat
      BY <1>0
    <3> QED
      BY <2>1, <3>1, <3>2, RememberType
  <2>2. CASE ~IsConfigCall(job)
    BY <1>0, <2>2 DEF Commit
  <2> QED
    BY <2>1, <2>2
<1>3. Finish("ok", revision')
  BY DEF Commit
<1> USE DEF TypeOK, SettingsOK, SamplesOK, QueuesOK, TaskOK, OutsideOK
<1>5. log' \in Seq(ConfigCalls)
  <2>1. CASE IsConfigCall(job)
    BY <2>1, ConfigCallType DEF Commit
  <2>2. CASE ~IsConfigCall(job)
    BY <2>2 DEF Commit
  <2> QED
    BY <2>1, <2>2
<1>6. SettingsOK'
  BY <1>1, <1>2 DEF Commit, Confirm, Modes
<1>7. /\ answer' \in [Callers -> [status : {"idle", "waiting", "ok", "refused",
                                            "raised", "cancelled"},
                                  revision : Nat]]
      /\ job' = NoCall /\ waiters' = {} /\ pc' = "next" /\ worker' = "running"
      /\ candidate' \in Configs /\ hw' = NoHardware /\ staged' \subseteq Sources
      /\ call' = call /\ phase' = phase /\ asked' = asked
  BY <1>1, <1>2, <1>3, FinishType
<1>8. fresh' \subseteq Sources
  BY DEF Commit, View
<1> QED
  BY <1>5, <1>6, <1>7, <1>8 DEF OperationStep, queues, NoHardware, Methods

\* The worker: the steps of the operations.
LEMMA OperationStepType ==
  ASSUME TypeOK,
         \/ HardwareFailed \/ Boosted
         \/ StartBegin \/ StartProbed \/ ConfigurationBegin \/ Apply \/ Applied
         \/ TickBegin \/ TickWritten
         \/ RpmBegin \/ RpmRead
         \/ StopBegin \/ StopRestored \/ StopNotRestored \/ StopClosed
  PROVE  TypeOK'
<1> USE DEF TypeOK, SettingsOK, SamplesOK, QueuesOK, TaskOK, OutsideOK,
            settings, samples, queues, outside, Methods, OperationStep,
            NoHardware
<1>1. ASSUME NEW status \in {"ok", "raised"}, EndAtOnce(status)
      PROVE  TypeOK'
  <2>1. config' \in Configs /\ Finish(status, 0)
    BY <1>1 DEF EndAtOnce
  <2> QED
    BY <1>1, <2>1, FinishType DEF EndAtOnce
<1>2. CASE HardwareFailed
  <2>1. config' \in Configs /\ Fail
    BY <1>2 DEF HardwareFailed
  <2> QED
    BY <1>2, <2>1, FailType DEF HardwareFailed, MarkUnknown, MarkFault
<1>3. CASE Boosted
  <2>1. config' \in Configs /\ Fail
    BY <1>3 DEF Boosted
  <2> QED
    BY <1>3, <2>1, FailType, PairsAssumption DEF Boosted, MarkFault, Modes
<1>4. CASE StartBegin
  BY <1>4, <1>1 DEF StartBegin, Await, Suspended
<1>5. CASE StartProbed
  BY <1>5 DEF StartProbed, Suspended
<1>6. CASE ConfigurationBegin
  <2>1. ASSUME NEW i \in Remembered,
               UNCHANGED <<settings, fresh, published, log>>,
               IF results[i].call = job
               THEN Finish(IF results[i].ok THEN "ok" ELSE "refused",
                           results[i].revision)
               ELSE Finish("refused", revision)
        PROVE  TypeOK'
    <3>1. results[i].revision \in Nat
      <4>1. i \in DOMAIN results
        BY DEF Remembered
      <4>2. results[i] \in [call : ConfigCalls, ok : BOOLEAN, revision : Nat]
        BY <4>1, ElementOfSequence
      <4> QED
        BY <4>2
    <3>2. config' \in Configs
      BY <2>1
    <3>3. PICK status \in {"ok", "refused"}, rev \in Nat : Finish(status, rev)
      BY <2>1, <3>1
    <3> QED
      BY <1>6, <2>1, <3>2, <3>3, FinishType DEF ConfigurationBegin
  <2>2. ASSUME UNCHANGED <<config, state, requested, applied, revision, duty,
                           fault, failure, identified, closed>>,
               Fail, UNCHANGED <<fresh, published, log>>
        PROVE  TypeOK'
    <3>1. config' \in Configs
      BY <2>2
    <3> QED
      BY <1>6, <2>2, <3>1, FailType DEF ConfigurationBegin
  <2>3. ASSUME ~Rejected(MakeCandidate), candidate' = MakeCandidate,
               pc' = "apply", UNCHANGED <<settings, worker, hw, published>>,
               Suspended
        PROVE  TypeOK'
    BY <1>6, <2>3 DEF ConfigurationBegin, Rejected, Suspended
  <2> QED
    BY <1>6, <2>1, <2>2, <2>3 DEF ConfigurationBegin
<1>7. CASE Apply
  <2>1. candidate.mode \in Modes /\ candidate.policy \in Policies
    BY ConfigsAssumption DEF Config
  <2>2. requested' \in Modes
    BY <1>7, <2>1 DEF Apply
  <2>3. ASSUME Commit(NoPair)
        PROVE  TypeOK'
    BY <1>7, <2>2, <2>3, CommitType DEF Apply
  <2>4. ASSUME NEW where \in {"apply", "boost"}, NEW method \in {"set", "restore"},
               NEW pair \in Pairs \cup {NoPair},
               Await(where, method, pair),
               UNCHANGED <<config, state, applied, revision, duty, fault,
                           failure, identified, closed, results, candidate,
                           published>>,
               Suspended
        PROVE  TypeOK'
    BY <1>7, <2>2, <2>4 DEF Apply, Await, Suspended
  <2>5. Targets[candidate.policy] \subseteq Pairs
    BY <2>1, PoliciesAssumption
  <2> QED
    BY <1>7, <2>3, <2>4, <2>5, PairsAssumption DEF Apply
<1>8. CASE Applied
  BY <1>8, CommitType DEF Applied
<1>9. CASE TickBegin
  <2>1. Targets[config.policy] \subseteq Pairs
    BY PoliciesAssumption, ConfigsAssumption DEF Config
  <2>2. ASSUME NEW target \in Pairs \cup {NoPair}, target # duty,
               Await("tick", "set", target),
               UNCHANGED <<settings, candidate, published>>, Suspended
        PROVE  TypeOK'
    <3>1. OperationStep
      BY <1>9, <2>2 DEF TickBegin, EndAtOnce, Boost
    <3> QED
      BY <2>2, <3>1 DEF Await, Suspended
  <2>3. ASSUME UNCHANGED settings, Finish("ok", 0), Publish,
               UNCHANGED <<fresh, log>>, OperationStep
        PROVE  TypeOK'
    BY <1>9, <2>3, FinishType
  <2>4. CASE Boost
    BY <2>4, PairsAssumption DEF Boost, Await, Suspended
  <2> QED
    BY <1>9, <1>1, <2>1, <2>2, <2>3, <2>4 DEF TickBegin
<1>10. CASE TickWritten
  <2>1. config' \in Configs /\ Finish("ok", 0)
    BY <1>10 DEF TickWritten
  <2> QED
    BY <1>10, <2>1, FinishType DEF TickWritten
<1>11. CASE RpmBegin
  BY <1>11, <1>1 DEF RpmBegin, Await, Suspended
<1>12. CASE RpmRead
  <2>1. config' \in Configs /\ Finish("ok", 0)
    BY <1>12 DEF RpmRead
  <2> QED
    BY <1>12, <2>1, FinishType DEF RpmRead
<1>13. CASE StopBegin
  <2>1. CASE closed
    BY <1>13, <1>1, <2>1 DEF StopBegin
  <2>2. CASE ~closed
    BY <1>13, <2>2 DEF StopBegin, Await, Suspended, MarkFault
  <2> QED
    BY <2>1, <2>2
<1>14. CASE StopRestored
  BY <1>14 DEF StopRestored, Await, Suspended, Modes
<1>15. CASE StopNotRestored
  BY <1>15 DEF StopNotRestored, MarkUnknown, MarkFault, Await, Suspended
<1>16. CASE StopClosed
  <2>1. PICK where \in {"close", "closeRaise"} :
          Finish(IF where = "close" THEN "ok" ELSE "raised", 0)
    BY <1>16 DEF StopClosed
  <2>2. config' \in Configs
    BY <1>16 DEF StopClosed
  <2>3. PICK status \in {"ok", "raised"} : Finish(status, 0)
    BY <2>1
  <2> QED
    BY <1>16, <2>2, <2>3, FinishType DEF StopClosed
<1> QED
  BY <1>2, <1>3, <1>4, <1>5, <1>6, <1>7, <1>8, <1>9, <1>10, <1>11, <1>12,
     <1>13, <1>14, <1>15, <1>16

\* A new process is well typed.
LEMMA TypeInit == Init => TypeOK
<1> SUFFICES ASSUME Init
             PROVE  TypeOK
  OBVIOUS
<1> USE DEF Init
<1>1. SettingsOK
  <2>1. config.mode \in Modes
    BY ConfigsAssumption DEF Config
  <2>2. results \in Seq([call : ConfigCalls, ok : BOOLEAN, revision : Nat])
    OBVIOUS
  <2> QED
    BY <2>1, <2>2 DEF SettingsOK, Modes
<1>2. SamplesOK /\ QueuesOK
  BY DEF SamplesOK, QueuesOK
<1>3. TaskOK
  BY DEF TaskOK, NoHardware, Methods
<1>4. OutsideOK
  BY MaxCallsAssumption DEF OutsideOK
<1> QED
  BY <1>1, <1>2, <1>3, <1>4 DEF TypeOK

\* Every step keeps the types.
LEMMA TypeStep == TypeOK /\ [Next]_vars => TypeOK'
<1> SUFFICES ASSUME TypeOK, [Next]_vars
             PROVE  TypeOK'
  OBVIOUS
<1>1. CASE Next
  BY <1>1, OutsideStepType, ExecuteStepType, TakeStepType, OperationStepType
  DEF Next, DrainNext
<1>2. CASE UNCHANGED vars
  BY <1>2 DEF vars, settings, samples, queues, task, outside, TypeOK,
              SettingsOK, SamplesOK, QueuesOK, TaskOK, OutsideOK
<1> QED
  BY <1>1, <1>2

\* Every variable keeps its type in every behaviour.
THEOREM TypeCorrect == SafetySpec => []TypeOK
BY TypeInit, TypeStep, PTL DEF SafetySpec

-----------------------------------------------------------------------------
(* The inductive invariant behind the safety properties.  ConfirmedMatchesEC *)
(* is not inductive: it does not say which call the worker waits for at each *)
(* await, nor what a call that has returned did to the EC.                   *)

\* The worker waits for the executor exactly at the awaits, and at each of them
\* for the call that was made there.
CallFitsPlace ==
  /\ worker \in {"idle", "scheduled"} => pc = "next"
  /\ worker = "running" => pc \in {"next", "begin", "apply"}
  /\ worker = "waiting" =>
       \/ pc = "probe" /\ hw.method = "probe"
       \/ pc = "rpm" /\ hw.method = "rpm"
       \/ pc = "boost" /\ hw.method = "set" /\ hw.pair = MaxPair
       \/ pc = "tick" /\ hw.method = "set"
       \/ pc = "apply" /\ candidate.mode = "override" /\ hw.method = "set"
       \/ pc = "apply" /\ candidate.mode = "bios" /\ hw.method = "restore"
            /\ hw.pair = NoPair
       \/ pc = "restore" /\ hw.method = "restore" /\ hw.pair = NoPair
       \/ pc \in {"close", "closeRaise"} /\ hw.method = "close"

Writes == hw.method \in {"set", "restore"}

\* What is known of the EC, from the report and from the call under way.
ReportFitsEC ==
  /\ applied = "bios" => duty = NoPair
  /\ worker = "waiting" => hw.done \in {"pending", "ok", "error", "preflight"}
  /\ (worker = "waiting" /\ hw.done = "ok" /\ Writes) => ec = hw.pair
  /\ applied # "unknown" =>
       IF worker = "waiting" /\ hw.done # "pending" /\ Writes
       THEN hw.done # "ok" => ec \in {duty, hw.pair}
       ELSE ec = duty

\* After a fault, or after close(), no operation gets beyond its first checks.
FaultFitsPlace ==
  /\ fault # "none" => pc \in {"next", "begin", "close", "closeRaise"}
  /\ closed => pc \in {"next", "begin"}
  /\ fault = "sensor" => applied = "override" /\ duty = MaxPair

\* The confirmed mode is that of the configuration, until stop() restores the
\* BIOS under an override configuration; so a tick writes in override mode only.
ModeFitsConfig ==
  /\ (applied = "bios" /\ ~closed /\ pc \notin {"close", "closeRaise"})
       => config.mode = "bios"
  /\ pc = "tick" => config.mode = "override"

IInv ==
  /\ TypeOK
  /\ CallFitsPlace
  /\ ReportFitsEC
  /\ FaultFitsPlace
  /\ ModeFitsConfig

Inductive == CallFitsPlace /\ ReportFitsEC /\ FaultFitsPlace /\ ModeFitsConfig

\* The callers and the samples reach none of the variables of IInv, except that
\* a call wakes an idle worker.
LEMMA OutsideStepSafe ==
  ASSUME IInv, CallerNext \/ SampleNext
  PROVE  Inductive'
<1>1. /\ UNCHANGED <<config, applied, duty, fault, closed, ec, pc, hw, candidate>>
      /\ \/ worker' = worker
         \/ worker = "idle" /\ worker' = "scheduled"
  <2>1. ASSUME NEW c, NEW r, Ask(c, r)
        PROVE  /\ UNCHANGED <<config, applied, duty, fault, closed, ec, pc, hw,
                              candidate>>
               /\ \/ worker' = worker
                  \/ worker = "idle" /\ worker' = "scheduled"
    BY <2>1 DEF Ask, Wake, settings
  <2>2. CASE CallerNext
    BY <2>1, <2>2 DEF CallerNext, Change, Reload, Tick, ReadRpm, Start, Serve,
                      Leave, Stop, SubmitCommand, settings, task
  <2>3. CASE SampleNext
    BY <2>3 DEF SampleNext, OnSample, OnStaged, Expire, settings, task
  <2> QED
    BY <2>2, <2>3
<1> QED
  BY <1>1 DEF IInv, Inductive, CallFitsPlace, ReportFitsEC, FaultFitsPlace,
      ModeFitsConfig,
              Writes

\* The EC call ends: with its effect, or failed on either side of it.
LEMMA ExecuteStepSafe ==
  ASSUME IInv, Execute
  PROVE  Inductive'
<1>1. UNCHANGED <<config, applied, duty, fault, closed, worker, pc, candidate>>
  BY DEF Execute, settings
<1>2. /\ hw'.method = hw.method /\ hw'.pair = hw.pair
      /\ worker = "waiting" /\ hw.done = "pending"
      /\ \/ hw'.done = "ok" /\ ec' = IF Writes THEN hw.pair ELSE ec
         \/ hw'.done \in {"error", "preflight"} /\ ~Writes /\ ec' = ec
         \/ hw'.done \in {"error", "preflight"} /\ Writes
              /\ ec' \in {ec, hw.pair}
  BY DEF Execute, Effect, Writes, IInv, TypeOK, TaskOK
<1> QED
  BY <1>1, <1>2 DEF IInv, Inductive, CallFitsPlace, ReportFitsEC,
                    FaultFitsPlace, ModeFitsConfig, Writes

\* The worker takes an operation, or ends.
LEMMA TakeStepSafe ==
  ASSUME IInv, DrainCommand \/ DrainPeriodic \/ DrainRpm \/ DrainDone
  PROVE  Inductive'
<1>1. /\ UNCHANGED <<config, applied, duty, fault, closed, ec, hw, candidate>>
      /\ worker # "waiting" /\ pc = "next"
      /\ \/ worker' = "running" /\ pc' = "begin"
         \/ worker' = "idle" /\ pc' = "next"
  BY DEF DrainCommand, DrainPeriodic, DrainRpm, DrainDone, Draining, Take,
         settings
<1> QED
  BY <1>1 DEF IInv, Inductive, CallFitsPlace, ReportFitsEC, FaultFitsPlace,
      ModeFitsConfig,
              Writes

\* A commit after its write was confirmed, or with nothing to write.
LEMMA CommitSafe ==
  ASSUME IInv, NEW pair, Commit(pair), OperationStep,
         fault = "none", ~closed,
         candidate.mode = "bios" => pair = NoPair,
         ec = pair
  PROVE  Inductive'
BY DEF Commit, Confirm, Finish, NoHardware, OperationStep, Inductive,
       CallFitsPlace, ReportFitsEC, FaultFitsPlace, ModeFitsConfig, Writes

\* The steps of the operations.
LEMMA OperationStepSafe ==
  ASSUME IInv,
         \/ HardwareFailed \/ Boosted
         \/ StartBegin \/ StartProbed \/ ConfigurationBegin \/ Apply \/ Applied
         \/ TickBegin \/ TickWritten
         \/ RpmBegin \/ RpmRead
         \/ StopBegin \/ StopRestored \/ StopNotRestored \/ StopClosed
  PROVE  Inductive'
<1> USE DEF IInv, Inductive, CallFitsPlace, ReportFitsEC, FaultFitsPlace,
            ModeFitsConfig, Writes, OperationStep, NoHardware, settings
<1>1. ASSUME NEW status, NEW rev, Finish(status, rev),
             UNCHANGED <<config, applied, duty, fault, closed, ec>>,
             worker = "running" \/ hw.method = "rpm"
      PROVE  Inductive'
  <2>1. worker' = "running" /\ pc' = "next"
    BY <1>1 DEF Finish
  <2>2. applied # "unknown" => ec = duty
    BY <1>1
  <2>3. CallFitsPlace' /\ FaultFitsPlace'
    BY <1>1, <2>1
  <2>4. ReportFitsEC'
    BY <1>1, <2>1, <2>2
  <2>5. ModeFitsConfig'
    <3>1. pc \notin {"close", "closeRaise"}
      BY <1>1 DEF TypeOK, TaskOK
    <3> QED
      BY <1>1, <2>1, <3>1
  <2> QED
    BY <2>3, <2>4, <2>5
<1>2. ASSUME NEW where, NEW method, NEW pair, Await(where, method, pair),
             UNCHANGED <<config, applied, duty, fault, closed, ec, candidate>>,
             worker = "running", fault = "none", ~closed,
             \/ where = "probe" /\ method = "probe"
             \/ where = "rpm" /\ method = "rpm"
             \/ where = "boost" /\ method = "set" /\ pair = MaxPair
             \/ where = "tick" /\ method = "set" /\ config.mode = "override"
             \/ where = "apply" /\ candidate.mode = "override" /\ method = "set"
             \/ where = "apply" /\ candidate.mode = "bios"
                  /\ method = "restore" /\ pair = NoPair
             \/ where = "restore" /\ method = "restore" /\ pair = NoPair
      PROVE  Inductive'
  BY <1>2 DEF Await
<1>3. ASSUME NEW status, EndAtOnce(status), worker = "running"
      PROVE  Inductive'
  BY <1>1, <1>3 DEF EndAtOnce
<1>4. ASSUME Fail
      PROVE  worker' = "running" /\ pc' = "next" /\ hw' = NoHardware
  BY <1>4 DEF Fail, Finish
<1>5. CASE HardwareFailed
  BY <1>4, <1>5, PairsAssumption DEF HardwareFailed, MarkUnknown, MarkFault, Resumed
<1>6. CASE Boosted
  BY <1>4, <1>6 DEF Boosted, MarkFault, Resumed
<1>7. CASE StartBegin
  BY <1>2, <1>3, <1>7 DEF StartBegin, At, Inactive
<1>8. CASE StartProbed
  BY <1>8 DEF StartProbed, Resumed
<1>9. CASE ConfigurationBegin
  <2>1. worker = "running" /\ UNCHANGED <<config, applied, duty, fault, closed, ec>>
    BY <1>9 DEF ConfigurationBegin
  <2>2. CASE Fail
    BY <1>4, <2>1, <2>2
  <2>3. CASE \E status, rev : Finish(status, rev)
    BY <1>1, <2>1, <2>3
  <2>4. CASE ~Inactive /\ pc' = "apply" /\ UNCHANGED <<worker, hw>>
    BY <2>1, <2>4 DEF Inactive
  <2> QED
    BY <1>9, <2>2, <2>3, <2>4 DEF ConfigurationBegin
<1>10. CASE Apply
  <2>1. worker = "running" /\ pc = "apply" /\ ec' = ec
    BY <1>10 DEF Apply
  <2>2. fault = "none" /\ ~closed
    BY <2>1
  <2>3. CASE candidate.mode = "bios" /\ applied = "bios" /\ Commit(NoPair)
    BY <1>10, <2>1, <2>2, <2>3, CommitSafe DEF Apply
  <2>4. CASE ~(candidate.mode = "bios" /\ applied = "bios" /\ Commit(NoPair))
    BY <1>2, <1>10, <2>1, <2>2, <2>4 DEF Apply
  <2> QED
    BY <2>3, <2>4
<1>11. CASE Applied
  <2>1. /\ worker = "waiting" /\ pc = "apply" /\ hw.done = "ok"
        /\ Commit(hw.pair) /\ OperationStep
    BY <1>11 DEF Applied, Resumed
  <2> QED
    BY <2>1, CommitSafe
<1>12. CASE TickBegin
  <2>1. CASE Inactive \/ ~identified
    BY <1>3, <1>12, <2>1 DEF TickBegin, At
  <2>2. CASE ~(Inactive \/ ~identified)
    BY <1>1, <1>2, <1>12, <2>2 DEF TickBegin, At, Inactive, Boost
  <2> QED
    BY <2>1, <2>2
<1>13. CASE TickWritten
  BY <1>13 DEF TickWritten, Resumed, Finish
<1>14. CASE RpmBegin
  BY <1>2, <1>3, <1>14 DEF RpmBegin, At, Inactive
<1>15. CASE RpmRead
  BY <1>1, <1>15 DEF RpmRead, Resumed
<1>16. CASE StopBegin
  BY <1>3, <1>16 DEF StopBegin, At, Normal, MarkFault, Await
<1>17. CASE StopRestored
  BY <1>17 DEF StopRestored, Resumed, Await
<1>18. CASE StopNotRestored
  BY <1>18 DEF StopNotRestored, Resumed, Await, MarkUnknown, MarkFault
<1>19. CASE StopClosed
  BY <1>19 DEF StopClosed, Resumed, Finish
<1> QED
  BY <1>5, <1>6, <1>7, <1>8, <1>9, <1>10, <1>11, <1>12, <1>13, <1>14, <1>15,
     <1>16, <1>17, <1>18, <1>19

\* IInv holds in every behaviour.
THEOREM InductiveInvariant == SafetySpec => []IInv
<1>1. Init => IInv
  <2> SUFFICES ASSUME Init
               PROVE  IInv
    OBVIOUS
  <2>1. TypeOK
    BY TypeInit
  <2> QED
    BY <2>1 DEF Init, IInv, CallFitsPlace, ReportFitsEC, FaultFitsPlace,
              ModeFitsConfig
<1>2. IInv /\ [Next]_vars => IInv'
  <2> SUFFICES ASSUME IInv, [Next]_vars
               PROVE  IInv'
    OBVIOUS
  <2>1. TypeOK'
    BY TypeStep DEF IInv
  <2>2. CASE Next
    <3>1. Inductive'
      BY <2>2, OutsideStepSafe, ExecuteStepSafe, TakeStepSafe, OperationStepSafe
      DEF Next, DrainNext
    <3> QED
      BY <2>1, <3>1 DEF IInv, Inductive
  <2>3. CASE UNCHANGED vars
    BY <2>1, <2>3 DEF vars, settings, task, IInv, CallFitsPlace, ReportFitsEC,
                      FaultFitsPlace, ModeFitsConfig, Writes
  <2> QED
    BY <2>2, <2>3
<1> QED
  BY <1>1, <1>2, PTL DEF SafetySpec

\* What the controller reports as applied is what the EC does.
THEOREM ConfirmedIsReal == SafetySpec => []ConfirmedMatchesEC
<1>1. IInv => ConfirmedMatchesEC
  BY DEF IInv, ReportFitsEC, Writes, ConfirmedMatchesEC, Writing
<1> QED
  BY <1>1, InductiveInvariant, PTL

\* A lost sensor leaves the fans at the maximum, through the stop and after it.
THEOREM SensorFaultIsSafe == SafetySpec => []SensorFaultAtMax
<1>1. IInv => SensorFaultAtMax
  BY DEF IInv, TypeOK, TaskOK, CallFitsPlace, ReportFitsEC, FaultFitsPlace,
      ModeFitsConfig,
         Writes, SensorFaultAtMax
<1> QED
  BY <1>1, InductiveInvariant, PTL

\* After a fault nothing but close() reaches the hardware.
THEOREM FaultKeepsQuiet == SafetySpec => []FaultIsQuiet
<1>1. IInv => FaultIsQuiet
  BY DEF IInv, CallFitsPlace, FaultFitsPlace, FaultIsQuiet
<1> QED
  BY <1>1, InductiveInvariant, PTL

\* After close() nothing reaches the executor, which is shut down.
THEOREM ClosedKeepsQuiet == SafetySpec => []ClosedIsQuiet
<1>1. IInv => ClosedIsQuiet
  BY DEF IInv, CallFitsPlace, FaultFitsPlace, ClosedIsQuiet
<1> QED
  BY <1>1, InductiveInvariant, PTL

\* The first fault and its exit category stay.
THEOREM FirstFaultIsFinal == SafetySpec => FirstFaultStays
<1>1. ASSUME IInv, [Next]_vars, fault # "none"
      PROVE  fault' = fault /\ failure' = failure
  <2>1. pc \in {"next", "begin", "close", "closeRaise"}
    BY <1>1 DEF IInv, FaultFitsPlace
  <2>2. CASE UNCHANGED vars
    BY <2>2 DEF vars, settings
  <2>3. CASE CallerNext \/ SampleNext \/ Execute
    <3>1. ASSUME NEW c, NEW r, Ask(c, r)
          PROVE  fault' = fault /\ failure' = failure
      BY <3>1 DEF Ask, settings
    <3> QED
      BY <2>3, <3>1 DEF CallerNext, SampleNext, Execute, Change, Reload, Tick,
           ReadRpm, Start, Serve, Leave, Stop, SubmitCommand, OnSample,
           OnStaged, Expire, settings
  <2>4. CASE DrainNext
    <3>1. CASE DrainCommand \/ DrainPeriodic \/ DrainRpm \/ DrainDone
      BY <3>1 DEF DrainCommand, DrainPeriodic, DrainRpm, DrainDone, Take, settings
    <3>2. CASE StartBegin \/ ConfigurationBegin \/ TickBegin \/ RpmBegin
      BY <1>1, <3>2 DEF StartBegin, ConfigurationBegin, TickBegin, RpmBegin,
           EndAtOnce, Inactive, settings
    <3>3. CASE StopBegin \/ StopClosed
      BY <1>1, <3>3 DEF StopBegin, StopClosed, EndAtOnce, Normal, settings
    <3>4. CASE HardwareFailed \/ Boosted \/ StartProbed \/ Apply \/ Applied
               \/ TickWritten \/ RpmRead \/ StopRestored \/ StopNotRestored
      BY <2>1, <3>4 DEF HardwareFailed, Boosted, StartProbed, Apply, Applied,
           TickWritten, RpmRead, StopRestored, StopNotRestored, Resumed
    <3> QED
      BY <2>4, <3>1, <3>2, <3>3, <3>4 DEF DrainNext
  <2> QED
    BY <1>1, <2>2, <2>3, <2>4 DEF Next
<1>2. IInv /\ [Next]_vars => [fault # "none" => fault' = fault /\ failure' = failure]_vars
  BY <1>1
<1> QED
  BY <1>2, InductiveInvariant, PTL DEF FirstFaultStays, SafetySpec

=============================================================================
