---------------------------- MODULE MqttCommands ----------------------------
(***************************************************************************)
(* The MQTT adapter's commands and results (mqtt.py): what _on_message     *)
(* queues, the worker that passes it to the controller and publishes the   *)
(* results, stop(), and - external - a broker that repeats messages and a  *)
(* network that loses connections and acknowledgements.  The transport is  *)
(* a link that is up or down (module MqttAnnounce has the whole of it).    *)
(* The broker numbers the messages of a connection 1, 2, ...; it comes     *)
(* round after 65535.  A copy's number stands for the uuid drawn for it.   *)
(***************************************************************************)
EXTENDS Naturals, Sequences, FiniteSets

CONSTANTS
  QueueLimit,   \* of _commands: 256
  ResultLimit,  \* of _results: 512
  IdLimit,      \* of _packet_ids: 512
  Batch,        \* the commands of a round: 32
  MaxMid,       \* bound: messages on one connection
  MaxCopies,    \* bound: copies of messages
  MaxFaults     \* bound: lost connections and acknowledgements

ASSUME CommandConstants ==
  /\ QueueLimit \in Nat \ {0} /\ ResultLimit \in Nat \ {0}
  /\ IdLimit \in Nat \ {0} /\ Batch \in Nat \ {0}
  /\ MaxMid \in Nat /\ MaxCopies \in Nat /\ MaxFaults \in Nat

VARIABLES
  link,      \* a current client that is connected: up or down
  gen,       \* _generation
  kind,      \* of each message: none yet, set, scalar or bad (rejected)
  queue,     \* _commands
  memory,    \* _packet_ids: message, its id, the copy it was stored for
  submitted, \* history: scalar messages as submitted, under which id
  worker,    \* where the worker is, commands taken, generation captured
  results,   \* _results, as the messages they answer
  flight,    \* the result in publication: none, sent, there, acked
  answered,  \* messages with a result at the broker
  stopper,   \* stop(), on the event loop: run, stop, end
  copies, faults

broker == <<kind, copies>>
ids == <<memory, submitted>>
answers == <<results, flight, answered>>
vars == <<link, gen, broker, queue, ids, worker, answers, stopper, faults>>

Messages == (1 .. MaxFaults + 1) \X (1 .. MaxMid)
Copy(m, n, dup) == [msg |-> m, copy |-> n, dup |-> dup]
NoCopy == Copy(<<0, 0>>, 0, FALSE)

Init ==
  /\ link = "down" /\ gen = 0
  /\ kind = [m \in Messages |-> "none"] /\ copies = 0 /\ faults = 0
  /\ queue = <<>> /\ memory = {} /\ submitted = {}
  /\ worker = [pc |-> "top", taken |-> 0, item |-> NoCopy, gen |-> 0]
  /\ results = <<>> /\ flight = "none" /\ answered = {} /\ stopper = "run"

Fault == faults < MaxFaults /\ faults' = faults + 1
At(pc) == worker.pc = pc
Goto(pc) == worker' = [worker EXCEPT !.pc = pc]

-----------------------------------------------------------------------------
(* The transport, the broker and the network. *)

Connect ==
  /\ link = "down" /\ stopper = "run" /\ gen <= MaxFaults
  /\ link' = "up" /\ gen' = gen + 1 /\ memory' = {}
  /\ UNCHANGED <<broker, queue, submitted, worker, answers, stopper, faults>>

Disconnect ==
  /\ link = "up" /\ Fault /\ link' = "down"
  /\ UNCHANGED <<gen, broker, queue, ids, worker, answers, stopper>>

\* _on_message; a full queue is answered for at once and forgotten.
Arrives(m, dup) ==
  /\ link = "up" /\ m[1] = gen /\ copies < MaxCopies /\ copies' = copies + 1
  /\ queue' = IF Len(queue) < QueueLimit
              THEN Append(queue, Copy(m, copies + 1, dup)) ELSE queue
  /\ UNCHANGED <<link, gen, ids, worker, answers, stopper, faults>>

First(m) == \E k \in {"set", "scalar", "bad"} :
  /\ kind[m] = "none" /\ \A n \in 1 .. m[2] - 1 : kind[<<m[1], n>>] # "none"
  /\ kind' = [kind EXCEPT ![m] = k] /\ Arrives(m, FALSE)

\* QoS 1: the broker may not have got the acknowledgement yet.
Again(m) == kind[m] # "none" /\ Arrives(m, TRUE) /\ UNCHANGED kind

Reaches ==
  /\ flight = "sent" /\ link = "up" /\ gen = worker.gen
  /\ flight' = "there" /\ answered' = answered \cup {Head(results)}
  /\ UNCHANGED <<link, gen, broker, queue, ids, worker, results, stopper, faults>>

PubAck ==
  /\ flight = "there" /\ link = "up" /\ gen = worker.gen /\ flight' = "acked"
  /\ UNCHANGED <<link, gen, broker, queue, ids, worker, results, answered, stopper, faults>>

-----------------------------------------------------------------------------
(* The worker. *)

Top ==
  /\ At("top")
  /\ worker' = [worker EXCEPT !.pc = IF stopper = "run" THEN "take" ELSE "end", !.taken = 0]
  /\ UNCHANGED <<link, gen, broker, queue, ids, answers, stopper, faults>>

\* Mutant: packet ids without their connection.
KnownByMid(c) == {e \in memory : c.dup /\ e.msg[2] = c.msg[2]}
\* What _packet_ids holds for a duplicate.
Known(c) == {e \in memory : c.dup /\ e.msg = c.msg}

\* The oldest entry makes room.
Remember(c) ==
  LET all == memory \cup {[msg |-> c.msg, id |-> c.copy, at |-> c.copy]}
  IN  IF Cardinality(all) <= IdLimit THEN all
      ELSE {e \in all : \E f \in all : f.at < e.at}

\* A scalar gets its duplicate's id, or a new one.
Identify(c) ==
  IF Known(c) # {}
  THEN \E e \in Known(c) :
         submitted' = submitted \cup {[msg |-> c.msg, id |-> e.id, at |-> c.copy]}
         /\ UNCHANGED memory
  ELSE submitted' = submitted \cup {[msg |-> c.msg, id |-> c.copy, at |-> c.copy]}
       /\ memory' = Remember(c)

More == worker.taken < Batch /\ Len(results) < ResultLimit /\ queue # <<>>

\* parse_command does not take the copy: it is retained, or malformed.
Rejected(c) == kind[c.msg] = "bad"

\* submit: the worker waits for the controller.
Take == LET c == Head(queue) IN
  /\ At("take") /\ More /\ ~Rejected(c)
  /\ queue' = Tail(queue)
  /\ worker' = [worker EXCEPT !.pc = "handle", !.taken = @ + 1, !.item = c]
  /\ IF kind[c.msg] = "scalar" THEN Identify(c) ELSE UNCHANGED ids
  /\ UNCHANGED <<link, gen, broker, answers, stopper, faults>>

Reject ==
  /\ At("take") /\ More /\ Rejected(Head(queue))
  /\ queue' = Tail(queue) /\ results' = Append(results, Head(queue).msg)
  /\ worker' = [worker EXCEPT !.taken = @ + 1]
  /\ UNCHANGED <<link, gen, broker, ids, flight, answered, stopper, faults>>

\* The future's result, or any exception, cancellation included: they need the
\* event loop, which stop() blocks.
Completed ==
  /\ At("handle") /\ stopper # "stop"
  /\ worker' = [worker EXCEPT !.pc = "take", !.item = NoCopy]
  /\ results' = Append(results, worker.item.msg)
  /\ UNCHANGED <<link, gen, broker, queue, ids, flight, answered, stopper, faults>>

\* The announcement that comes here is module MqttAnnounce's.
Enough ==
  /\ At("take") /\ ~More
  /\ worker' = [worker EXCEPT !.pc = IF link = "up" THEN "publish" ELSE "top", !.gen = gen]
  /\ UNCHANGED <<link, gen, broker, queue, ids, answers, stopper, faults>>

Publish ==
  /\ At("publish")
  /\ IF results # <<>> /\ link = "up" /\ gen = worker.gen
     THEN flight' = "sent" /\ Goto("wait")
     ELSE UNCHANGED flight /\ Goto("top")
  /\ UNCHANGED <<link, gen, broker, queue, ids, results, answered, stopper, faults>>

Published ==
  /\ At("wait") /\ flight = "acked"
  /\ flight' = "none" /\ results' = Tail(results) /\ Goto("publish")
  /\ UNCHANGED <<link, gen, broker, queue, ids, answered, stopper, faults>>

\* Two seconds, on a dead connection or a live one: it will be sent again.
NotPublished ==
  /\ At("wait") /\ flight # "acked"
  /\ IF link = "up" /\ gen = worker.gen THEN Fault ELSE UNCHANGED faults
  /\ flight' = "none" /\ Goto("top")
  /\ UNCHANGED <<link, gen, broker, queue, ids, results, answered, stopper>>

Worker ==
  Top \/ Take \/ Reject \/ Enough \/ Publish \/ Published \/ NotPublished

-----------------------------------------------------------------------------
(* stop(), called on the event loop (cli.py:134). *)

StopBegins ==
  /\ stopper = "run" /\ stopper' = "stop"
  /\ UNCHANGED <<link, gen, broker, queue, ids, worker, answers, faults>>

\* Mutant: join without a time limit.
JoinForever ==
  /\ stopper = "stop" /\ At("end") /\ stopper' = "end" /\ link' = "down"
  /\ UNCHANGED <<gen, broker, queue, ids, worker, answers, faults>>

\* join(timeout=2): the worker may be waiting for this very thread.
StopEnds ==
  /\ stopper = "stop" /\ stopper' = "end" /\ link' = "down"
  /\ UNCHANGED <<gen, broker, queue, ids, worker, answers, faults>>

-----------------------------------------------------------------------------
Next ==
  \/ Connect \/ Disconnect \/ Reaches \/ PubAck
  \/ \E m \in Messages : First(m) \/ Again(m)
  \/ Worker \/ Completed \/ StopBegins \/ StopEnds

SafetySpec == Init /\ [][Next]_vars

\* The worker's thread runs, the event loop serves the commands it is not kept
\* from, stop() returns from its waits, and a broker that can be reached answers.
Spec ==
  /\ SafetySpec
  /\ WF_vars(Worker) /\ WF_vars(Completed) /\ WF_vars(StopEnds)
  /\ WF_vars(Connect) /\ WF_vars(Reaches) /\ WF_vars(PubAck)

-----------------------------------------------------------------------------
(* Properties. *)

Copies == [msg : Messages, copy : 1 .. MaxCopies, dup : BOOLEAN]
Items == Copies \cup {NoCopy}
Workers == [pc : {"top", "take", "handle", "publish", "wait", "end"},
            taken : Nat, item : Items, gen : Nat]
Uses == [msg : Messages, id : 1 .. MaxCopies, at : 1 .. MaxCopies]

\* Types.
TypeOK ==
  /\ link \in {"up", "down"} /\ gen \in 0 .. MaxFaults + 1
  /\ kind \in [Messages -> {"none", "set", "scalar", "bad"}]
  /\ copies \in 0 .. MaxCopies /\ faults \in 0 .. MaxFaults
  /\ queue \in Seq(Copies)
  /\ memory \subseteq Uses /\ submitted \subseteq Uses
  /\ worker \in Workers /\ (At("handle") => worker.item \in Copies)
  /\ results \in Seq(Messages) /\ answered \subseteq Messages
  /\ flight \in {"none", "sent", "there", "acked"}
  /\ stopper \in {"run", "stop", "end"}

\* Neither _commands nor _results outgrows its limit, though a command that is
\* being handled adds its result later.
Bounded == Len(queue) <= QueueLimit /\ Len(results) <= ResultLimit

\* No two messages go to the controller under one id, which would answer the
\* second with the first one's result.
IdsAreNotShared == \A e, f \in submitted : e.id = f.id => e.msg = f.msg

Between(e, f) == {g.msg : g \in {h \in submitted : e.id < h.at /\ h.at < f.at}} \ {e.msg}

\* A scalar message and its duplicates go to the controller under one id, so
\* that it runs once, unless its connection is gone or IdLimit others came in
\* between.
OneIdEach ==
  \A e, f \in submitted :
    e.msg = f.msg /\ e.at < f.at /\ e.id # f.id /\ e.msg[1] = gen =>
      Cardinality(Between(e, f)) >= IdLimit

\* A duplicate is taken for what it is, and nothing else is, though packet ids
\* begin anew with every connection and copies be refused by a full queue.
DuplicatesRecognised == IdsAreNotShared /\ OneIdEach

Queued(m) == \E i \in DOMAIN queue : queue[i].msg = m

\* A command that was queued gets its answer at the broker, over lost
\* connections and acknowledgements, or the adapter has stopped: stop() does
\* not wait for ever for a worker that waits for its thread.
EveryCommandEnds == \A m \in Messages :
  Queued(m) ~> m \in answered \/ stopper = "end"

=============================================================================
