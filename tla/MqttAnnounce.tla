---------------------------- MODULE MqttAnnounce ----------------------------
(***************************************************************************)
(* How the MQTT adapter (mqtt.py) keeps what the broker retains equal to   *)
(* the controller's state: the transport and its generations, the worker   *)
(* that announces a state message by message, the threads that publish     *)
(* states and stop the adapter, and - external - the broker and a network  *)
(* that loses connections and acknowledgements.  Commands and results are  *)
(* left out.  The code only compares its counters for equality, so each    *)
(* becomes a flag - `synced` is _generation = _synced_generation - and     *)
(* job.moved names those that moved since the worker read them for the     *)
(* announcement it is at.                                                  *)
(***************************************************************************)
EXTENDS Naturals, Sequences

CONSTANTS
  States,      \* the snapshots the controller publishes, by name
  Configs,     \* the configurations in them (the discovery fingerprints)
  Docs,        \* discovery topics
  Sources,     \* sources, each with an availability topic
  ConfigOf,    \* state -> its configuration
  StatusOf,    \* state -> [source -> "online", "offline" or "" (absent)]
  KeyOf,       \* state -> its urgent key
  DocsOf,      \* configuration -> the topics build_discovery gives it
  MaxFaults,   \* bound: lost connections, acknowledgements, broker restarts
  MaxNews      \* bound: states published and births seen

ASSUME MqttConstants ==
  /\ "" \notin States /\ "" \notin Configs
  /\ Docs \cap Sources = {}
  /\ (Docs \cup Sources) \cap {"", "state", "availability"} = {}
  /\ ConfigOf \in [States -> Configs]
  /\ DocsOf \in [Configs -> SUBSET Docs]
  /\ StatusOf \in [States -> [Sources -> {"", "online", "offline"}]]
  /\ \A s, t \in States : KeyOf[s] = KeyOf[t] =>
        ConfigOf[s] = ConfigOf[t] /\ StatusOf[s] = StatusOf[t]
  /\ MaxFaults \in Nat /\ MaxNews \in Nat

VARIABLES
  conn,      \* link: down (no client), opening, up; online, synced, backoff
  news,      \* the latest state; is it dirty; is a birth to be answered
  known,     \* what was announced: docs, fingerprint, avail, urgent key
  pc,        \* where the worker is
  job,       \* its announcement: state, topics to do, topic in flight, moved
  retry,     \* retry_announce
  stopper,   \* where stop() is
  session,   \* the broker's side of the connection
  wire,      \* publications on their way to the broker, in order
  acked,     \* the publication the worker waits for has been acknowledged
  retained,  \* topic -> payload the broker retains, "" for none
  faults, changes

memory == <<known, retry>>
network == <<session, wire, acked, retained>>
budget == <<faults, changes>>
vars == <<conn, news, memory, pc, job, stopper, network, budget>>

Topics == Docs \cup Sources \cup {"state", "availability"}

\* What the topics should hold, `availability` apart, once s is announced.
Image(s) ==
  [t \in Topics \ {"availability"} |->
     CASE t \in Docs -> IF t \in DocsOf[ConfigOf[s]] THEN ConfigOf[s] ELSE ""
       [] t \in Sources -> StatusOf[s][t]
       [] t = "state" -> s]

Complete(s) == \A t \in DOMAIN Image(s) : retained[t] = Image(s)[t]

NoJob == [state |-> "", todo |-> {}, topic |-> "", moved |-> {}]

-----------------------------------------------------------------------------
Init ==
  /\ conn = [link |-> "opening", online |-> FALSE, synced |-> TRUE, backoff |-> FALSE]
  /\ news = [latest |-> "", dirty |-> FALSE, birth |-> FALSE]
  /\ known = [docs |-> {}, fingerprint |-> "", avail |-> [x \in Sources |-> ""],
              key |-> ""]
  /\ pc = "top" /\ job = NoJob /\ retry = FALSE /\ stopper = "run"
  /\ session = "none" /\ wire = <<>> /\ acked = FALSE
  /\ retained = [t \in Topics |-> ""]
  /\ faults = 0 /\ changes = 0

Fault == faults < MaxFaults /\ faults' = faults + 1 /\ UNCHANGED changes
Change == changes < MaxNews /\ changes' = changes + 1 /\ UNCHANGED faults

\* Tell the announcement under way, if there is one, that a counter moved.
Move(counter) ==
  job' = IF job = NoJob THEN job ELSE [job EXCEPT !.moved = @ \cup {counter}]

-----------------------------------------------------------------------------
(* The controller and Home Assistant bring news. *)

PublishState(s) ==
  /\ Change
  /\ news' = [news EXCEPT !.latest = s, !.dirty = TRUE] /\ Move("state")
  /\ UNCHANGED <<conn, memory, pc, stopper, network>>

\* _on_message, homeassistant/status, of the current client.
Birth ==
  /\ Change /\ conn.link = "up" /\ session = "open"
  /\ news' = [news EXCEPT !.birth = TRUE] /\ Move("birth")
  /\ UNCHANGED <<conn, memory, pc, stopper, network>>

-----------------------------------------------------------------------------
(* The transport: paho's callbacks of the current client. *)

Retired == [conn EXCEPT !.link = "down", !.online = FALSE, !.backoff = TRUE]

OnConnect ==
  /\ conn.link = "opening" /\ session = "none"
  /\ session' = "open"
  /\ conn' = [conn EXCEPT !.link = "up", !.online = FALSE, !.synced = FALSE]
  /\ Move("generation")
  /\ UNCHANGED <<news, memory, pc, stopper, wire, acked, retained, budget>>

OnConnectFail ==
  /\ conn.link = "opening" /\ Fault
  /\ conn' = Retired
  /\ UNCHANGED <<news, memory, pc, job, stopper, network>>

OnDisconnect ==
  /\ conn.link = "up" /\ session # "open"
  /\ conn' = Retired
  /\ UNCHANGED <<news, memory, pc, job, stopper, network, budget>>

BackoffEnds ==
  /\ conn.backoff
  /\ conn' = [conn EXCEPT !.backoff = FALSE]
  /\ UNCHANGED <<news, memory, pc, job, stopper, network, budget>>

-----------------------------------------------------------------------------
(* The broker and the network (external). *)

\* Acknowledges what the worker waits for once that has arrived.
Deliver ==
  /\ session # "none" /\ wire # <<>>
  /\ retained' = [retained EXCEPT ![Head(wire).topic] = Head(wire).payload]
  /\ wire' = Tail(wire)
  /\ acked' = (acked \/ /\ pc \in {"wait", "waitOnline"} /\ session = "open"
                        /\ Head(wire).worker
                        /\ \A i \in DOMAIN Tail(wire) : ~Tail(wire)[i].worker)
  /\ UNCHANGED <<conn, news, memory, pc, job, stopper, session, budget>>

Break ==
  /\ session \in {"open", "closing"} /\ Fault
  /\ session' = "broken"
  /\ UNCHANGED <<conn, news, memory, pc, job, stopper, wire, acked, retained>>

\* The broker gives a broken session up: what was under way is lost, and the
\* will is published (by keepalive, or because the client comes back).
Will ==
  /\ session = "broken"
  /\ session' = "none" /\ wire' = <<>>
  /\ retained' = [retained EXCEPT !["availability"] = "offline"]
  /\ UNCHANGED <<conn, news, memory, pc, job, stopper, acked, budget>>

\* After disconnect() everything queued arrives and no will is published.
Closed ==
  /\ session = "closing" /\ wire = <<>>
  /\ session' = "none"
  /\ UNCHANGED <<conn, news, memory, pc, job, stopper, wire, acked, retained, budget>>

\* A broker that keeps nothing over a restart.
BrokerRestart ==
  /\ session # "none" /\ Fault
  /\ session' = "none" /\ wire' = <<>> /\ retained' = [t \in Topics |-> ""]
  /\ UNCHANGED <<conn, news, memory, pc, job, stopper, acked>>

-----------------------------------------------------------------------------
(* The worker: _work, _announce and _publish. *)

\* What is written to a broken connection goes nowhere.
Enqueue(topic, payload, worker) ==
  wire' = IF session = "open"
          THEN Append(wire, [topic |-> topic, payload |-> payload, worker |-> worker])
          ELSE wire

SameGeneration == conn.link = "up" /\ "generation" \notin job.moved

\* The top of the loop: stop, reconnect when the backoff is over, or go on.
Top ==
  /\ pc = "top"
  /\ pc' = IF stopper # "run" THEN "ended"
           ELSE IF conn.link = "down" /\ ~conn.backoff THEN "starting"
           ELSE "capture"
  /\ UNCHANGED <<conn, news, memory, job, stopper, network, budget>>

\* Variant, not the code's: stop() is not looked at again.
StartTransportBlindly ==
  /\ pc = "starting" /\ pc' = "capture"
  /\ conn' = [conn EXCEPT !.link = "opening"]
  /\ UNCHANGED <<news, memory, job, stopper, network, budget>>

\* _start_transport: a client is only committed while stop() has not begun.
StartTransport ==
  /\ pc = "starting" /\ pc' = "capture"
  /\ conn' = IF stopper = "run" THEN [conn EXCEPT !.link = "opening"] ELSE conn
  /\ UNCHANGED <<news, memory, job, stopper, network, budget>>

\* Variant, not the code's: a birth forces nothing.
ForcedForgetsBirth == ~conn.synced
Forced == ~conn.synced \/ news.birth
Urgent == news.dirty /\ KeyOf[news.latest] # known.key

\* Variant, not the code's: a reconnect does not repeat the documents.
TodoUnforced(s, force) ==
  {"state"} \cup (IF known.fingerprint # ConfigOf[s]
                  THEN known.docs \cup DocsOf[ConfigOf[s]] ELSE {})
    \cup {x \in Sources : known.avail[x] # StatusOf[s][x]}

\* The topics an announcement of s has to write.
Todo(s, force) ==
  LET wanted == DocsOf[ConfigOf[s]]
      docsDue == force \/ known.fingerprint # ConfigOf[s] \/ known.docs # wanted
  IN  {"state"} \cup (IF docsDue THEN known.docs \cup wanted ELSE {})
      \cup {x \in Sources : known.avail[x] # StatusOf[s][x]
                            \/ (force /\ StatusOf[s][x] # "")}

\* Variant, not the code's: only urgency brings a failed announcement back.
CaptureNeverRetries(due) ==
  LET wanted == /\ conn.link = "up" /\ news.latest # ""
                /\ Forced \/ Urgent \/ due
  IN  /\ pc = "capture"
      /\ IF wanted
         THEN /\ pc' = "send" /\ retry' = TRUE
              /\ job' = [NoJob EXCEPT !.state = news.latest,
                                      !.todo = Todo(news.latest, Forced)]
         ELSE pc' = "top" /\ UNCHANGED <<retry, job>>
      /\ UNCHANGED <<conn, news, known, stopper, network, budget>>

\* One look at everything, under the lock; `due` is publish_interval.
Capture(due) ==
  LET wanted == /\ conn.link = "up" /\ news.latest # ""
                /\ Forced \/ Urgent \/ retry \/ due
  IN  /\ pc = "capture"
      /\ IF wanted
         THEN /\ pc' = "send" /\ retry' = TRUE
              /\ job' = [NoJob EXCEPT !.state = news.latest,
                                      !.todo = Todo(news.latest, Forced)]
         ELSE pc' = "top" /\ UNCHANGED <<retry, job>>
      /\ UNCHANGED <<conn, news, known, stopper, network, budget>>

\* Discovery topics to delete, to write, the state, sources gone, sources.
Rank(t) ==
  CASE t \in Docs -> IF Image(job.state)[t] = "" THEN 1 ELSE 2
    [] t = "state" -> 3
    [] t \in Sources -> IF Image(job.state)[t] = "" THEN 4 ELSE 5

First(t) == t \in job.todo /\ \A u \in job.todo : Rank(t) <= Rank(u)

\* Variant, not the code's: the status is taken as published at once.
AttemptedTrusts(t) ==
  IF t \in Sources THEN [known EXCEPT !.avail[t] = Image(job.state)[t]]
  ELSE IF t \in Docs /\ Image(job.state)[t] # "" THEN [known EXCEPT !.docs = @ \cup {t}]
  ELSE [known EXCEPT !.fingerprint = ConfigOf[job.state]]

\* Variant, not the code's: a topic is remembered when it is acknowledged.
AttemptedForgets(t) ==
  IF t \in Sources THEN [known EXCEPT !.avail[t] = "unsure"] ELSE known

\* What is remembered before a topic is written: that it may exist, or that
\* the status of its source is unsure.
Attempted(t) ==
  CASE t \in Docs /\ Image(job.state)[t] # "" -> [known EXCEPT !.docs = @ \cup {t}]
    [] t \in Sources -> [known EXCEPT !.avail[t] = "unsure"]
    [] t = "state" -> [known EXCEPT !.fingerprint = ConfigOf[job.state]]
    [] OTHER -> known

\* ... and once the broker has acknowledged it.
Confirmed(t) ==
  CASE t \in Docs /\ Image(job.state)[t] = "" -> [known EXCEPT !.docs = @ \ {t}]
    [] t \in Sources -> [known EXCEPT !.avail[t] = Image(job.state)[t]]
    [] OTHER -> known

\* A discovery message that failed makes the next announcement repeat them all.
Failed(k, t) == IF t \in Docs THEN [k EXCEPT !.fingerprint = ""] ELSE k

Send(t) ==
  /\ pc = "send" /\ First(t)
  /\ IF SameGeneration
     THEN /\ Enqueue(t, Image(job.state)[t], TRUE)
          /\ known' = Attempted(t)
          /\ job' = [job EXCEPT !.topic = t] /\ pc' = "wait"
     ELSE /\ known' = Failed(Attempted(t), t)
          /\ job' = NoJob /\ pc' = "top" /\ UNCHANGED wire
  /\ UNCHANGED <<conn, news, retry, stopper, session, acked, retained, budget>>

Acknowledged ==
  /\ pc = "wait" /\ acked /\ acked' = FALSE
  /\ known' = Confirmed(job.topic)
  /\ job' = [job EXCEPT !.todo = @ \ {job.topic}, !.topic = ""] /\ pc' = "send"
  /\ UNCHANGED <<conn, news, retry, stopper, session, wire, retained, budget>>

\* wait_for_publish gives up after two seconds: the connection is gone, or
\* the acknowledgement is lost or late.
Lost == IF session = "open" THEN Fault ELSE UNCHANGED budget

TimedOut ==
  /\ pc = "wait" /\ Lost /\ acked' = FALSE
  /\ known' = Failed(known, job.topic)
  /\ job' = NoJob /\ pc' = "top"
  /\ UNCHANGED <<conn, news, retry, stopper, session, wire, retained>>

\* All is sent: note what has been done of what has not moved meanwhile.
Announced ==
  /\ pc = "send" /\ job.todo = {} /\ pc' = "online"
  /\ retry' = FALSE
  /\ conn' = [conn EXCEPT !.synced = @ \/ "generation" \notin job.moved]
  /\ news' = [news EXCEPT !.birth = @ /\ "birth" \in job.moved,
                          !.dirty = @ /\ "state" \in job.moved]
  /\ known' = [known EXCEPT !.key = KeyOf[job.state]]
  /\ UNCHANGED <<job, stopper, network, budget>>

\* The first announcement of a connection ends with "online".
SendOnline ==
  /\ pc = "online"
  /\ IF SameGeneration /\ conn.synced /\ ~conn.online
     THEN Enqueue("availability", "online", TRUE) /\ pc' = "waitOnline" /\ UNCHANGED job
     ELSE job' = NoJob /\ pc' = "top" /\ UNCHANGED wire
  /\ UNCHANGED <<conn, news, memory, stopper, session, acked, retained, budget>>

OnlineAcknowledged ==
  /\ pc = "waitOnline" /\ acked /\ acked' = FALSE
  /\ conn' = [conn EXCEPT !.online = @ \/ SameGeneration]
  /\ job' = NoJob /\ pc' = "top"
  /\ UNCHANGED <<news, memory, stopper, session, wire, retained, budget>>

OnlineTimedOut ==
  /\ pc = "waitOnline" /\ Lost /\ acked' = FALSE
  /\ job' = NoJob /\ pc' = "top"
  /\ UNCHANGED <<conn, news, memory, stopper, session, wire, retained>>

-----------------------------------------------------------------------------
(* stop(), in the thread that stops the service. *)

StopBegins ==
  /\ stopper = "run" /\ stopper' = "set"
  /\ UNCHANGED <<conn, news, memory, pc, job, network, budget>>

StopPublishesOffline ==
  /\ stopper = "set"
  /\ stopper' = IF conn.link = "down" THEN "join" ELSE "offline"
  /\ IF conn.link = "up" THEN Enqueue("availability", "offline", FALSE)
                         ELSE UNCHANGED wire
  /\ UNCHANGED <<conn, news, memory, pc, job, session, acked, retained, budget>>

StopDisconnects ==
  /\ stopper = "offline" /\ stopper' = "join"
  /\ session' = IF session = "open" THEN "closing" ELSE session
  /\ conn' = Retired
  /\ UNCHANGED <<news, memory, pc, job, wire, acked, retained, budget>>

\* The join of the worker has a timeout: it may still be at work.
StopEnds ==
  /\ stopper = "join" /\ stopper' = "done"
  /\ conn' = [conn EXCEPT !.link = "down"]
  /\ UNCHANGED <<news, memory, pc, job, network, budget>>

-----------------------------------------------------------------------------
Work ==
  \/ Top \/ StartTransport \/ Announced
  \/ SendOnline \/ OnlineAcknowledged \/ Acknowledged
  \/ TimedOut \/ OnlineTimedOut
  \/ \E t \in Topics : Send(t)
  \/ \E due \in BOOLEAN : Capture(due)

Paho == OnConnect \/ OnDisconnect \/ BackoffEnds
Broker == Deliver \/ Will \/ Closed
Stop == StopBegins \/ StopPublishesOffline \/ StopDisconnects \/ StopEnds

Next ==
  \/ Work \/ Paho \/ Broker \/ Stop
  \/ (\E s \in States : PublishState(s)) \/ Birth
  \/ OnConnectFail \/ Break \/ BrokerRestart

SafetySpec == Init /\ [][Next]_vars

\* The worker is a thread in a loop, paho and the broker answer in the end,
\* and the backoff is at most thirty seconds.  Nothing makes publish_interval
\* pass, a state appear, or stop() begin.
Spec ==
  /\ SafetySpec
  /\ WF_vars(Work)
  /\ WF_vars(OnConnect) /\ WF_vars(OnDisconnect) /\ WF_vars(BackoffEnds)
  /\ WF_vars(Deliver) /\ WF_vars(Will) /\ WF_vars(Closed)

-----------------------------------------------------------------------------
\* Every variable holds one of the values the code gives it.
TypeOK ==
  /\ conn \in [link : {"down", "opening", "up"}, online : BOOLEAN,
              synced : BOOLEAN, backoff : BOOLEAN]
  /\ news \in [latest : States \cup {""}, dirty : BOOLEAN, birth : BOOLEAN]
  /\ known.docs \subseteq Docs /\ known.fingerprint \in Configs \cup {""}
  /\ known.avail \in [Sources -> {"", "unsure", "online", "offline"}]
  /\ pc \in {"top", "starting", "capture", "send", "wait", "online",
             "waitOnline", "ended"}
  /\ job = NoJob <=> pc \in {"top", "starting", "capture", "ended"}
  /\ job # NoJob => job.state \in States
  /\ job.moved \subseteq {"generation", "state", "birth"}
  /\ job.todo \subseteq Topics /\ (pc = "wait" <=> job.topic \in job.todo)
  /\ retry \in BOOLEAN /\ acked \in BOOLEAN
  /\ stopper \in {"run", "set", "offline", "join", "done"}
  /\ session \in {"none", "open", "broken", "closing"}
  /\ session = "open" => conn.link = "up"
  /\ session = "none" => wire = <<>>
  /\ \A i \in DOMAIN wire : wire[i].topic \in Topics
  /\ DOMAIN retained = Topics
  /\ faults \in 0..MaxFaults /\ changes \in 0..MaxNews

\* "The state is published before online": at the moment the broker starts to
\* show the device online, every discovery document, the state and the status
\* of every source it retains are those of one published state, and nothing
\* of an earlier configuration is left (operations.md:76, mqtt.py:454-477).
OnlineMeansComplete ==
  [][ (retained["availability"] # "online" /\ retained'["availability"] = "online")
        => \E s \in States : Complete(s) ]_vars

\* A topic the broker retains, or may come to retain from what is under way,
\* is remembered, whatever was lost: a later state can still delete it
\* (mqtt.py:345-347, 356-371).
NothingForgotten ==
  LET mayHold(t) == \/ retained[t] # ""
                    \/ \E i \in DOMAIN wire : wire[i].topic = t /\ wire[i].payload # ""
  IN  /\ \A d \in Docs : mayHold(d) => d \in known.docs
      /\ \A x \in Sources : mayHold(x) => known.avail[x] # ""

\* A status taken as acknowledged is what the broker retains, or the next
\* announcement of this connection sends it again (mqtt.py:363-371).
TrustedIsRetained ==
  \A x \in Sources :
    session = "open" /\ conn.synced /\ known.avail[x] \in {"online", "offline"}
      => retained[x] = known.avail[x]

\* Once stop() has returned no client runs, even if the worker had decided to
\* reconnect before stop() began (mqtt.py:212-220, 430-434, 488-504).
StoppedStaysDown == stopper = "done" => conn.link = "down"

\* After the last fault and the last change, the broker comes to retain the
\* latest state in all that is urgent - documents, sources, the urgent part of
\* the state, online - without waiting for publish_interval, even if the state
\* went back to the last one confirmed (mqtt.py:454-467).
UrgentConverges ==
  <>[]( stopper = "run" /\ news.latest # ""
          => /\ retained["availability"] = "online"
             /\ \A t \in Docs \cup Sources : retained[t] = Image(news.latest)[t]
             /\ retained["state"] # ""
             /\ KeyOf[retained["state"]] = KeyOf[news.latest] )

\* A birth of Home Assistant is answered by a whole announcement that began
\* after it, unless the adapter is stopped (mqtt.py:272-277, 449, 463-464).
BirthAnswered ==
  (news.birth /\ news.latest # "") ~> (~news.birth \/ stopper # "run")

=============================================================================
