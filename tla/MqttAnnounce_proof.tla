------------------------- MODULE MqttAnnounce_proof -------------------------
(***************************************************************************)
(* Proofs about MqttAnnounce, for any snapshots, topics and bounds.        *)
(***************************************************************************)
EXTENDS MqttAnnounce, TLAPS

\* No client from the moment stop() has nothing left to do but to join.
Joined == stopper \in {"join", "done"}
DownWhenJoined ==
  /\ DOMAIN conn = {"link", "online", "synced", "backoff"}
  /\ Joined => conn.link = "down"

\* Only a worker that finds `_stop` unset under the lock commits a client, and
\* stop() disconnects the one it has found: no step brings a client back.
LEMMA StepStaysDown == DownWhenJoined /\ [Next]_vars => DownWhenJoined'
<1> SUFFICES ASSUME DownWhenJoined, [Next]_vars PROVE DownWhenJoined'
  OBVIOUS
<1> USE DEF DownWhenJoined, Joined
<1>1. CASE Work
  <2>1. ASSUME StartTransport PROVE DownWhenJoined'
    BY <2>1 DEF StartTransport
  <2>2. ASSUME Announced \/ OnlineAcknowledged PROVE DownWhenJoined'
    BY <2>2 DEF Announced, OnlineAcknowledged
  <2>3. ASSUME Top \/ SendOnline \/ Acknowledged \/ TimedOut \/ OnlineTimedOut
        PROVE  UNCHANGED <<conn, stopper>>
    BY <2>3 DEF Top, SendOnline, Acknowledged, TimedOut, OnlineTimedOut
  <2>4. ASSUME NEW t \in Topics, Send(t) PROVE UNCHANGED <<conn, stopper>>
    BY <2>4 DEF Send
  <2>5. ASSUME NEW due \in BOOLEAN, Capture(due) PROVE UNCHANGED <<conn, stopper>>
    BY <2>5 DEF Capture
  <2>6. QED
    BY <1>1, <2>1, <2>2, <2>3, <2>4, <2>5 DEF Work
<1>2. CASE Paho \/ OnConnectFail
  BY <1>2 DEF Paho, OnConnect, OnDisconnect, BackoffEnds, OnConnectFail, Retired
<1>3. CASE Broker \/ Break \/ BrokerRestart \/ Birth
           \/ \E s \in States : PublishState(s)
  BY <1>3 DEF Broker, Deliver, Will, Closed, Break, BrokerRestart, Birth, PublishState
<1>4. CASE Stop
  BY <1>4 DEF Stop, StopBegins, StopPublishesOffline, StopDisconnects, StopEnds, Retired
<1>5. CASE UNCHANGED vars
  BY <1>5 DEF vars
<1>6. QED
  BY <1>1, <1>2, <1>3, <1>4, <1>5 DEF Next

\* Once stop() has returned no client runs, whatever the worker had decided
\* before and however the network behaves (mqtt.py:212-220, 488-504).
THEOREM StopIsFinal == SafetySpec => []StoppedStaysDown
<1>1. Init => DownWhenJoined
  BY DEF Init, DownWhenJoined, Joined
<1>2. DownWhenJoined => StoppedStaysDown
  BY DEF DownWhenJoined, Joined, StoppedStaysDown
<1>3. QED
  BY <1>1, <1>2, StepStaysDown, PTL DEF SafetySpec

-----------------------------------------------------------------------------
(* The types, which need to know where the worker is.                      *)

\* A session that is open has its client, and the worker opens no second one.
Linked ==
  /\ conn \in [link : {"down", "opening", "up"}, online : BOOLEAN,
              synced : BOOLEAN, backoff : BOOLEAN]
  /\ session \in {"none", "open", "broken", "closing"}
  /\ stopper \in {"run", "set", "offline", "join", "done"}
  /\ pc \in {"top", "starting", "capture", "send", "wait", "online",
             "waitOnline", "ended"}
  /\ session = "open" => conn.link = "up"
  /\ pc = "starting" => conn.link = "down"
  /\ Joined => conn.link = "down"

Written == Topics \ {"availability"}

\* The worker has an announcement exactly where it is at one, and a topic in
\* flight exactly where it waits for it.
JobFits ==
  /\ news \in [latest : States \cup {""}, dirty : BOOLEAN, birth : BOOLEAN]
  /\ job \in [state : States \cup {""}, todo : SUBSET Written,
             topic : Topics \cup {""},
             moved : SUBSET {"generation", "state", "birth"}]
  /\ pc \in {"top", "starting", "capture", "ended"} => job = NoJob
  /\ pc \in {"send", "wait", "online", "waitOnline"} => job.state \in States
  /\ IF pc = "wait" THEN job.topic \in job.todo ELSE job.topic = ""

Memories ==
  [docs : SUBSET Docs, fingerprint : Configs \cup {""},
   avail : [Sources -> {"", "unsure", "online", "offline"}],
   key : {KeyOf[s] : s \in States} \cup {""}]

Flags == retry \in BOOLEAN /\ acked \in BOOLEAN

Payloads == States \cup Configs \cup {"", "online", "offline"}
Messages == [topic : Topics, payload : Payloads, worker : BOOLEAN]

\* A session that has ended leaves nothing under way.
NetFits ==
  /\ session = "none" => wire = <<>>
  /\ wire \in Seq(Messages)
  /\ DOMAIN retained = Topics
  /\ faults \in 0..MaxFaults /\ changes \in 0..MaxNews

LEMMA NoTopicIsEmpty == "" \notin Topics
  BY MqttConstants DEF Topics

LEMMA StepLinked == Linked /\ [Next]_vars => Linked'
<1> SUFFICES ASSUME Linked, [Next]_vars PROVE Linked'
  OBVIOUS
<1> USE DEF Linked, Joined
<1>1. CASE Work
  <2>1. CASE Top
    BY <2>1 DEF Top, network
  <2>2. CASE StartTransport
    BY <2>2 DEF StartTransport, network
  <2>3. CASE Announced
    BY <2>3 DEF Announced, network
  <2>4. CASE OnlineAcknowledged
    BY <2>4 DEF OnlineAcknowledged
  <2>5. CASE SendOnline
    BY <2>5 DEF SendOnline
  <2>6. CASE Acknowledged \/ TimedOut \/ OnlineTimedOut
    BY <2>6 DEF Acknowledged, TimedOut, OnlineTimedOut
  <2>7. ASSUME NEW t \in Topics, Send(t) PROVE Linked'
    BY <2>7 DEF Send
  <2>8. ASSUME NEW due \in BOOLEAN, Capture(due) PROVE Linked'
    BY <2>8 DEF Capture, network
  <2>9. QED
    BY <1>1, <2>1, <2>2, <2>3, <2>4, <2>5, <2>6, <2>7, <2>8 DEF Work
<1>2. CASE Paho \/ OnConnectFail
  BY <1>2 DEF Paho, OnConnect, OnDisconnect, BackoffEnds, OnConnectFail, Retired, network
<1>3. CASE Broker \/ Break \/ BrokerRestart
  BY <1>3 DEF Broker, Deliver, Will, Closed, Break, BrokerRestart
<1>4. CASE Birth \/ \E s \in States : PublishState(s)
  BY <1>4 DEF Birth, PublishState, network
<1>5. CASE Stop
  BY <1>5 DEF Stop, StopBegins, StopPublishesOffline, StopDisconnects, StopEnds, Retired, network
<1>6. CASE UNCHANGED vars
  BY <1>6 DEF vars, network
<1>7. QED
  BY <1>1, <1>2, <1>3, <1>4, <1>5, <1>6 DEF Next

LEMMA TodoIsWritten ==
  ASSUME NEW s \in States, NEW force \in BOOLEAN, known.docs \subseteq Docs
  PROVE  Todo(s, force) \subseteq Written
<1>1. DocsOf[ConfigOf[s]] \subseteq Docs
  BY MqttConstants
<1>2. Docs \cup Sources \cup {"state"} \subseteq Written
  BY MqttConstants DEF Written, Topics
<1>3. QED
  BY <1>1, <1>2 DEF Todo

LEMMA MoveFits ==
  ASSUME JobFits, NEW counter \in {"generation", "state", "birth"}, Move(counter)
  PROVE  /\ job' \in [state : States \cup {""}, todo : SUBSET Written,
                     topic : Topics \cup {""},
                     moved : SUBSET {"generation", "state", "birth"}]
         /\ job = NoJob => job' = NoJob
         /\ job'.state = job.state /\ job'.topic = job.topic /\ job'.todo = job.todo
  BY DEF JobFits, Move

LEMMA StepJobFits ==
  Linked /\ JobFits /\ known \in Memories /\ [Next]_vars => JobFits'
<1> SUFFICES ASSUME Linked, JobFits, known \in Memories, [Next]_vars PROVE JobFits'
  OBVIOUS
<1>0. NoJob \in [state : States \cup {""}, todo : SUBSET Written,
                 topic : Topics \cup {""},
                 moved : SUBSET {"generation", "state", "birth"}]
      /\ NoJob.topic = ""
  BY DEF NoJob
<1>1. CASE Work
  <2>1. CASE Top
    BY <2>1 DEF Top, JobFits
  <2>2. CASE StartTransport
    BY <2>2 DEF StartTransport, JobFits
  <2>3. CASE Announced
    BY <2>3 DEF Announced, JobFits
  <2>4. CASE SendOnline
    BY <1>0, <2>4 DEF SendOnline, JobFits
  <2>5. CASE OnlineAcknowledged \/ TimedOut \/ OnlineTimedOut
    BY <1>0, <2>5 DEF OnlineAcknowledged, TimedOut, OnlineTimedOut, JobFits
  <2>6. CASE Acknowledged
    BY <2>6 DEF Acknowledged, JobFits
  <2>7. ASSUME NEW t \in Topics, Send(t) PROVE JobFits'
    <3>1. t \in job.todo
      BY <2>7 DEF Send, First
    <3>2. CASE SameGeneration
      BY <2>7, <3>1, <3>2 DEF Send, JobFits
    <3>3. CASE ~SameGeneration
      BY <1>0, <2>7, <3>3 DEF Send, JobFits
    <3>4. QED
      BY <3>2, <3>3
  <2>8. ASSUME NEW due \in BOOLEAN, Capture(due) PROVE JobFits'
    <3>1. known.docs \subseteq Docs
      BY DEF Memories
    <3>2. CASE conn.link = "up" /\ news.latest # "" /\ (Forced \/ Urgent \/ retry \/ due)
      <4>1. news.latest \in States /\ Forced \in BOOLEAN
        BY <3>2 DEF JobFits, Linked, Forced
      <4>2. Todo(news.latest, Forced) \subseteq Written
        BY <3>1, <4>1, TodoIsWritten
      <4>3. /\ pc' = "send" /\ news' = news
            /\ job' = [NoJob EXCEPT !.state = news.latest, !.todo = Todo(news.latest, Forced)]
        BY <2>8, <3>2 DEF Capture
      <4>4. QED
        BY <4>1, <4>2, <4>3 DEF JobFits, NoJob
    <3>3. CASE ~(conn.link = "up" /\ news.latest # "" /\ (Forced \/ Urgent \/ retry \/ due))
      <4>1. pc = "capture" /\ pc' = "top" /\ news' = news /\ job' = job
        BY <2>8, <3>3 DEF Capture
      <4>2. QED
        BY <4>1 DEF JobFits
    <3>4. QED
      BY <3>2, <3>3
  <2>9. QED
    BY <1>1, <2>1, <2>2, <2>3, <2>4, <2>5, <2>6, <2>7, <2>8 DEF Work
<1>2. CASE Birth
  BY <1>2, MoveFits DEF Birth, JobFits
<1>3. CASE OnConnect
  BY <1>3, MoveFits DEF OnConnect, JobFits
<1>4. ASSUME NEW s \in States, PublishState(s) PROVE JobFits'
  BY <1>4, MoveFits DEF PublishState, JobFits
<1>5. CASE OnDisconnect \/ BackoffEnds \/ OnConnectFail \/ Break \/ BrokerRestart
  BY <1>5 DEF OnDisconnect, BackoffEnds, OnConnectFail, Break, BrokerRestart, JobFits
<1>6. CASE Broker \/ Stop
  BY <1>6 DEF Broker, Deliver, Will, Closed, Stop, StopBegins, StopPublishesOffline,
              StopDisconnects, StopEnds, JobFits
<1>7. CASE UNCHANGED vars
  BY <1>7 DEF vars, JobFits
<1>8. QED
  BY <1>1, <1>2, <1>3, <1>4, <1>5, <1>6, <1>7 DEF Next, Paho

\* What is remembered of a topic keeps its type.
LEMMA MemoryTyped ==
  ASSUME known \in Memories, job.state \in States, NEW t \in Topics
  PROVE  Attempted(t) \in Memories /\ Confirmed(t) \in Memories
<1>1. CASE t \in Docs
  BY <1>1, MqttConstants DEF Memories, Attempted, Confirmed
<1>2. CASE t \in Sources
  <2>1. t \in Topics \ {"availability"} /\ t \notin Docs /\ t # "state"
    BY <1>2, MqttConstants DEF Topics
  <2>2. Image(job.state)[t] = StatusOf[job.state][t]
    BY <1>2, <2>1 DEF Image
  <2>3. StatusOf[job.state][t] \in {"", "online", "offline"}
    BY <1>2, MqttConstants
  <2>4. /\ Attempted(t) = [known EXCEPT !.avail[t] = "unsure"]
        /\ Confirmed(t) = [known EXCEPT !.avail[t] = Image(job.state)[t]]
    BY <1>2, <2>1 DEF Attempted, Confirmed
  <2>5. ASSUME NEW v \in {"", "unsure", "online", "offline"}
        PROVE  [known EXCEPT !.avail[t] = v] \in Memories
    <3>1. [known.avail EXCEPT ![t] = v] \in [Sources -> {"", "unsure", "online", "offline"}]
      BY <1>2 DEF Memories
    <3>2. [known EXCEPT !.avail = [known.avail EXCEPT ![t] = v]] \in Memories
      BY <3>1 DEF Memories
    <3>3. QED
      BY <3>2
  <2>6. QED
    BY <2>2, <2>3, <2>4, <2>5
<1>3. CASE t \in {"state", "availability"}
  <2>1. ConfigOf[job.state] \in Configs /\ t \notin Docs \cup Sources
    BY <1>3, MqttConstants
  <2>2. QED
    BY <1>3, <2>1 DEF Memories, Attempted, Confirmed
<1>4. QED
  BY <1>1, <1>2, <1>3 DEF Topics

LEMMA FailedTyped ==
  ASSUME NEW k \in Memories, NEW t PROVE Failed(k, t) \in Memories
  BY DEF Memories, Failed

LEMMA StepMemory ==
  JobFits /\ known \in Memories /\ [Next]_vars => known' \in Memories
<1> SUFFICES ASSUME JobFits, known \in Memories, [Next]_vars PROVE known' \in Memories
  OBVIOUS
<1>1. ASSUME NEW t \in Topics, Send(t) PROVE known' \in Memories
  <2>1. job.state \in States
    BY <1>1 DEF Send, JobFits
  <2>2. known' \in {Attempted(t), Failed(Attempted(t), t)}
    BY <1>1 DEF Send
  <2>3. QED
    BY <2>1, <2>2, MemoryTyped, FailedTyped
<1>2. CASE Acknowledged
  <2>1. job.state \in States /\ job.topic \in Topics /\ known' = Confirmed(job.topic)
    BY <1>2 DEF Acknowledged, JobFits, Written
  <2>2. QED
    BY <2>1, MemoryTyped
<1>3. CASE TimedOut
  BY <1>3, FailedTyped DEF TimedOut
<1>4. CASE Announced
  <2>1. job.state \in States /\ known' = [known EXCEPT !.key = KeyOf[job.state]]
    BY <1>4 DEF Announced, JobFits
  <2>2. QED
    BY <2>1 DEF Memories
<1>5. CASE Top \/ StartTransport \/ SendOnline \/ OnlineAcknowledged \/ OnlineTimedOut
           \/ \E due \in BOOLEAN : Capture(due)
  BY <1>5 DEF Top, StartTransport, SendOnline, OnlineAcknowledged, OnlineTimedOut,
              Capture, memory
<1>6. CASE Paho \/ OnConnectFail \/ Broker \/ Break \/ BrokerRestart
  BY <1>6 DEF Paho, OnConnect, OnDisconnect, BackoffEnds, OnConnectFail, Broker,
              Deliver, Will, Closed, Break, BrokerRestart, memory
<1>7. CASE Stop \/ Birth \/ \E s \in States : PublishState(s)
  BY <1>7 DEF Stop, StopBegins, StopPublishesOffline, StopDisconnects, StopEnds,
              Birth, PublishState, memory
<1>8. CASE UNCHANGED vars
  BY <1>8 DEF vars, memory
<1>9. QED
  BY <1>1, <1>2, <1>3, <1>4, <1>5, <1>6, <1>7, <1>8 DEF Next, Work

LEMMA ImageTyped ==
  ASSUME NEW s \in States, NEW t \in Written PROVE Image(s)[t] \in Payloads
<1>1. CASE t \in Docs
  <2>1. t \notin Sources /\ t # "state" /\ ConfigOf[s] \in Configs
    BY <1>1, MqttConstants
  <2>2. QED
    BY <1>1, <2>1 DEF Image, Payloads, Written
<1>2. CASE t \in Sources
  <2>1. t \notin Docs /\ t # "state" /\ StatusOf[s][t] \in {"", "online", "offline"}
    BY <1>2, MqttConstants
  <2>2. QED
    BY <1>2, <2>1 DEF Image, Payloads, Written
<1>3. CASE t = "state"
  <2>1. t \notin Docs \cup Sources
    BY <1>3, MqttConstants
  <2>2. QED
    BY <1>3, <2>1 DEF Image, Payloads, Written
<1>4. QED
  BY <1>1, <1>2, <1>3 DEF Written, Topics

LEMMA NothingSent ==
  <<>> \in Seq(Messages) /\ DOMAIN [t \in Topics |-> ""] = Topics
<1>1. <<>> \in Seq(Messages)
  OBVIOUS
<1>2. DOMAIN [t \in Topics |-> ""] = Topics
  OBVIOUS
<1>3. QED
  BY <1>1, <1>2

LEMMA EnqueueFits ==
  ASSUME NetFits, NEW topic \in Topics, NEW payload \in Payloads,
         NEW worker \in BOOLEAN, Enqueue(topic, payload, worker)
  PROVE  /\ session = "none" => wire' = <<>>
         /\ wire' \in Seq(Messages)
<1> DEFINE message == [topic |-> topic, payload |-> payload, worker |-> worker]
<1>1. message \in Messages
  BY DEF Messages
<1>2. wire' \in {wire, Append(wire, message)} /\ (session = "none" => wire' = wire)
  BY DEF Enqueue
<1> HIDE DEF message
<1>3. QED
  BY <1>1, <1>2 DEF NetFits

LEMMA BudgetFits ==
  ASSUME faults \in 0..MaxFaults, changes \in 0..MaxNews, Fault \/ Change
  PROVE  faults' \in 0..MaxFaults /\ changes' \in 0..MaxNews
<1>1. MaxFaults \in Nat /\ MaxNews \in Nat
  BY MqttConstants
<1>2. CASE Fault
  BY <1>1, <1>2 DEF Fault
<1>3. CASE Change
  BY <1>1, <1>3 DEF Change
<1>4. QED
  BY <1>2, <1>3

LEMMA StepNetFits == JobFits /\ NetFits /\ [Next]_vars => NetFits'
<1> SUFFICES ASSUME JobFits, NetFits, [Next]_vars PROVE NetFits'
  OBVIOUS
<1>1. ASSUME NEW t \in Topics, Send(t) PROVE NetFits'
  <2>1. /\ UNCHANGED <<session, retained, faults, changes>>
        /\ Enqueue(t, Image(job.state)[t], TRUE) \/ UNCHANGED wire
    BY <1>1 DEF Send, budget
  <2>2. Image(job.state)[t] \in Payloads
    BY <1>1, ImageTyped DEF Send, First, JobFits
  <2>3. QED
    BY <2>1, <2>2, EnqueueFits DEF NetFits
<1>2. CASE SendOnline
  <2>1. /\ UNCHANGED <<session, retained, faults, changes>>
        /\ Enqueue("availability", "online", TRUE) \/ UNCHANGED wire
    BY <1>2 DEF SendOnline, budget
  <2>2. QED
    BY <2>1, EnqueueFits DEF NetFits, Topics, Payloads
<1>3. CASE StopPublishesOffline
  <2>1. /\ UNCHANGED <<session, retained, faults, changes>>
        /\ Enqueue("availability", "offline", FALSE) \/ UNCHANGED wire
    BY <1>3 DEF StopPublishesOffline, budget
  <2>2. QED
    BY <2>1, EnqueueFits DEF NetFits, Topics, Payloads
<1>4. CASE Deliver
  BY <1>4 DEF Deliver, NetFits, budget
<1>5. CASE TimedOut \/ OnlineTimedOut \/ OnConnectFail \/ Break \/ BrokerRestart
  <2>1. faults' \in 0..MaxFaults /\ changes' \in 0..MaxNews
    <3>1. Fault \/ UNCHANGED budget
      BY <1>5 DEF TimedOut, OnlineTimedOut, OnConnectFail, Break, BrokerRestart, Lost
    <3>2. QED
      BY <3>1, BudgetFits DEF NetFits, budget
  <2>2. CASE BrokerRestart
    <3>1. wire' = <<>> /\ retained' = [t \in Topics |-> ""]
      BY <2>2 DEF BrokerRestart
    <3>2. wire' \in Seq(Messages) /\ DOMAIN retained' = Topics
      BY <3>1, NothingSent
    <3>3. QED
      BY <2>1, <3>1, <3>2 DEF NetFits
  <2>3. CASE Break
    BY <2>1, <2>3 DEF Break, NetFits
  <2>4. CASE TimedOut \/ OnlineTimedOut \/ OnConnectFail
    BY <2>1, <2>4 DEF TimedOut, OnlineTimedOut, OnConnectFail, NetFits, network
  <2>5. QED
    BY <1>5, <2>2, <2>3, <2>4
<1>6. CASE Birth \/ \E s \in States : PublishState(s)
  <2>1. Change /\ UNCHANGED network
    BY <1>6 DEF Birth, PublishState
  <2>2. QED
    BY <2>1, BudgetFits DEF NetFits, network
<1>7. CASE \/ Top \/ StartTransport \/ Announced \/ OnlineAcknowledged \/ Acknowledged
           \/ \E due \in BOOLEAN : Capture(due)
  BY <1>7 DEF Top, StartTransport, Announced, OnlineAcknowledged, Acknowledged,
              Capture, NetFits, network, budget
<1>8. CASE Paho \/ Will \/ Closed
  <2>1. CASE Paho
    BY <2>1 DEF Paho, OnConnect, OnDisconnect, BackoffEnds, NetFits, network, budget
  <2>2. CASE Will
    BY <2>2 DEF Will, NetFits, budget
  <2>3. CASE Closed
    BY <2>3 DEF Closed, NetFits, budget
  <2>4. QED
    BY <1>8, <2>1, <2>2, <2>3
<1>9. CASE StopBegins \/ StopDisconnects \/ StopEnds
  BY <1>9 DEF StopBegins, StopDisconnects, StopEnds, NetFits, network, budget
<1>10. CASE UNCHANGED vars
  BY <1>10 DEF vars, NetFits, network, budget
<1>11. QED
  BY <1>1, <1>2, <1>3, <1>4, <1>5, <1>6, <1>7, <1>8, <1>9, <1>10
     DEF Next, Work, Broker, Stop

LEMMA StepFlags == Flags /\ [Next]_vars => Flags'
<1> SUFFICES ASSUME Flags, [Next]_vars PROVE Flags'
  OBVIOUS
<1>1. retry' \in {retry, TRUE, FALSE}
  BY DEF Next, vars, memory, Work, Top, StartTransport, Announced, SendOnline,
         OnlineAcknowledged, Acknowledged, TimedOut, OnlineTimedOut, Send, Capture,
         Paho, OnConnect, OnDisconnect, BackoffEnds, Broker, Deliver, Will, Closed,
         Stop, StopBegins, StopPublishesOffline, StopDisconnects, StopEnds,
         PublishState, Birth, OnConnectFail, Break, BrokerRestart, Zenon
<1>2. acked' \in BOOLEAN
  BY DEF Flags, Next, vars, network, Work, Top, StartTransport, Announced, SendOnline,
         OnlineAcknowledged, Acknowledged, TimedOut, OnlineTimedOut, Send, Capture,
         Paho, OnConnect, OnDisconnect, BackoffEnds, Broker, Deliver, Will, Closed,
         Stop, StopBegins, StopPublishesOffline, StopDisconnects, StopEnds,
         PublishState, Birth, OnConnectFail, Break, BrokerRestart
<1>3. QED
  BY <1>1, <1>2 DEF Flags

Typed == Linked /\ JobFits /\ NetFits /\ known \in Memories /\ Flags

LEMMA StepTyped == Typed /\ [Next]_vars => Typed'
  BY StepLinked, StepJobFits, StepNetFits, StepMemory, StepFlags DEF Typed

LEMMA InitTyped == Init => Typed
<1> SUFFICES ASSUME Init PROVE Typed
  OBVIOUS
<1>1. Linked
  BY DEF Init, Linked, Joined
<1>2. JobFits
  BY DEF Init, JobFits, NoJob
<1>3. known \in Memories
  BY DEF Init, Memories
<1>4. Flags
  BY DEF Init, Flags
<1>5. NetFits
  <2>1. MaxFaults \in Nat /\ MaxNews \in Nat
    BY MqttConstants
  <2>2. wire = <<>> /\ retained = [t \in Topics |-> ""] /\ faults = 0 /\ changes = 0
    BY DEF Init
  <2>3. wire \in Seq(Messages) /\ DOMAIN retained = Topics
    BY <2>2, NothingSent
  <2>4. 0 \in 0..MaxFaults /\ 0 \in 0..MaxNews
    BY <2>1
  <2>5. QED
    BY <2>2, <2>3, <2>4 DEF NetFits
<1>6. QED
  BY <1>1, <1>2, <1>3, <1>4, <1>5 DEF Typed

\* The worker has an announcement exactly where it is at one.
LEMMA AtWork ==
  ASSUME Typed PROVE job = NoJob <=> pc \in {"top", "starting", "capture", "ended"}
<1>1. NoJob.state \notin States
  BY MqttConstants DEF NoJob
<1>2. QED
  BY <1>1 DEF Typed, Linked, JobFits

\* Every variable keeps its type, the worker has an announcement exactly where
\* it is at one, and no session is open without its client (mqtt.py:137-505).
THEOREM AnnounceTypes == SafetySpec => []TypeOK
<1>1. Init => Typed
  BY InitTyped
<1>2. Typed /\ [Next]_vars => Typed'
  BY StepTyped
<1>3. Typed => TypeOK
  <2> SUFFICES ASSUME Typed PROVE TypeOK
    OBVIOUS
  <2>1. /\ job = NoJob <=> pc \in {"top", "starting", "capture", "ended"}
        /\ job # NoJob => job.state \in States
    BY AtWork DEF Typed, Linked, JobFits
  <2>2. pc = "wait" <=> job.topic \in job.todo
    BY NoTopicIsEmpty DEF Typed, JobFits, Written
  <2>3. /\ known.docs \subseteq Docs /\ known.fingerprint \in Configs \cup {""}
        /\ known.avail \in [Sources -> {"", "unsure", "online", "offline"}]
    BY DEF Typed, Memories
  <2>4. retry \in BOOLEAN /\ acked \in BOOLEAN
    BY DEF Typed, Flags
  <2>5. /\ job.moved \subseteq {"generation", "state", "birth"}
        /\ job.todo \subseteq Topics
        /\ news \in [latest : States \cup {""}, dirty : BOOLEAN, birth : BOOLEAN]
    BY DEF Typed, JobFits, Written
  <2>6. /\ conn \in [link : {"down", "opening", "up"}, online : BOOLEAN,
                    synced : BOOLEAN, backoff : BOOLEAN]
        /\ session \in {"none", "open", "broken", "closing"}
        /\ stopper \in {"run", "set", "offline", "join", "done"}
        /\ pc \in {"top", "starting", "capture", "send", "wait", "online",
                   "waitOnline", "ended"}
        /\ session = "open" => conn.link = "up"
    BY DEF Typed, Linked
  <2>7. /\ session = "none" => wire = <<>>
        /\ DOMAIN retained = Topics
        /\ faults \in 0..MaxFaults /\ changes \in 0..MaxNews
    BY DEF Typed, NetFits
  <2>8. \A i \in DOMAIN wire : wire[i].topic \in Topics
    <3>1. wire \in Seq(Messages)
      BY DEF Typed, NetFits
    <3>2. \A m \in Messages : m.topic \in Topics
      BY DEF Messages
    <3>3. QED
      BY <3>1, <3>2
  <2>9. QED
    BY <2>1, <2>2, <2>3, <2>4, <2>5, <2>6, <2>7, <2>8, Zenon DEF TypeOK
<1>4. QED
  BY <1>1, <1>2, <1>3, PTL DEF SafetySpec


-----------------------------------------------------------------------------
(* What the worker is not the cause of, and what it leaves to others.      *)

\* While the worker announces, its client is not replaced.
Steady == job # NoJob => conn.link # "opening" /\ "generation" \notin job.moved

\* The worker's place and memory stay, and its announcement but for what moved.
WorkerRests ==
  /\ UNCHANGED <<pc, known>>
  /\ job'.state = job.state /\ job'.topic = job.topic /\ job'.todo = job.todo
  /\ job' = NoJob <=> job = NoJob

\* A session opens to a worker that has not synchronised it.
SessionFrame ==
  session' = "open" =>
    \/ session = "open" /\ conn'.synced = conn.synced
    \/ session = "none" /\ job = NoJob /\ conn'.synced = FALSE

\* What others than the worker do to the network: nothing, a delivery, the
\* end of a session, or what stop() publishes.
Untouched == UNCHANGED <<wire, acked, retained>>
Cut ==
  /\ session' # "open" /\ wire' = <<>> /\ acked' = acked
  /\ retained'["availability"] # "online"
  /\ \A t \in Written : retained'[t] \in {retained[t], ""}
OfflineSent ==
  /\ Enqueue("availability", "offline", FALSE)
  /\ UNCHANGED <<session, acked, retained>>

LEMMA MoveKeeps ==
  ASSUME Typed, NEW counter, Move(counter)
  PROVE  /\ job'.state = job.state /\ job'.topic = job.topic /\ job'.todo = job.todo
         /\ job' = NoJob <=> job = NoJob
         /\ job # NoJob => job'.moved = job.moved \cup {counter}
<1>1. CASE job = NoJob
  BY <1>1 DEF Move
<1>2. CASE job # NoJob
  <2>1. pc \in {"send", "wait", "online", "waitOnline"}
    BY <1>2, AtWork DEF Typed, Linked
  <2>2. job.state # NoJob.state
    BY <2>1, MqttConstants DEF NoJob, Typed, JobFits
  <2>3. /\ job'.state = job.state /\ job'.topic = job.topic /\ job'.todo = job.todo
        /\ job'.moved = job.moved \cup {counter}
    BY <1>2 DEF Move, Typed, JobFits
  <2>4. QED
    BY <1>2, <2>2, <2>3
<1>3. QED
  BY <1>1, <1>2

LEMMA OthersFrame ==
  ASSUME Typed, Steady, [Next]_vars
  PROVE  \/ Work
         \/ /\ WorkerRests /\ SessionFrame /\ Steady'
            /\ Untouched \/ Deliver \/ Cut \/ OfflineSent
<1>1. CASE OnConnect
  <2>1. job = NoJob /\ job' = NoJob
    BY <1>1 DEF OnConnect, Steady, Move
  <2>2. conn'.synced = FALSE /\ session = "none"
    BY <1>1 DEF OnConnect, Typed, Linked
  <2>3. WorkerRests
    BY <1>1, <2>1 DEF OnConnect, WorkerRests, memory
  <2>4. Untouched
    BY <1>1 DEF OnConnect, Untouched
  <2>5. QED
    BY <2>1, <2>2, <2>3, <2>4 DEF SessionFrame, Steady
<1>2. CASE Birth \/ \E s \in States : PublishState(s)
  <2>1. PICK counter \in {"birth", "state"} : Move(counter)
    BY <1>2 DEF Birth, PublishState
  <2>2. UNCHANGED <<conn, memory, pc, network>>
    BY <1>2 DEF Birth, PublishState
  <2>3. WorkerRests /\ Steady'
    BY <2>1, <2>2, MoveKeeps DEF WorkerRests, Steady, memory
  <2>4. Untouched /\ SessionFrame
    BY <2>2 DEF Untouched, SessionFrame, network
  <2>5. QED
    BY <2>3, <2>4
<1>3. CASE OnConnectFail \/ OnDisconnect \/ BackoffEnds
  <2>1. /\ UNCHANGED <<memory, pc, job, network>> /\ conn'.synced = conn.synced
        /\ conn'.link \in {conn.link, "down"}
    BY <1>3 DEF OnConnectFail, OnDisconnect, BackoffEnds, Retired, Typed, Linked
  <2>2. QED
    BY <2>1 DEF WorkerRests, SessionFrame, Untouched, Steady, memory, network
<1>4. CASE Break \/ Closed
  <2>1. /\ UNCHANGED <<conn, memory, pc, job, wire, acked, retained>>
        /\ session' # "open"
    BY <1>4 DEF Break, Closed
  <2>2. QED
    BY <2>1 DEF WorkerRests, SessionFrame, Untouched, Steady, memory
<1>5. CASE Will \/ BrokerRestart
  <2>1. /\ UNCHANGED <<conn, memory, pc, job, acked>>
        /\ session' # "open" /\ wire' = <<>>
    BY <1>5 DEF Will, BrokerRestart
  <2>2. /\ \A t \in Written : retained'[t] \in {retained[t], ""}
        /\ retained'["availability"] # "online"
    <3>1. CASE Will
      BY <3>1 DEF Will, Written, Typed, NetFits, Topics
    <3>2. CASE BrokerRestart
      BY <3>2 DEF BrokerRestart, Written, Topics
    <3>3. QED
      BY <1>5, <3>1, <3>2
  <2>3. QED
    BY <2>1, <2>2 DEF WorkerRests, SessionFrame, Cut, Steady, memory
<1>6. CASE Deliver
  BY <1>6 DEF Deliver, WorkerRests, SessionFrame, Steady, memory
<1>7. CASE StopBegins \/ StopDisconnects \/ StopEnds
  <2>1. /\ UNCHANGED <<memory, pc, job, wire, acked, retained>>
        /\ conn'.synced = conn.synced
        /\ conn'.link \in {conn.link, "down"}
        /\ session' = "open" => session = "open"
    BY <1>7 DEF StopBegins, StopDisconnects, StopEnds, Retired, network, Typed, Linked
  <2>2. QED
    BY <2>1 DEF WorkerRests, SessionFrame, Untouched, Steady, memory
<1>8. CASE StopPublishesOffline
  <2>1. UNCHANGED <<conn, memory, pc, job, session, acked, retained>>
    BY <1>8 DEF StopPublishesOffline
  <2>2. OfflineSent \/ Untouched
    BY <1>8 DEF StopPublishesOffline, OfflineSent, Untouched
  <2>3. QED
    BY <2>1, <2>2 DEF WorkerRests, SessionFrame, Steady, memory
<1>9. CASE UNCHANGED vars
  BY <1>9 DEF vars, WorkerRests, SessionFrame, Untouched, Steady, memory, network
<1>10. QED
  BY <1>1, <1>2, <1>3, <1>4, <1>5, <1>6, <1>7, <1>8, <1>9 DEF Next, Paho, Broker, Stop

LEMMA StepSteady == Typed /\ Steady /\ [Next]_vars => Steady'
<1> SUFFICES ASSUME Typed, Steady, [Next]_vars PROVE Steady'
  OBVIOUS
<1>1. CASE Work
  <2>1. CASE Top \/ Acknowledged \/ SendOnline \/ TimedOut \/ OnlineTimedOut
             \/ \E t \in Topics : Send(t)
    <3>1. conn' = conn /\ (job' = NoJob \/ (job' = job /\ job # NoJob)
                           \/ (job'.moved = job.moved /\ job # NoJob) \/ job' = job)
      <4>1. CASE Top
        BY <4>1 DEF Top
      <4>2. CASE Acknowledged
        BY <4>2, AtWork DEF Acknowledged, Typed, JobFits
      <4>3. CASE SendOnline \/ TimedOut \/ OnlineTimedOut
        BY <4>3 DEF SendOnline, TimedOut, OnlineTimedOut
      <4>4. ASSUME NEW t \in Topics, Send(t)
            PROVE  conn' = conn /\ (job' = NoJob \/ (job'.moved = job.moved /\ job # NoJob))
        BY <4>4, AtWork DEF Send, Typed, JobFits
      <4>5. QED
        BY <2>1, <4>1, <4>2, <4>3, <4>4
    <3>2. QED
      BY <3>1 DEF Steady
  <2>2. CASE StartTransport
    BY <2>2, AtWork DEF StartTransport, Steady
  <2>3. CASE Announced
    BY <2>3 DEF Announced, Steady, Typed, Linked
  <2>4. CASE OnlineAcknowledged
    BY <2>4 DEF OnlineAcknowledged, Steady
  <2>5. ASSUME NEW due \in BOOLEAN, Capture(due) PROVE Steady'
    BY <2>5 DEF Capture, Steady, NoJob
  <2>6. QED
    BY <1>1, <2>1, <2>2, <2>3, <2>4, <2>5 DEF Work
<1>2. CASE ~Work
  BY <1>2, OthersFrame
<1>3. QED
  BY <1>1, <1>2


-----------------------------------------------------------------------------
(* What is under way, and what it leaves behind.                           *)

\* Topic t holds payload p in r, and nothing on wire w changes that.
Holds(r, w, t, p) ==
  /\ r[t] = p
  /\ \A i \in DOMAIN w : w[i].topic = t => w[i].payload = p

\* Nothing of the worker's is on wire w.
Delivered(w) == \A i \in DOMAIN w : ~w[i].worker

LEMMA TailIndex ==
  ASSUME NEW S, NEW w \in Seq(S), w # <<>>
  PROVE  /\ 1 \in DOMAIN w /\ Head(w) = w[1] /\ Head(w) \in S /\ Tail(w) \in Seq(S)
         /\ \A i \in DOMAIN Tail(w) : i \in Nat /\ i + 1 \in DOMAIN w /\ Tail(w)[i] = w[i + 1]
         /\ \A i \in DOMAIN w : i # 1 => i - 1 \in DOMAIN Tail(w) /\ Tail(w)[i - 1] = w[i]
<1>1. Len(w) \in Nat /\ DOMAIN w = 1..Len(w) /\ Len(w) > 0
  OBVIOUS
<1>2. Tail(w) \in Seq(S) /\ Len(Tail(w)) = Len(w) - 1 /\ DOMAIN Tail(w) = 1..(Len(w) - 1)
  BY <1>1
<1>3. Head(w) = w[1] /\ 1 \in DOMAIN w /\ Head(w) \in S
  BY <1>1
<1>4. \A i \in 1..(Len(w) - 1) : Tail(w)[i] = w[i + 1]
  BY <1>1
<1>5. \A i \in DOMAIN Tail(w) : i \in Nat /\ i + 1 \in DOMAIN w /\ Tail(w)[i] = w[i + 1]
  BY <1>1, <1>2, <1>4
<1>6. ASSUME NEW i \in DOMAIN w, i # 1
      PROVE  i - 1 \in DOMAIN Tail(w) /\ Tail(w)[i - 1] = w[i]
  <2>1. i - 1 \in 1..(Len(w) - 1)
    BY <1>1, <1>6
  <2>2. (i - 1) + 1 = i
    BY <1>1
  <2>3. QED
    BY <1>2, <1>4, <2>1, <2>2
<1>7. QED
  BY <1>2, <1>3, <1>5, <1>6

LEMMA AppendIndex ==
  ASSUME NEW S, NEW w \in Seq(S), NEW m \in S
  PROVE  /\ Append(w, m) \in Seq(S)
         /\ Len(w) + 1 \in DOMAIN Append(w, m) /\ Append(w, m)[Len(w) + 1] = m
         /\ \A i \in DOMAIN w : i \in DOMAIN Append(w, m) /\ Append(w, m)[i] = w[i]
         /\ \A i \in DOMAIN Append(w, m) :
              i \in Nat /\ (i \in DOMAIN w \/ (i = Len(w) + 1 /\ Append(w, m)[i] = m))
         /\ \A i \in DOMAIN w : i \in Nat /\ i < Len(w) + 1
<1>1. Len(w) \in Nat /\ DOMAIN w = 1..Len(w)
  OBVIOUS
<1>2. Append(w, m) \in Seq(S) /\ DOMAIN Append(w, m) = 1..(Len(w) + 1)
  BY <1>1
<1>3. Append(w, m)[Len(w) + 1] = m /\ \A i \in 1..Len(w) : Append(w, m)[i] = w[i]
  BY <1>1
<1>4. QED
  BY <1>1, <1>2, <1>3

\* A delivery leaves behind what was held, and so does a message that says it.
LEMMA HeldAfterDelivery ==
  ASSUME NEW r, DOMAIN r = Topics, NEW w \in Seq(Messages), w # <<>>,
         NEW t \in Topics, NEW p, Holds(r, w, t, p)
  PROVE  Holds([r EXCEPT ![Head(w).topic] = Head(w).payload], Tail(w), t, p)
<1>1. \A i \in DOMAIN Tail(w) : Tail(w)[i].topic = t => Tail(w)[i].payload = p
  BY TailIndex DEF Holds
<1>2. Head(w).topic = t => Head(w).payload = p
  BY TailIndex DEF Holds
<1>3. [r EXCEPT ![Head(w).topic] = Head(w).payload][t] = p
  BY <1>2 DEF Holds
<1>4. QED
  BY <1>1, <1>3 DEF Holds

LEMMA HeldAfterSending ==
  ASSUME NEW r, NEW w \in Seq(Messages), NEW m \in Messages,
         NEW t \in Topics, NEW p, Holds(r, w, t, p), m.topic = t => m.payload = p
  PROVE  Holds(r, Append(w, m), t, p)
  BY AppendIndex DEF Holds

LEMMA NoMessage == DOMAIN <<>> = {}
  OBVIOUS

-----------------------------------------------------------------------------
(* Where the worker is in its announcement.                                *)

\* What the worker's place says of its announcement.
PlaceFits ==
  /\ acked => pc \in {"wait", "waitOnline"}
  /\ pc = "wait" => First(job.topic)
  /\ pc \in {"online", "waitOnline"} => job.todo = {}
  /\ job # NoJob /\ ("state" \notin job.todo \/ job.topic = "state") =>
       known.fingerprint = ConfigOf[job.state]

\* Every topic has its rank: documents, then the state, then sources.
LEMMA RankOf ==
  ASSUME Typed, job.state \in States
  PROVE  /\ \A t \in Docs : Rank(t) \in {1, 2} /\ t \in Written
         /\ Rank("state") = 3
         /\ \A t \in Sources : Rank(t) \in {4, 5}
<1>1. ASSUME NEW t \in Docs PROVE Rank(t) \in {1, 2} /\ t \in Written
  BY <1>1, MqttConstants DEF Rank, Written, Topics
<1>2. Rank("state") = 3
  BY MqttConstants DEF Rank
<1>3. ASSUME NEW t \in Sources PROVE Rank(t) \in {4, 5}
  BY <1>3, MqttConstants DEF Rank
<1>4. QED
  BY <1>1, <1>2, <1>3

\* Past the documents, none of them is left to do.
LEMMA DocsComeFirst ==
  ASSUME Typed, job.state \in States, NEW t \in Written \ Docs, First(t)
  PROVE  \A d \in Docs : d \notin job.todo
<1>1. t = "state" \/ t \in Sources
  BY DEF Written, Topics
<1>2. Rank(t) \in {3, 4, 5}
  BY <1>1, RankOf
<1>3. ASSUME NEW d \in Docs, d \in job.todo PROVE FALSE
  <2>1. Rank(d) \in {1, 2} /\ Rank(t) <= Rank(d)
    BY <1>3, RankOf DEF First
  <2>2. QED
    BY <1>2, <2>1
<1>4. QED
  BY <1>3

LEMMA StateBeforeSources ==
  ASSUME Typed, job.state \in States, NEW t \in Sources, First(t)
  PROVE  "state" \notin job.todo
<1>1. Rank(t) \in {4, 5} /\ Rank("state") = 3
  BY RankOf
<1>2. "state" \in job.todo => Rank(t) <= Rank("state")
  BY DEF First
<1>3. QED
  BY <1>1, <1>2

\* What Attempted, Confirmed and Failed leave of the memory.
LEMMA AttemptedIs ==
  ASSUME Typed, job.state \in States, NEW t \in Topics
  PROVE  /\ Attempted(t).fingerprint = (IF t = "state" THEN ConfigOf[job.state]
                                        ELSE known.fingerprint)
         /\ known.docs \subseteq Attempted(t).docs
         /\ t \in Docs /\ Image(job.state)[t] # "" => t \in Attempted(t).docs
         /\ t \in Sources => Attempted(t).avail = [known.avail EXCEPT ![t] = "unsure"]
         /\ t \notin Sources => Attempted(t).avail = known.avail
<1>1. CASE t \in Docs
  BY <1>1, MqttConstants DEF Attempted, Typed, Memories
<1>2. CASE t \in Sources
  <2>1. t \notin Docs /\ t # "state"
    BY <1>2, MqttConstants
  <2>2. Attempted(t) = [known EXCEPT !.avail[t] = "unsure"]
    BY <1>2, <2>1 DEF Attempted
  <2>3. QED
    BY <1>2, <2>1, <2>2 DEF Typed, Memories
<1>3. CASE t \in {"state", "availability"}
  BY <1>3, MqttConstants DEF Attempted, Typed, Memories
<1>4. QED
  BY <1>1, <1>2, <1>3 DEF Topics

LEMMA ConfirmedIs ==
  ASSUME Typed, job.state \in States, NEW t \in Written
  PROVE  /\ Confirmed(t).fingerprint = known.fingerprint
         /\ known.docs \ {t} \subseteq Confirmed(t).docs
         /\ t \in known.docs /\ t \notin Confirmed(t).docs => Image(job.state)[t] = ""
         /\ t \in Sources =>
              Confirmed(t).avail = [known.avail EXCEPT ![t] = Image(job.state)[t]]
         /\ t \notin Sources => Confirmed(t).avail = known.avail
<1>1. CASE t \in Docs
  BY <1>1, MqttConstants DEF Confirmed, Typed, Memories
<1>2. CASE t \in Sources
  <2>1. t \notin Docs
    BY <1>2, MqttConstants
  <2>2. Confirmed(t) = [known EXCEPT !.avail[t] = Image(job.state)[t]]
    BY <1>2, <2>1 DEF Confirmed
  <2>3. QED
    BY <1>2, <2>1, <2>2 DEF Typed, Memories
<1>3. CASE t = "state"
  BY <1>3, MqttConstants DEF Confirmed, Typed, Memories
<1>4. QED
  BY <1>1, <1>2, <1>3 DEF Topics, Written

LEMMA FailedIs ==
  ASSUME NEW k \in Memories, NEW t
  PROVE  /\ Failed(k, t).docs = k.docs /\ Failed(k, t).avail = k.avail
         /\ Failed(k, t).fingerprint = IF t \in Docs THEN "" ELSE k.fingerprint
  BY DEF Memories, Failed

LEMMA StepPlace == Typed /\ Steady /\ PlaceFits /\ [Next]_vars => PlaceFits'
<1> SUFFICES ASSUME Typed, Steady, PlaceFits, [Next]_vars PROVE PlaceFits'
  OBVIOUS
<1>1. CASE Top
  <2>1. UNCHANGED <<job, known, acked>> /\ pc = "top" /\ pc' \in {"ended", "starting", "capture"}
    BY <1>1 DEF Top, memory, network
  <2>2. QED
    BY <2>1, AtWork DEF PlaceFits
<1>2. CASE StartTransport
  <2>1. UNCHANGED <<job, known, acked>> /\ pc = "starting" /\ pc' = "capture"
    BY <1>2 DEF StartTransport, memory, network
  <2>2. QED
    BY <2>1, AtWork DEF PlaceFits
<1>3. CASE Announced
  <2>1. /\ UNCHANGED <<job, acked>> /\ pc = "send" /\ pc' = "online" /\ job.todo = {}
        /\ known'.fingerprint = known.fingerprint
    BY <1>3 DEF Announced, network, Typed, Memories
  <2>2. QED
    BY <2>1 DEF PlaceFits
<1>4. CASE SendOnline
  <2>1. /\ UNCHANGED <<known, acked>> /\ pc = "online"
        /\ (job' = NoJob /\ pc' = "top") \/ (job' = job /\ pc' = "waitOnline")
    BY <1>4 DEF SendOnline, memory
  <2>2. QED
    BY <2>1 DEF PlaceFits
<1>5. CASE OnlineAcknowledged \/ TimedOut \/ OnlineTimedOut
  <2>1. acked' = FALSE /\ job' = NoJob /\ pc' = "top"
    BY <1>5 DEF OnlineAcknowledged, TimedOut, OnlineTimedOut
  <2>2. QED
    BY <2>1 DEF PlaceFits
<1>6. CASE Acknowledged
  <2>1. /\ acked' = FALSE /\ pc = "wait" /\ pc' = "send"
        /\ job' = [job EXCEPT !.todo = @ \ {job.topic}, !.topic = ""]
        /\ known' = Confirmed(job.topic)
    BY <1>6 DEF Acknowledged
  <2>2. /\ job'.todo = job.todo \ {job.topic} /\ job'.topic = "" /\ job'.state = job.state
        /\ job.state \in States /\ job.topic \in Written /\ job # NoJob
    BY <2>1, AtWork DEF Typed, JobFits
  <2>3. known'.fingerprint = known.fingerprint
    BY <2>1, <2>2, ConfirmedIs
  <2>4. QED
    BY <2>1, <2>2, <2>3 DEF PlaceFits
<1>7. ASSUME NEW t \in Topics, Send(t) PROVE PlaceFits'
  <2>1. /\ pc = "send" /\ First(t) /\ t \in job.todo /\ job.topic = "" /\ acked' = acked
        /\ job.state \in States /\ job # NoJob
    BY <1>7, AtWork DEF Send, First, Typed, JobFits
  <2>2. ~acked
    BY <2>1 DEF PlaceFits
  <2>3. CASE job' = NoJob /\ pc' = "top"
    BY <2>1, <2>2, <2>3 DEF PlaceFits
  <2>4. CASE job' = [job EXCEPT !.topic = t] /\ pc' = "wait" /\ known' = Attempted(t)
    <3>1. job'.topic = t /\ job'.todo = job.todo /\ job'.state = job.state
      BY <2>4 DEF Typed, JobFits
    <3>2. First(t)'
      BY <2>1, <3>1 DEF First, Rank
    <3>3. known'.fingerprint = IF t = "state" THEN ConfigOf[job.state] ELSE known.fingerprint
      BY <2>1, <2>4, AttemptedIs
    <3>4. QED
      BY <2>1, <2>2, <2>4, <3>1, <3>2, <3>3 DEF PlaceFits
  <2>5. QED
    BY <1>7, <2>3, <2>4 DEF Send
<1>8. ASSUME NEW due \in BOOLEAN, Capture(due) PROVE PlaceFits'
  <2>1. /\ UNCHANGED <<known, acked>> /\ pc = "capture"
        /\ \/ pc' = "top" /\ job' = job
           \/ /\ pc' = "send"
              /\ job' = [NoJob EXCEPT !.state = news.latest,
                                      !.todo = Todo(news.latest, Forced)]
    BY <1>8 DEF Capture, network
  <2>2. "state" \in Todo(news.latest, Forced)
    BY DEF Todo
  <2>3. QED
    BY <2>1, <2>2, AtWork DEF PlaceFits, NoJob
<1>9. CASE ~Work
  <2>1. WorkerRests /\ (Untouched \/ Deliver \/ Cut \/ OfflineSent)
    BY <1>9, OthersFrame
  <2>2. acked' => acked \/ pc \in {"wait", "waitOnline"}
    BY <2>1 DEF Untouched, Deliver, Cut, OfflineSent
  <2>3. First(job.topic) => First(job.topic)'
    BY <2>1 DEF WorkerRests, First, Rank
  <2>4. QED
    BY <2>1, <2>2, <2>3 DEF WorkerRests, PlaceFits
<1>10. QED
  BY <1>1, <1>2, <1>3, <1>4, <1>5, <1>6, <1>7, <1>8, <1>9 DEF Work


-----------------------------------------------------------------------------
(* What an acknowledgement stands for: the topic in flight, and everything *)
(* the worker sent before.                                                 *)

\* The message the worker waits for.
InFlight ==
  [topic |-> job.topic, payload |-> Image(job.state)[job.topic], worker |-> TRUE]

\* stop() publishes nothing but offline.
StopSays == \A i \in DOMAIN wire : ~wire[i].worker =>
              wire[i].topic = "availability" /\ wire[i].payload = "offline"

\* Between two publications, once the state is out, none is under way.
Silent == pc \in {"send", "online"} /\ "state" \notin job.todo => Delivered(wire)

\* An acknowledged message is retained, until a broker that restarts forgets it.
Answered ==
  pc = "wait" /\ acked =>
    /\ Delivered(wire)
    /\ \/ retained[job.topic] = Image(job.state)[job.topic]
       \/ session # "open" /\ retained[job.topic] = ""

\* One that is not acknowledged is the worker's last on the wire.
Asked ==
  pc = "wait" /\ ~acked /\ session = "open" =>
    \E i \in DOMAIN wire :
      wire[i] = InFlight /\ \A j \in DOMAIN wire : j > i => ~wire[j].worker

WireFits == StopSays /\ Silent /\ Answered /\ Asked

\* All the worker does to the network is to send.
LEMMA WorkFrame ==
  ASSUME Work
  PROVE  /\ UNCHANGED <<session, retained>>
         /\ \/ UNCHANGED wire
            \/ \E t \in Topics : Send(t) /\ SameGeneration
            \/ SendOnline /\ SameGeneration /\ conn.synced /\ ~conn.online
<1>1. CASE Top \/ StartTransport \/ Announced \/ \E due \in BOOLEAN : Capture(due)
  BY <1>1 DEF Top, StartTransport, Announced, Capture, network
<1>2. CASE OnlineAcknowledged \/ Acknowledged \/ TimedOut \/ OnlineTimedOut
  BY <1>2 DEF OnlineAcknowledged, Acknowledged, TimedOut, OnlineTimedOut
<1>3. CASE SendOnline
  BY <1>3 DEF SendOnline
<1>4. ASSUME NEW t \in Topics, Send(t)
      PROVE  UNCHANGED <<session, retained>> /\ (UNCHANGED wire \/ SameGeneration)
  BY <1>4 DEF Send
<1>5. QED
  BY <1>1, <1>2, <1>3, <1>4 DEF Work

LEMMA WrittenFits ==
  ASSUME job.state \in States, NEW t \in Written
  PROVE  [topic |-> t, payload |-> Image(job.state)[t], worker |-> TRUE] \in Messages
  BY ImageTyped DEF Messages, Written

LEMMA AvailabilityFits ==
  /\ [topic |-> "availability", payload |-> "online", worker |-> TRUE] \in Messages
  /\ [topic |-> "availability", payload |-> "offline", worker |-> FALSE] \in Messages
  BY DEF Messages, Topics, Payloads

LEMMA DeliverWire ==
  ASSUME Typed, WireFits, Deliver, WorkerRests PROVE WireFits'
<1>1. /\ wire # <<>> /\ wire' = Tail(wire) /\ session' = session /\ wire \in Seq(Messages)
      /\ retained' = [retained EXCEPT ![Head(wire).topic] = Head(wire).payload]
      /\ DOMAIN retained = Topics
      /\ acked' = (acked \/ /\ pc \in {"wait", "waitOnline"} /\ session = "open"
                            /\ Head(wire).worker
                            /\ \A i \in DOMAIN Tail(wire) : ~Tail(wire)[i].worker)
      /\ Head(wire) \in Messages
    BY TailIndex DEF Deliver, Typed, NetFits
<1>2. InFlight' = InFlight /\ pc' = pc
  BY DEF WorkerRests, InFlight
<1>3. StopSays'
  BY <1>1, TailIndex DEF WireFits, StopSays
<1>4. Silent'
  BY <1>1, TailIndex DEF WireFits, Silent, Delivered, WorkerRests
<1>5. ASSUME pc = "wait" PROVE job.topic \in Topics /\ job.topic # "availability"
  BY <1>5 DEF Typed, JobFits, Written
<1>6. Answered'
  <2>1. SUFFICES ASSUME pc = "wait", acked'
                 PROVE  /\ Delivered(wire')
                        /\ \/ retained'[job.topic] = Image(job.state)[job.topic]
                           \/ session' # "open" /\ retained'[job.topic] = ""
    BY <1>2 DEF Answered, WorkerRests
  <2>2. CASE acked
    <3>1. Delivered(wire)
      BY <2>1, <2>2 DEF WireFits, Answered
    <3>2. Head(wire).topic = "availability" /\ Delivered(wire')
      BY <1>1, <3>1, TailIndex DEF Delivered, WireFits, StopSays
    <3>3. retained'[job.topic] = retained[job.topic]
      BY <1>1, <1>5, <2>1, <3>2
    <3>4. QED
      BY <1>1, <2>1, <2>2, <3>2, <3>3 DEF WireFits, Answered
  <2>3. CASE ~acked
    <3>1. session = "open" /\ Head(wire).worker /\ \A i \in DOMAIN Tail(wire) : ~Tail(wire)[i].worker
      BY <1>1, <2>1, <2>3
    <3>2. PICK i \in DOMAIN wire : wire[i] = InFlight
      BY <2>1, <2>3, <3>1 DEF WireFits, Asked
    <3>3. i = 1
      <4>1. SUFFICES ASSUME i # 1 PROVE FALSE
        OBVIOUS
      <4>2. i - 1 \in DOMAIN Tail(wire) /\ Tail(wire)[i - 1] = InFlight
        BY <1>1, <3>2, <4>1, TailIndex
      <4>3. QED
        BY <3>1, <4>2 DEF InFlight
    <3>4. Head(wire) = InFlight
      BY <1>1, <3>2, <3>3, TailIndex
    <3>5. Head(wire).topic = job.topic /\ Head(wire).payload = Image(job.state)[job.topic]
      BY <3>4 DEF InFlight
    <3>6. retained'[job.topic] = Image(job.state)[job.topic]
      BY <1>1, <1>5, <2>1, <3>5
    <3>7. QED
      BY <1>1, <3>1, <3>6 DEF Delivered
  <2>4. QED
    BY <2>2, <2>3
<1>7. Asked'
  <2>1. SUFFICES ASSUME pc = "wait", ~acked', session = "open"
                 PROVE  \E i \in DOMAIN wire' :
                          wire'[i] = InFlight /\ \A j \in DOMAIN wire' : j > i => ~wire'[j].worker
    BY <1>1, <1>2 DEF Asked
  <2>2. PICK i \in DOMAIN wire :
          wire[i] = InFlight /\ \A j \in DOMAIN wire : j > i => ~wire[j].worker
    BY <1>1, <2>1 DEF WireFits, Asked
  <2>3. i # 1
    <3>1. SUFFICES ASSUME i = 1 PROVE FALSE
      OBVIOUS
    <3>2. Head(wire).worker = TRUE
      BY <1>1, <2>2, <3>1, TailIndex DEF InFlight
    <3>3. \A j \in DOMAIN Tail(wire) : ~Tail(wire)[j].worker
      <4>1. TAKE j \in DOMAIN Tail(wire)
      <4>2. j \in Nat /\ j + 1 \in DOMAIN wire /\ Tail(wire)[j] = wire[j + 1]
        BY <1>1, TailIndex
      <4>3. j # 0
        BY <1>1
      <4>4. j + 1 > i
        BY <3>1, <4>2, <4>3
      <4>5. QED
        BY <2>2, <4>2, <4>4
    <3>4. QED
      BY <1>1, <2>1, <3>2, <3>3
  <2>4. i - 1 \in DOMAIN Tail(wire) /\ Tail(wire)[i - 1] = InFlight /\ i \in Nat
    <3>1. i \in Nat
      BY <1>1
    <3>2. QED
      BY <1>1, <2>2, <2>3, <3>1, TailIndex
  <2>5. ASSUME NEW j \in DOMAIN Tail(wire), j > i - 1 PROVE ~Tail(wire)[j].worker
    <3>1. j \in Nat /\ j + 1 \in DOMAIN wire /\ Tail(wire)[j] = wire[j + 1]
      BY <1>1, TailIndex
    <3>2. j + 1 > i
      BY <2>4, <2>5, <3>1
    <3>3. QED
      BY <2>2, <3>1, <3>2
  <2>6. QED
    BY <1>1, <2>4, <2>5
<1>8. QED
  BY <1>3, <1>4, <1>6, <1>7 DEF WireFits

\* What stop() says is the worker's in nothing.
LEMMA OfflineSentWire ==
  ASSUME Typed, WireFits, OfflineSent, WorkerRests PROVE WireFits'
<1> DEFINE m == [topic |-> "availability", payload |-> "offline", worker |-> FALSE]
<1>0. m \in Messages /\ m.worker = FALSE /\ m.topic = "availability" /\ m.payload = "offline"
  BY AvailabilityFits
<1>1. /\ UNCHANGED <<session, acked, retained, pc>> /\ wire \in Seq(Messages)
      /\ wire' = IF session = "open" THEN Append(wire, m) ELSE wire
  BY DEF OfflineSent, Enqueue, Typed, NetFits, WorkerRests
<1>2. /\ InFlight' = InFlight
      /\ Image(job.state)' = Image(job.state) /\ job'.topic = job.topic
  BY DEF WorkerRests, InFlight
<1> HIDE DEF m
<1>3. CASE wire' = wire
  BY <1>1, <1>2, <1>3 DEF WireFits, StopSays, Silent, Answered, Asked, WorkerRests
<1>4. CASE wire' = Append(wire, m)
  <2>1. \A i \in DOMAIN wire : i \in DOMAIN wire' /\ wire'[i] = wire[i]
    BY <1>0, <1>1, <1>4, AppendIndex
  <2>2. \A i \in DOMAIN wire' : wire'[i] = m \/ (i \in DOMAIN wire /\ wire'[i] = wire[i])
    BY <1>0, <1>1, <1>4, AppendIndex
  <2>3. StopSays'
    BY <1>0, <2>2 DEF WireFits, StopSays
  <2>4. Delivered(wire) => Delivered(wire')
    BY <1>0, <2>2 DEF Delivered
  <2>5. Silent' /\ Answered'
    BY <1>1, <1>2, <2>4 DEF WireFits, Silent, Answered, WorkerRests
  <2>6. Asked'
    BY <1>0, <1>1, <1>2, <2>1, <2>2 DEF WireFits, Asked
  <2>7. QED
    BY <2>3, <2>5, <2>6 DEF WireFits
<1>5. QED
  BY <1>1, <1>3, <1>4

LEMMA StepWire ==
  Typed /\ Steady /\ PlaceFits /\ WireFits /\ [Next]_vars => WireFits'
<1> SUFFICES ASSUME Typed, Steady, PlaceFits, WireFits, [Next]_vars PROVE WireFits'
  OBVIOUS
<1>1. CASE Top \/ StartTransport \/ OnlineAcknowledged \/ TimedOut \/ OnlineTimedOut
  <2>1. UNCHANGED wire /\ pc' \in {"top", "starting", "capture", "ended"}
    BY <1>1 DEF Top, StartTransport, OnlineAcknowledged, TimedOut, OnlineTimedOut, network
  <2>2. QED
    BY <2>1 DEF WireFits, StopSays, Silent, Answered, Asked
<1>2. CASE Announced
  <2>1. UNCHANGED wire /\ pc = "send" /\ pc' = "online" /\ job.todo = {}
    BY <1>2 DEF Announced, network
  <2>2. QED
    BY <2>1 DEF WireFits, StopSays, Silent, Answered, Asked
<1>3. CASE Acknowledged
  <2>1. UNCHANGED wire /\ pc = "wait" /\ acked /\ pc' = "send"
    BY <1>3 DEF Acknowledged
  <2>2. QED
    BY <2>1 DEF WireFits, StopSays, Silent, Answered, Asked
<1>4. ASSUME NEW due \in BOOLEAN, Capture(due) PROVE WireFits'
  <2>1. /\ UNCHANGED wire
        /\ \/ pc' = "top"
           \/ /\ pc' = "send"
              /\ job' = [NoJob EXCEPT !.state = news.latest,
                                      !.todo = Todo(news.latest, Forced)]
    BY <1>4 DEF Capture, network
  <2>2. "state" \in Todo(news.latest, Forced)
    BY DEF Todo
  <2>3. QED
    BY <2>1, <2>2 DEF WireFits, StopSays, Silent, Answered, Asked, NoJob
<1>5. CASE SendOnline
  <2>1. pc' \in {"top", "waitOnline"}
    BY <1>5 DEF SendOnline
  <2>2. StopSays'
    <3>1. CASE wire' = wire
      BY <3>1 DEF WireFits, StopSays
    <3>2. CASE wire' # wire
      <4>1. wire' = Append(wire, [topic |-> "availability", payload |-> "online", worker |-> TRUE])
        BY <1>5, <3>2 DEF SendOnline, Enqueue
      <4>2. QED
        BY <4>1, AvailabilityFits, AppendIndex DEF WireFits, StopSays, Typed, NetFits
    <3>3. QED
      BY <3>1, <3>2
  <2>3. QED
    BY <2>1, <2>2 DEF WireFits, Silent, Answered, Asked
<1>6. ASSUME NEW t \in Topics, Send(t) PROVE WireFits'
  <2> DEFINE m == [topic |-> t, payload |-> Image(job.state)[t], worker |-> TRUE]
  <2>1. /\ pc = "send" /\ t \in job.todo /\ t \in Written /\ job.state \in States
        /\ acked' = acked /\ ~acked /\ wire \in Seq(Messages) /\ session' = session
    BY <1>6 DEF Send, First, Typed, JobFits, NetFits, PlaceFits
  <2>2. m \in Messages /\ m.worker = TRUE
    BY <2>1, WrittenFits
  <2>3. CASE wire' = wire
    <3>1. StopSays'
      BY <2>3 DEF WireFits, StopSays
    <3>2. pc' = "top" \/ (pc' = "wait" /\ session # "open")
      <4>1. CASE SameGeneration
        <5>1. pc' = "wait" /\ (session = "open" => wire' = Append(wire, m))
          BY <1>6, <4>1 DEF Send, Enqueue
        <5>2. Append(wire, m) # wire
          <6> HIDE DEF m
          <6>1. Len(Append(wire, m)) = Len(wire) + 1 /\ Len(wire) \in Nat
            BY <2>1, <2>2
          <6>2. QED
            BY <6>1
        <5>3. QED
          BY <2>3, <5>1, <5>2
      <4>2. CASE ~SameGeneration
        BY <1>6, <4>2 DEF Send
      <4>3. QED
        BY <4>1, <4>2
    <3>3. QED
      BY <2>1, <3>1, <3>2 DEF WireFits, Silent, Answered, Asked
  <2>4. CASE wire' # wire
    <3>1. /\ wire' = Append(wire, m) /\ pc' = "wait"
          /\ job' = [job EXCEPT !.topic = t]
      BY <1>6, <2>4 DEF Send, Enqueue
    <3>2. job'.topic = t /\ job'.state = job.state
      BY <3>1 DEF Typed, JobFits
    <3>3. InFlight' = m
      BY <3>2 DEF InFlight, Image
    <3> HIDE DEF m
    <3>4. StopSays'
      BY <2>1, <2>2, <3>1, AppendIndex DEF WireFits, StopSays
    <3>5. /\ Len(wire) + 1 \in DOMAIN wire' /\ wire'[Len(wire) + 1] = m
          /\ \A j \in DOMAIN wire' : ~(j > Len(wire) + 1)
      <4>1. \A j \in DOMAIN wire' : j \in Nat /\ (j < Len(wire) + 1 \/ j = Len(wire) + 1)
        BY <2>1, <2>2, <3>1, AppendIndex
      <4>2. Len(wire) + 1 \in DOMAIN wire' /\ wire'[Len(wire) + 1] = m
        BY <2>1, <2>2, <3>1, AppendIndex
      <4>3. Len(wire) \in Nat
        BY <2>1
      <4>4. QED
        BY <4>1, <4>2, <4>3
    <3>6. Asked'
      BY <3>3, <3>5 DEF Asked
    <3>7. QED
      BY <2>1, <3>1, <3>4, <3>6 DEF WireFits, Silent, Answered
  <2>5. QED
    BY <2>3, <2>4
<1>7. CASE ~Work
  <2>1. /\ WorkerRests /\ SessionFrame /\ (Untouched \/ Deliver \/ Cut \/ OfflineSent)
    BY <1>7, OthersFrame
  <2>2. /\ InFlight' = InFlight
        /\ Image(job.state)' = Image(job.state)
        /\ pc' = pc /\ job'.todo = job.todo /\ job'.topic = job.topic
    BY <2>1 DEF WorkerRests, InFlight
  <2>3. pc = "wait" /\ session' = "open" => session = "open"
    BY <2>1, AtWork DEF SessionFrame
  <2>4. CASE Untouched
    BY <2>2, <2>3, <2>4 DEF Untouched, WireFits, StopSays, Silent, Answered, Asked
  <2>5. CASE Cut
    <3>1. StopSays' /\ Delivered(wire)'
      <4>1. wire' = <<>> /\ DOMAIN wire' = {}
        BY <2>5, NoMessage DEF Cut
      <4>2. QED
        BY <4>1 DEF StopSays, Delivered
    <3>2. pc = "wait" => job.topic \in Written
      BY DEF Typed, JobFits
    <3>3. Silent' /\ Asked'
      BY <2>5, <3>1 DEF Cut, Silent, Asked
    <3>4. Answered'
      <4>1. SUFFICES ASSUME pc = "wait", acked
                     PROVE  retained'[job.topic] = Image(job.state)[job.topic]
                            \/ retained'[job.topic] = ""
        BY <2>2, <2>5, <3>1 DEF Answered, Cut
      <4>2. retained'[job.topic] \in {retained[job.topic], ""}
        BY <2>5, <3>2, <4>1 DEF Cut
      <4>3. QED
        BY <4>1, <4>2 DEF WireFits, Answered
    <3>5. QED
      BY <3>1, <3>3, <3>4 DEF WireFits
  <2>6. QED
    BY <2>1, <2>4, <2>5, DeliverWire, OfflineSentWire
<1>8. QED
  BY <1>1, <1>2, <1>3, <1>4, <1>5, <1>6, <1>7 DEF Work

-----------------------------------------------------------------------------
(* What is not remembered is not there.                                    *)

\* A document that is not remembered is not retained, nor on its way.
DocsRemembered == \A d \in Docs \ known.docs : Holds(retained, wire, d, "")

\* A status is only sure when nothing under way can change it.
SourcesSure == \A x \in Sources : known.avail[x] # "unsure" =>
                 \A i \in DOMAIN wire : wire[i].topic # x

\* A source that is not remembered has no topic on the broker.
SourcesGone == \A x \in Sources : known.avail[x] = "" => retained[x] = ""

MemoryFits == DocsRemembered /\ SourcesSure /\ SourcesGone

\* What an acknowledgement says of the topic in flight, while its session lasts.
LEMMA AcknowledgedHolds ==
  ASSUME Typed, WireFits, pc = "wait", acked
  PROVE  /\ \A i \in DOMAIN wire : wire[i].topic = "availability"
         /\ job.topic \in Written /\ job.state \in States
         /\ \A p : retained[job.topic] = p => Holds(retained, wire, job.topic, p)
         /\ \/ retained[job.topic] = Image(job.state)[job.topic]
            \/ session # "open" /\ retained[job.topic] = ""
<1>1. \A i \in DOMAIN wire : wire[i].topic = "availability"
  BY DEF WireFits, Answered, Delivered, StopSays
<1>2. job.topic \in Written /\ job.state \in States
  BY DEF Typed, JobFits
<1>3. job.topic # "availability"
  BY <1>2 DEF Written
<1>4. QED
  BY <1>1, <1>2, <1>3 DEF Holds, WireFits, Answered

\* A topic of no message under way holds what is retained.
LEMMA Quiet ==
  ASSUME NEW t, \A i \in DOMAIN wire : wire[i].topic # t
  PROVE  \A p : retained[t] = p => Holds(retained, wire, t, p)
  BY DEF Holds

LEMMA HoldsWithOthers ==
  ASSUME Typed, Untouched \/ Deliver \/ Cut \/ OfflineSent, NEW t \in Written,
         NEW p, Holds(retained, wire, t, p), p = "" \/ session' = "open"
  PROVE  Holds(retained', wire', t, p)
<1>0. t \in Topics /\ t # "availability" /\ wire \in Seq(Messages) /\ DOMAIN retained = Topics
  BY DEF Written, Typed, NetFits
<1>1. CASE Untouched
  BY <1>1 DEF Untouched
<1>2. CASE Deliver
  BY <1>0, <1>2, HeldAfterDelivery DEF Deliver
<1>3. CASE Cut
  <2>1. DOMAIN wire' = {} /\ p = "" /\ retained'[t] \in {retained[t], ""}
    BY <1>3, NoMessage DEF Cut
  <2>2. QED
    BY <2>1 DEF Holds
<1>4. CASE OfflineSent
  <2> DEFINE m == [topic |-> "availability", payload |-> "offline", worker |-> FALSE]
  <2>1. m \in Messages /\ m.topic # t
    BY <1>0, AvailabilityFits
  <2>2. retained' = retained /\ wire' \in {wire, Append(wire, m)}
    BY <1>4 DEF OfflineSent, Enqueue
  <2> HIDE DEF m
  <2>3. QED
    BY <1>0, <2>1, <2>2, HeldAfterSending
<1>5. QED
  BY <1>1, <1>2, <1>3, <1>4

\* Others send nothing but what stop() says.
LEMMA OthersAddNothing ==
  ASSUME Typed, Untouched \/ Deliver \/ Cut \/ OfflineSent, NEW t \in Written
  PROVE  (\A i \in DOMAIN wire : wire[i].topic # t) =>
            /\ \A i \in DOMAIN wire' : wire'[i].topic # t
            /\ retained'[t] = retained[t] \/ (session' # "open" /\ retained'[t] = "")
<1> SUFFICES ASSUME \A i \in DOMAIN wire : wire[i].topic # t
             PROVE  /\ \A i \in DOMAIN wire' : wire'[i].topic # t
                    /\ \/ retained'[t] = retained[t]
                       \/ session' # "open" /\ retained'[t] = ""
  OBVIOUS
<1>0. t \in Topics /\ t # "availability" /\ wire \in Seq(Messages) /\ DOMAIN retained = Topics
  BY DEF Written, Typed, NetFits
<1>1. CASE Untouched
  BY <1>1 DEF Untouched
<1>2. CASE Deliver
  <2>1. wire # <<>> /\ wire' = Tail(wire)
        /\ retained' = [retained EXCEPT ![Head(wire).topic] = Head(wire).payload]
    BY <1>2 DEF Deliver
  <2>2. Head(wire).topic # t
    BY <1>0, <2>1, TailIndex
  <2>3. \A i \in DOMAIN wire' : wire'[i].topic # t
    BY <1>0, <2>1, TailIndex
  <2>4. retained'[t] = retained[t]
    BY <1>0, <2>1, <2>2
  <2>5. QED
    BY <2>3, <2>4
<1>3. CASE Cut
  <2>1. DOMAIN wire' = {} /\ session' # "open" /\ retained'[t] \in {retained[t], ""}
    BY <1>3, NoMessage DEF Cut
  <2>2. QED
    BY <2>1
<1>4. CASE OfflineSent
  <2> DEFINE m == [topic |-> "availability", payload |-> "offline", worker |-> FALSE]
  <2>1. m \in Messages /\ m.topic # t
    BY <1>0, AvailabilityFits
  <2>2. retained' = retained /\ wire' \in {wire, Append(wire, m)}
    BY <1>4 DEF OfflineSent, Enqueue
  <2> HIDE DEF m
  <2>3. QED
    BY <1>0, <2>1, <2>2, AppendIndex
<1>5. QED
  BY <1>1, <1>2, <1>3, <1>4

\* A message goes out in the session of the announcement, or none is open.
LEMMA SendFrame ==
  ASSUME Typed, Steady, NEW t \in Topics, Send(t)
  PROVE  /\ t \in job.todo /\ t \in Written /\ First(t) /\ job.state \in States
         /\ pc = "send" /\ job # NoJob /\ UNCHANGED <<retained, session, conn>>
         /\ \/ wire' = wire
            \/ wire' = Append(wire, [topic |-> t, payload |-> Image(job.state)[t],
                                     worker |-> TRUE])
         /\ \/ /\ job' = [job EXCEPT !.topic = t] /\ job'.todo = job.todo
               /\ job'.state = job.state /\ known' = Attempted(t)
            \/ /\ job' = NoJob /\ known' = Failed(Attempted(t), t) /\ session # "open"
<1>1. /\ t \in job.todo /\ t \in Written /\ First(t) /\ job.state \in States
      /\ pc = "send" /\ job # NoJob /\ UNCHANGED <<retained, session, conn>>
  BY AtWork DEF Send, First, Typed, JobFits
<1>2. \/ wire' = wire
      \/ wire' = Append(wire, [topic |-> t, payload |-> Image(job.state)[t], worker |-> TRUE])
  BY DEF Send, Enqueue
<1>3. CASE SameGeneration
  <2>1. job' = [job EXCEPT !.topic = t] /\ known' = Attempted(t)
    BY <1>3 DEF Send
  <2>2. job'.todo = job.todo /\ job'.state = job.state
    BY <2>1 DEF Typed, JobFits
  <2>3. QED
    BY <1>1, <1>2, <2>1, <2>2
<1>4. CASE ~SameGeneration
  <2>1. job' = NoJob /\ known' = Failed(Attempted(t), t)
    BY <1>4 DEF Send
  <2>2. session # "open"
    BY <1>1, <1>4 DEF SameGeneration, Steady, Typed, Linked
  <2>3. QED
    BY <1>1, <1>2, <2>1, <2>2
<1>5. QED
  BY <1>3, <1>4

\* What a step of the worker leaves of the memory, between two messages.
LEMMA CalmFrame ==
  ASSUME Typed, Work, ~Acknowledged, \A t \in Topics : ~Send(t)
  PROVE  /\ known'.docs = known.docs /\ known'.avail = known.avail
         /\ UNCHANGED <<session, retained>>
         /\ \/ wire' = wire
            \/ /\ SendOnline /\ SameGeneration /\ session = "open"
               /\ wire' = Append(wire, [topic |-> "availability", payload |-> "online",
                                        worker |-> TRUE])
<1>1. known'.docs = known.docs /\ known'.avail = known.avail
  <2>1. CASE Top \/ StartTransport \/ SendOnline \/ OnlineAcknowledged \/ OnlineTimedOut
             \/ \E due \in BOOLEAN : Capture(due)
    BY <2>1 DEF Top, StartTransport, SendOnline, OnlineAcknowledged, OnlineTimedOut,
                Capture, memory
  <2>2. CASE Announced
    BY <2>2 DEF Announced, Typed, Memories
  <2>3. CASE TimedOut
    BY <2>3, FailedIs DEF TimedOut, Typed
  <2>4. QED
    BY <2>1, <2>2, <2>3 DEF Work
<1>2. wire' # wire => /\ SendOnline /\ SameGeneration /\ session = "open"
                      /\ wire' = Append(wire, [topic |-> "availability", payload |-> "online",
                                               worker |-> TRUE])
  BY WorkFrame DEF SendOnline, Enqueue
<1>3. QED
  BY <1>1, <1>2, WorkFrame

LEMMA StepRemembered ==
  Typed /\ Steady /\ PlaceFits /\ WireFits /\ MemoryFits /\ [Next]_vars => MemoryFits'
<1> SUFFICES ASSUME Typed, Steady, PlaceFits, WireFits, MemoryFits, [Next]_vars
             PROVE  MemoryFits'
  OBVIOUS
<1>0. /\ Docs \subseteq Written /\ Sources \subseteq Written /\ Docs \cap Sources = {}
      /\ wire \in Seq(Messages) /\ known \in Memories
  BY MqttConstants DEF Written, Topics, Typed, NetFits
<1>1. ASSUME NEW t \in Topics, Send(t) PROVE MemoryFits'
  <2> DEFINE m == [topic |-> t, payload |-> Image(job.state)[t], worker |-> TRUE]
  <2>1. /\ t \in Written /\ job.state \in States /\ retained' = retained
        /\ wire' = wire \/ wire' = Append(wire, m)
        /\ known' = Attempted(t) \/ known' = Failed(Attempted(t), t)
    BY <1>1, SendFrame
  <2>2. m \in Messages /\ m.topic = t /\ m.payload = Image(job.state)[t]
    BY <2>1, WrittenFits
  <2> HIDE DEF m
  <2>3. known'.docs = Attempted(t).docs /\ known'.avail = Attempted(t).avail
    BY <2>1, MemoryTyped, FailedIs DEF Typed
  <2>4. /\ known.docs \subseteq known'.docs
        /\ t \in Docs /\ Image(job.state)[t] # "" => t \in known'.docs
        /\ t \in Sources => known'.avail = [known.avail EXCEPT ![t] = "unsure"]
        /\ t \notin Sources => known'.avail = known.avail
    BY <2>1, <2>3, AttemptedIs
  <2>5. \A i \in DOMAIN wire' : (i \in DOMAIN wire /\ wire'[i] = wire[i]) \/ wire'[i] = m
    BY <1>0, <2>1, <2>2, AppendIndex
  <2>6. DocsRemembered'
    <3>1. SUFFICES ASSUME NEW d \in Docs, d \notin known'.docs
                   PROVE  Holds(retained', wire', d, "")
      BY DEF DocsRemembered
    <3>2. Holds(retained, wire, d, "")
      BY <2>4, <3>1 DEF MemoryFits, DocsRemembered
    <3>3. m.topic = d => m.payload = ""
      BY <2>2, <2>4, <3>1
    <3>4. QED
      BY <1>0, <2>1, <2>2, <3>2, <3>3, HeldAfterSending DEF Topics
  <2>7. \A x \in Sources : known'.avail[x] # "unsure" => x # t /\ known'.avail[x] = known.avail[x]
    BY <1>0, <2>4 DEF Memories
  <2>8. SourcesSure'
    BY <2>2, <2>5, <2>7 DEF MemoryFits, SourcesSure
  <2>9. SourcesGone'
    BY <2>1, <2>7 DEF MemoryFits, SourcesGone
  <2>10. QED
    BY <2>6, <2>8, <2>9 DEF MemoryFits
<1>2. CASE Acknowledged
  <2>1. /\ pc = "wait" /\ acked /\ known' = Confirmed(job.topic) /\ UNCHANGED <<wire, retained>>
    BY <1>2 DEF Acknowledged
  <2>2. /\ job.topic \in Written /\ job.state \in States
        /\ \A i \in DOMAIN wire : wire[i].topic = "availability"
        /\ \A p : retained[job.topic] = p => Holds(retained, wire, job.topic, p)
        /\ Image(job.state)[job.topic] = "" => retained[job.topic] = ""
    BY <2>1, AcknowledgedHolds
  <2>3. /\ known.docs \ {job.topic} \subseteq known'.docs
        /\ job.topic \in known.docs /\ job.topic \notin known'.docs =>
             Image(job.state)[job.topic] = ""
        /\ job.topic \in Sources =>
             known'.avail = [known.avail EXCEPT ![job.topic] = Image(job.state)[job.topic]]
        /\ job.topic \notin Sources => known'.avail = known.avail
    BY <2>1, <2>2, ConfirmedIs
  <2>4. DocsRemembered'
    <3>1. SUFFICES ASSUME NEW d \in Docs, d \notin known'.docs
                   PROVE  Holds(retained, wire, d, "")
      BY <2>1 DEF DocsRemembered
    <3>2. CASE d \notin known.docs
      BY <3>2 DEF MemoryFits, DocsRemembered
    <3>3. CASE d \in known.docs
      <4>1. d = job.topic /\ retained[d] = ""
        BY <2>2, <2>3, <3>1, <3>3
      <4>2. QED
        BY <2>2, <4>1
    <3>4. QED
      BY <3>2, <3>3
  <2>5. SourcesSure'
    BY <1>0, <2>1, <2>2 DEF SourcesSure, Written
  <2>6. SourcesGone'
    BY <1>0, <2>1, <2>2, <2>3 DEF MemoryFits, SourcesGone, Memories
  <2>7. QED
    BY <2>4, <2>5, <2>6 DEF MemoryFits
<1>3. CASE Work /\ ~Acknowledged /\ \A t \in Topics : ~Send(t)
  <2> DEFINE m == [topic |-> "availability", payload |-> "online", worker |-> TRUE]
  <2>1. /\ known'.docs = known.docs /\ known'.avail = known.avail /\ retained' = retained
        /\ wire' = wire \/ wire' = Append(wire, m)
    BY <1>3, CalmFrame
  <2>2. m \in Messages /\ m.topic = "availability"
    BY AvailabilityFits
  <2> HIDE DEF m
  <2>3. \A i \in DOMAIN wire' : (i \in DOMAIN wire /\ wire'[i] = wire[i]) \/ wire'[i] = m
    BY <1>0, <2>1, <2>2, AppendIndex
  <2>4. /\ \A d \in Docs : d # "availability"
        /\ \A x \in Sources : x # "availability"
    BY MqttConstants
  <2>5. DocsRemembered'
    BY <2>1, <2>2, <2>3, <2>4 DEF MemoryFits, DocsRemembered, Holds
  <2>6. SourcesSure'
    BY <2>1, <2>2, <2>3, <2>4 DEF MemoryFits, SourcesSure
  <2>7. SourcesGone'
    BY <2>1 DEF MemoryFits, SourcesGone
  <2>8. QED
    BY <2>5, <2>6, <2>7 DEF MemoryFits
<1>4. CASE ~Work
  <2>1. WorkerRests /\ (Untouched \/ Deliver \/ Cut \/ OfflineSent)
    BY <1>4, OthersFrame
  <2>2. known' = known
    BY <2>1 DEF WorkerRests
  <2>3. DocsRemembered'
    BY <1>0, <2>1, <2>2, HoldsWithOthers DEF MemoryFits, DocsRemembered
  <2>4. \A x \in Sources : known.avail[x] # "unsure" =>
          /\ \A i \in DOMAIN wire' : wire'[i].topic # x
          /\ retained'[x] \in {retained[x], ""}
    <3>1. TAKE x \in Sources
    <3>2. HAVE known.avail[x] # "unsure"
    <3>3. \A i \in DOMAIN wire : wire[i].topic # x
      BY <3>2 DEF MemoryFits, SourcesSure
    <3>4. QED
      BY <1>0, <2>1, <3>3, OthersAddNothing
  <2>5. SourcesSure'
    BY <2>2, <2>4 DEF SourcesSure
  <2>6. SourcesGone'
    BY <2>2, <2>4 DEF MemoryFits, SourcesGone
  <2>7. QED
    BY <2>3, <2>5, <2>6 DEF MemoryFits
<1>5. QED
  BY <1>1, <1>2, <1>3, <1>4

-----------------------------------------------------------------------------
(* What this connection has been told of the sources is there.             *)

\* This connection has been told the status of source x.
Told(x) == conn.synced \/ (job # NoJob /\ x \notin job.todo)

TrustFits ==
  \A x \in Sources :
    session = "open" /\ known.avail[x] \in {"online", "offline"} /\ Told(x)
      => retained[x] = known.avail[x]

LEMMA StepTrust ==
  Typed /\ Steady /\ PlaceFits /\ WireFits /\ MemoryFits /\ TrustFits /\ [Next]_vars
    => TrustFits'
<1> SUFFICES ASSUME Typed, Steady, PlaceFits, WireFits, MemoryFits, TrustFits, [Next]_vars,
                    NEW x \in Sources, session' = "open",
                    known'.avail[x] \in {"online", "offline"}, Told(x)'
             PROVE  retained'[x] = known'.avail[x]
  BY DEF TrustFits
<1>0. x \in Written /\ x \in Topics /\ known \in Memories
  BY MqttConstants DEF Written, Topics, Typed
<1>1. ASSUME NEW t \in Topics, Send(t) PROVE retained'[x] = known'.avail[x]
  <2>1. /\ retained' = retained /\ session = "open" /\ conn' = conn
        /\ job # NoJob /\ job'.todo = job.todo
        /\ job.state \in States /\ known' = Attempted(t)
    BY <1>1, SendFrame
  <2>2. /\ t \in Sources => known'.avail = [known.avail EXCEPT ![t] = "unsure"]
        /\ t \notin Sources => known'.avail = known.avail
    BY <2>1, AttemptedIs
  <2>3. known'.avail[x] = known.avail[x]
    BY <1>0, <2>2 DEF Memories
  <2>4. Told(x)
    BY <2>1 DEF Told
  <2>5. QED
    BY <2>1, <2>3, <2>4 DEF TrustFits
<1>2. CASE Acknowledged
  <2>1. /\ pc = "wait" /\ acked /\ known' = Confirmed(job.topic)
        /\ job' = [job EXCEPT !.todo = @ \ {job.topic}, !.topic = ""]
        /\ UNCHANGED <<session, retained, conn>>
    BY <1>2 DEF Acknowledged
  <2>2. /\ job.topic \in Written /\ job.state \in States /\ job # NoJob
        /\ retained[job.topic] = Image(job.state)[job.topic]
        /\ job'.todo = job.todo \ {job.topic}
    BY <2>1, AcknowledgedHolds, AtWork DEF Typed, JobFits
  <2>3. /\ job.topic \in Sources =>
             known'.avail = [known.avail EXCEPT ![job.topic] = Image(job.state)[job.topic]]
        /\ job.topic \notin Sources => known'.avail = known.avail
    BY <2>1, <2>2, ConfirmedIs
  <2>4. CASE x = job.topic
    BY <1>0, <2>1, <2>2, <2>3, <2>4 DEF Memories
  <2>5. CASE x # job.topic
    <3>1. known'.avail[x] = known.avail[x]
      BY <1>0, <2>3, <2>5 DEF Memories
    <3>2. Told(x)
      BY <2>1, <2>2, <2>5 DEF Told
    <3>3. QED
      BY <2>1, <3>1, <3>2 DEF TrustFits
  <2>6. QED
    BY <2>4, <2>5
<1>3. ASSUME NEW due \in BOOLEAN, Capture(due) PROVE retained'[x] = known'.avail[x]
  <2>1. UNCHANGED <<conn, known, session, retained>>
    BY <1>3 DEF Capture, network
  <2>2. CASE conn.synced
    BY <2>1, <2>2 DEF TrustFits, Told
  <2>3. CASE ~conn.synced
    <3>1. job = NoJob
      BY <1>3, AtWork DEF Capture
    <3>2. job' = [NoJob EXCEPT !.state = news.latest, !.todo = Todo(news.latest, Forced)]
      BY <1>3, <2>1, <2>3, <3>1 DEF Capture, Told
    <3>3. x \notin Todo(news.latest, Forced) /\ Forced
      BY <2>1, <2>3, <3>2 DEF Told, NoJob, Forced
    <3>4. known.avail[x] = StatusOf[news.latest][x] /\ StatusOf[news.latest][x] = ""
      BY <3>3 DEF Todo
    <3>5. QED
      BY <2>1, <3>4
  <2>4. QED
    BY <2>2, <2>3
<1>4. CASE Announced
  <2>1. /\ job.todo = {} /\ job # NoJob /\ UNCHANGED <<session, retained>>
        /\ known'.avail = known.avail
    BY <1>4, AtWork DEF Announced, network, Typed, Memories
  <2>2. QED
    BY <2>1 DEF TrustFits, Told
<1>5. CASE \/ Top \/ StartTransport \/ SendOnline \/ OnlineAcknowledged \/ TimedOut
           \/ OnlineTimedOut
  <2>1. known'.avail = known.avail /\ UNCHANGED <<session, retained>>
    <3>1. CASE Top \/ StartTransport \/ SendOnline \/ OnlineAcknowledged \/ OnlineTimedOut
      BY <3>1 DEF Top, StartTransport, SendOnline, OnlineAcknowledged, OnlineTimedOut,
                  memory, network
    <3>2. CASE TimedOut
      BY <3>2, FailedIs DEF TimedOut, Typed
    <3>3. QED
      BY <1>5, <3>1, <3>2
  <2>2. conn'.synced = conn.synced
    BY <1>5 DEF Top, StartTransport, SendOnline, OnlineAcknowledged, TimedOut,
                OnlineTimedOut, Typed, Linked
  <2>3. job' = job \/ job' = NoJob
    BY <1>5 DEF Top, StartTransport, SendOnline, OnlineAcknowledged, TimedOut, OnlineTimedOut
  <2>4. Told(x)
    BY <2>2, <2>3 DEF Told
  <2>5. QED
    BY <2>1, <2>4 DEF TrustFits
<1>6. CASE ~Work
  <2>1. /\ WorkerRests /\ SessionFrame /\ (Untouched \/ Deliver \/ Cut \/ OfflineSent)
    BY <1>6, OthersFrame
  <2>2. known' = known /\ job'.todo = job.todo /\ (job' = NoJob <=> job = NoJob)
    BY <2>1 DEF WorkerRests
  <2>3. session = "open" /\ conn'.synced = conn.synced
    BY <2>1, <2>2 DEF SessionFrame, Told
  <2>4. retained[x] = known.avail[x]
    BY <2>2, <2>3 DEF TrustFits, Told
  <2>5. \A i \in DOMAIN wire : wire[i].topic # x
    BY <2>2 DEF MemoryFits, SourcesSure
  <2>6. retained'[x] = retained[x]
    BY <1>0, <2>1, <2>5, OthersAddNothing
  <2>7. QED
    BY <2>2, <2>4, <2>6
<1>7. QED
  BY <1>1, <1>2, <1>3, <1>4, <1>5, <1>6 DEF Work

-----------------------------------------------------------------------------
(* What the announcement need not write, or has written, is there; so are  *)
(* the documents of the last announcement that came to the state.          *)

DocOf(f, d) == IF d \in DocsOf[f] THEN f ELSE ""

\* What an announcement has written, or need not write, stays while the session
\* lasts.
Done ==
  job # NoJob /\ session = "open" =>
    \A t \in Written \ job.todo : Holds(retained, wire, t, Image(job.state)[t])

\* A complete announcement leaves the documents of its configuration.
DocsDone ==
  job = NoJob /\ session = "open" /\ conn.synced /\ known.fingerprint # "" =>
    \A d \in Docs : Holds(retained, wire, d, DocOf(known.fingerprint, d))

Settled == Done /\ DocsDone

LEMMA ImageIs ==
  ASSUME NEW s \in States
  PROVE  /\ \A d \in Docs : Image(s)[d] = DocOf(ConfigOf[s], d)
         /\ \A x \in Sources : Image(s)[x] = StatusOf[s][x]
         /\ ConfigOf[s] \in Configs /\ ConfigOf[s] # ""
         /\ \A x \in Sources : StatusOf[s][x] \in {"", "online", "offline"}
<1>1. ASSUME NEW d \in Docs PROVE Image(s)[d] = DocOf(ConfigOf[s], d)
  <2>1. d \in Topics \ {"availability"}
    BY MqttConstants DEF Topics
  <2>2. d \notin Sources /\ d # "state"
    BY MqttConstants
  <2>3. QED
    BY <2>1, <2>2 DEF Image, DocOf
<1>2. ASSUME NEW x \in Sources PROVE Image(s)[x] = StatusOf[s][x]
  <2>1. x \in Topics \ {"availability"}
    BY MqttConstants DEF Topics
  <2>2. x \notin Docs /\ x # "state"
    BY MqttConstants
  <2>3. QED
    BY <2>1, <2>2 DEF Image
<1>3. ConfigOf[s] \in Configs /\ ConfigOf[s] # ""
  BY MqttConstants
<1>4. \A x \in Sources : StatusOf[s][x] \in {"", "online", "offline"}
  BY MqttConstants
<1>5. QED
  BY <1>1, <1>2, <1>3, <1>4

\* What a new announcement leaves out is there already.
LEMMA CaptureSettles ==
  ASSUME Typed, MemoryFits, TrustFits, Settled, job = NoJob, session = "open",
         NEW s \in States, NEW force, force = Forced,
         NEW t \in Written \ Todo(s, force)
  PROVE  Holds(retained, wire, t, Image(s)[t])
<1>1. CASE t \in Docs
  <2>1. Image(s)[t] = DocOf(ConfigOf[s], t)
    BY <1>1, ImageIs
  <2>2. CASE t \in known.docs \cup DocsOf[ConfigOf[s]]
    <3>1. ~force /\ known.fingerprint = ConfigOf[s]
      BY <2>2 DEF Todo
    <3>2. conn.synced /\ known.fingerprint # ""
      BY <3>1, ImageIs DEF Forced
    <3>3. QED
      BY <1>1, <2>1, <3>1, <3>2 DEF Settled, DocsDone
  <2>3. CASE t \notin known.docs \cup DocsOf[ConfigOf[s]]
    <3>1. Image(s)[t] = ""
      BY <2>1, <2>3 DEF DocOf
    <3>2. QED
      BY <1>1, <2>3, <3>1 DEF MemoryFits, DocsRemembered
  <2>4. QED
    BY <2>2, <2>3
<1>2. CASE t \in Sources
  <2>1. /\ Image(s)[t] = StatusOf[s][t] /\ known.avail[t] = StatusOf[s][t]
        /\ force => StatusOf[s][t] = ""
        /\ StatusOf[s][t] \in {"", "online", "offline"}
    BY <1>2, ImageIs DEF Todo
  <2>2. \A i \in DOMAIN wire : wire[i].topic # t
    <3>1. known.avail[t] # "unsure"
      BY <2>1
    <3>2. QED
      BY <1>2, <3>1 DEF MemoryFits, SourcesSure
  <2>3. retained[t] = StatusOf[s][t]
    <3>1. CASE StatusOf[s][t] = ""
      BY <1>2, <2>1, <3>1 DEF MemoryFits, SourcesGone
    <3>2. CASE StatusOf[s][t] # ""
      <4>1. conn.synced
        BY <2>1, <3>2 DEF Forced
      <4>2. QED
        BY <1>2, <2>1, <3>2, <4>1 DEF TrustFits, Told
    <3>3. QED
      BY <3>1, <3>2
  <2>4. QED
    BY <2>1, <2>2, <2>3, Quiet
<1>3. CASE t = "state"
  BY <1>3 DEF Todo
<1>4. QED
  BY <1>1, <1>2, <1>3 DEF Written, Topics

LEMMA StepDone ==
  Typed /\ Steady /\ PlaceFits /\ WireFits /\ MemoryFits /\ TrustFits /\ Settled /\ [Next]_vars
    => Done'
<1> SUFFICES ASSUME Typed, Steady, PlaceFits, WireFits, MemoryFits, TrustFits, Settled,
                    [Next]_vars, job' # NoJob, session' = "open",
                    NEW t \in Written, t \notin job'.todo
             PROVE  Holds(retained', wire', t, Image(job'.state)[t])
  BY DEF Done, Image
<1>0. t \in Topics /\ t # "availability" /\ wire \in Seq(Messages)
  BY DEF Written, Typed, NetFits
<1>1. ASSUME NEW u \in Topics, Send(u) PROVE Holds(retained', wire', t, Image(job'.state)[t])
  <2> DEFINE m == [topic |-> u, payload |-> Image(job.state)[u], worker |-> TRUE]
  <2>1. /\ u \in job.todo /\ u \in Written /\ job.state \in States /\ job # NoJob
        /\ retained' = retained /\ session = "open"
        /\ wire' = wire \/ wire' = Append(wire, m)
        /\ job'.todo = job.todo /\ job'.state = job.state
    BY <1>1, SendFrame
  <2>2. m \in Messages /\ m.topic = u
    BY <2>1, WrittenFits
  <2> HIDE DEF m
  <2>3. Holds(retained, wire, t, Image(job.state)[t]) /\ t # u
    BY <2>1 DEF Settled, Done
  <2>4. QED
    BY <1>0, <2>1, <2>2, <2>3, HeldAfterSending
<1>2. CASE Acknowledged
  <2>1. /\ pc = "wait" /\ acked
        /\ job' = [job EXCEPT !.todo = @ \ {job.topic}, !.topic = ""]
        /\ UNCHANGED <<session, retained, wire>>
    BY <1>2 DEF Acknowledged
  <2>2. /\ job # NoJob /\ job'.todo = job.todo \ {job.topic} /\ job'.state = job.state
    BY <2>1, AtWork DEF Typed, JobFits
  <2>3. CASE t = job.topic
    BY <2>1, <2>2, <2>3, AcknowledgedHolds
  <2>4. CASE t # job.topic
    BY <2>1, <2>2, <2>4 DEF Settled, Done
  <2>5. QED
    BY <2>3, <2>4
<1>3. ASSUME NEW due \in BOOLEAN, Capture(due)
      PROVE  Holds(retained', wire', t, Image(job'.state)[t])
  <2>1. job = NoJob /\ UNCHANGED <<session, retained, wire>>
    BY <1>3, AtWork DEF Capture, network
  <2>2. /\ job' = [NoJob EXCEPT !.state = news.latest, !.todo = Todo(news.latest, Forced)]
        /\ news.latest # ""
    BY <1>3, <2>1 DEF Capture
  <2>3. /\ job'.state = news.latest /\ job'.todo = Todo(news.latest, Forced)
        /\ news.latest \in States
    BY <2>2 DEF NoJob, Typed, JobFits
  <2>4. QED
    BY <2>1, <2>3, CaptureSettles
<1>4. CASE Announced
  BY <1>4 DEF Announced, network, Settled, Done
<1>5. CASE SendOnline
  <2> DEFINE m == [topic |-> "availability", payload |-> "online", worker |-> TRUE]
  <2>1. /\ job' = job /\ UNCHANGED <<session, retained>>
        /\ wire' = wire \/ wire' = Append(wire, m)
    BY <1>5 DEF SendOnline, Enqueue
  <2>2. m \in Messages /\ m.topic # t
    BY <1>0, AvailabilityFits
  <2> HIDE DEF m
  <2>3. Holds(retained, wire, t, Image(job.state)[t])
    BY <2>1 DEF Settled, Done
  <2>4. QED
    BY <1>0, <2>1, <2>2, <2>3, HeldAfterSending
<1>6. CASE Top \/ StartTransport \/ OnlineAcknowledged \/ TimedOut \/ OnlineTimedOut
  BY <1>6, AtWork DEF Top, StartTransport, OnlineAcknowledged, TimedOut, OnlineTimedOut
<1>7. CASE ~Work
  <2>1. WorkerRests /\ SessionFrame /\ (Untouched \/ Deliver \/ Cut \/ OfflineSent)
    BY <1>7, OthersFrame
  <2>2. job # NoJob /\ job'.todo = job.todo /\ job'.state = job.state /\ session = "open"
    BY <2>1 DEF WorkerRests, SessionFrame
  <2>3. Holds(retained, wire, t, Image(job.state)[t])
    BY <2>2 DEF Settled, Done
  <2>4. QED
    BY <2>1, <2>2, <2>3, HoldsWithOthers
<1>8. QED
  BY <1>1, <1>2, <1>3, <1>4, <1>5, <1>6, <1>7 DEF Work

\* An announcement that is given up past the documents leaves them written.
LEMMA DocsAreWritten ==
  ASSUME Typed, PlaceFits, Settled, session = "open", job # NoJob, job.state \in States,
         \A d \in Docs : d \notin job.todo,
         "state" \notin job.todo \/ job.topic = "state"
  PROVE  \A d \in Docs : Holds(retained, wire, d, DocOf(known.fingerprint, d))
<1>1. known.fingerprint = ConfigOf[job.state]
  BY DEF PlaceFits
<1>2. \A d \in Docs : d \in Written \ job.todo
  BY MqttConstants DEF Written, Topics
<1>3. \A d \in Docs : Holds(retained, wire, d, Image(job.state)[d])
  BY <1>2 DEF Settled, Done
<1>4. \A d \in Docs : Image(job.state)[d] = DocOf(ConfigOf[job.state], d)
  BY ImageIs
<1>5. QED
  BY <1>1, <1>3, <1>4

LEMMA StepDocsDone ==
  Typed /\ Steady /\ PlaceFits /\ WireFits /\ Settled /\ [Next]_vars => DocsDone'
<1> SUFFICES ASSUME Typed, Steady, PlaceFits, WireFits, Settled, [Next]_vars,
                    job' = NoJob, session' = "open", conn'.synced,
                    known'.fingerprint # "", NEW d \in Docs
             PROVE  Holds(retained', wire', d, DocOf(known'.fingerprint, d))
  BY DEF DocsDone, DocOf
<1>0. NoJob.state \notin States /\ NoJob.state = ""
  BY MqttConstants DEF NoJob
<1>1. ASSUME NEW t \in Topics, Send(t) PROVE FALSE
  BY <1>0, <1>1, SendFrame
<1>2. CASE Acknowledged
  <2>1. job'.state = job.state /\ job.state \in States
    BY <1>2 DEF Acknowledged, Typed, JobFits
  <2>2. QED
    BY <1>0, <2>1
<1>3. CASE Announced
  BY <1>3, AtWork DEF Announced
<1>4. ASSUME NEW due \in BOOLEAN, Capture(due)
      PROVE  Holds(retained', wire', d, DocOf(known'.fingerprint, d))
  <2>1. job = NoJob /\ UNCHANGED <<conn, known, session, retained, wire>>
    BY <1>4, AtWork DEF Capture, network
  <2>2. QED
    BY <2>1 DEF Settled, DocsDone
<1>5. CASE Top \/ StartTransport
  <2>1. /\ job = NoJob /\ UNCHANGED <<known, session, retained, wire>>
        /\ conn'.synced = conn.synced
    BY <1>5, AtWork DEF Top, StartTransport, memory, network, Typed, Linked
  <2>2. QED
    BY <2>1 DEF Settled, DocsDone
<1>6. CASE SendOnline \/ OnlineAcknowledged \/ OnlineTimedOut
  <2>1. /\ job # NoJob /\ job.state \in States /\ pc \in {"online", "waitOnline"}
        /\ UNCHANGED <<known, session, retained>>
    BY <1>6, AtWork DEF SendOnline, OnlineAcknowledged, OnlineTimedOut, memory, Typed, JobFits
  <2>2. wire' = wire
    BY <1>6, <2>1 DEF SendOnline, OnlineAcknowledged, OnlineTimedOut
  <2>3. job.todo = {}
    BY <2>1 DEF PlaceFits
  <2>4. QED
    BY <2>1, <2>2, <2>3, DocsAreWritten
<1>7. CASE TimedOut
  <2>1. /\ job # NoJob /\ job.state \in States /\ pc = "wait" /\ job.topic \in Written
        /\ UNCHANGED <<session, retained, wire>> /\ known' = Failed(known, job.topic)
    BY <1>7, AtWork DEF TimedOut, Typed, JobFits
  <2>2. job.topic \notin Docs /\ known'.fingerprint = known.fingerprint
    BY <2>1, FailedIs DEF Typed
  <2>3. First(job.topic)
    BY <2>1 DEF PlaceFits
  <2>4. \A e \in Docs : e \notin job.todo
    BY <2>1, <2>2, <2>3, DocsComeFirst
  <2>5. job.topic = "state" \/ job.topic \in Sources
    BY <2>1, <2>2 DEF Written, Topics
  <2>6. "state" \notin job.todo \/ job.topic = "state"
    BY <2>1, <2>3, <2>5, StateBeforeSources
  <2>7. QED
    BY <2>1, <2>2, <2>4, <2>6, DocsAreWritten
<1>8. CASE ~Work
  <2>1. WorkerRests /\ SessionFrame /\ (Untouched \/ Deliver \/ Cut \/ OfflineSent)
    BY <1>8, OthersFrame
  <2>2. job = NoJob /\ known' = known /\ session = "open" /\ conn'.synced = conn.synced
    BY <2>1 DEF WorkerRests, SessionFrame
  <2>3. Holds(retained, wire, d, DocOf(known.fingerprint, d))
    BY <2>2 DEF Settled, DocsDone
  <2>4. d \in Written
    BY MqttConstants DEF Written, Topics
  <2>5. QED
    BY <2>1, <2>2, <2>3, <2>4, HoldsWithOthers
<1>9. QED
  BY <1>1, <1>2, <1>3, <1>4, <1>5, <1>6, <1>7, <1>8 DEF Work

-----------------------------------------------------------------------------
(* An "online" that is under way overtakes nothing.                        *)

SaysOnline(i) == wire[i].topic = "availability" /\ wire[i].payload = "online"

\* Online follows nothing but other statuses of the service, and the broker is
\* complete.
OnlineFits ==
  \A i \in DOMAIN wire : SaysOnline(i) =>
    /\ \A j \in DOMAIN wire : j <= i => wire[j].topic = "availability"
    /\ \E s \in States : Complete(s)

LEMMA StepOnline ==
  Typed /\ Steady /\ PlaceFits /\ WireFits /\ Settled /\ OnlineFits /\ [Next]_vars
    => OnlineFits'
<1> SUFFICES ASSUME Typed, Steady, PlaceFits, WireFits, Settled, OnlineFits, [Next]_vars
             PROVE  OnlineFits'
  OBVIOUS
<1>0. wire \in Seq(Messages) /\ \A s : DOMAIN Image(s) = Written
  BY DEF Typed, NetFits, Image, Written
<1>1. CASE retained' = retained /\ wire' = wire
  BY <1>1 DEF OnlineFits, SaysOnline, Complete
<1>2. ASSUME NEW m \in Messages, retained' = retained, wire' = Append(wire, m),
             m.topic = "availability" /\ m.payload = "online" =>
               /\ \A i \in DOMAIN wire : wire[i].topic = "availability"
               /\ \E s \in States : Complete(s)
      PROVE  OnlineFits'
  <2>1. \A s : Complete(s)' <=> Complete(s)
    BY <1>2 DEF Complete
  <2>2. ASSUME NEW i \in DOMAIN wire', SaysOnline(i)'
        PROVE  /\ \A j \in DOMAIN wire' : j <= i => wire'[j].topic = "availability"
               /\ \E s \in States : Complete(s)
    <3>1. CASE i \in DOMAIN wire
      <4>1. SaysOnline(i) /\ i < Len(wire) + 1 /\ i \in Nat
        BY <1>0, <1>2, <2>2, <3>1, AppendIndex DEF SaysOnline
      <4>2. \A j \in DOMAIN wire' : j <= i => j \in DOMAIN wire /\ wire'[j] = wire[j]
        <5>1. TAKE j \in DOMAIN wire'
        <5>2. HAVE j <= i
        <5>3. j # Len(wire) + 1
          <6>1. Len(wire) \in Nat
            BY <1>0
          <6>2. QED
            BY <4>1, <5>2, <6>1
        <5>4. QED
          BY <1>0, <1>2, <5>3, AppendIndex
      <4>3. QED
        BY <3>1, <4>1, <4>2 DEF OnlineFits
    <3>2. CASE i \notin DOMAIN wire
      <4>1. wire'[i] = m
        BY <1>0, <1>2, <2>2, <3>2, AppendIndex
      <4>2. m.topic = "availability" /\ m.payload = "online"
        BY <2>2, <4>1 DEF SaysOnline
      <4>3. \A j \in DOMAIN wire' : wire'[j].topic = "availability"
        BY <1>0, <1>2, <4>2, AppendIndex
      <4>4. QED
        BY <1>2, <4>2, <4>3
    <3>3. QED
      BY <3>1, <3>2
  <2>3. QED
    BY <2>1, <2>2 DEF OnlineFits
<1>3. ASSUME NEW t \in Topics, Send(t) PROVE OnlineFits'
  <2> DEFINE m == [topic |-> t, payload |-> Image(job.state)[t], worker |-> TRUE]
  <2>1. /\ t \in Written /\ job.state \in States /\ retained' = retained
        /\ wire' = wire \/ wire' = Append(wire, m)
    BY <1>3, SendFrame
  <2>2. m \in Messages /\ m.topic # "availability"
    BY <2>1, WrittenFits DEF Written
  <2> HIDE DEF m
  <2>3. QED
    BY <1>1, <1>2, <2>1, <2>2
<1>4. CASE SendOnline
  <2> DEFINE m == [topic |-> "availability", payload |-> "online", worker |-> TRUE]
  <2>1. CASE wire' = wire
    BY <1>1, <1>4, <2>1 DEF SendOnline
  <2>2. CASE wire' # wire
    <3>1. /\ pc = "online" /\ session = "open" /\ wire' = Append(wire, m)
          /\ retained' = retained
      BY <1>4, <2>2 DEF SendOnline, Enqueue
    <3>2. job.todo = {} /\ job # NoJob /\ job.state \in States
      BY <3>1, AtWork DEF PlaceFits, Typed, JobFits
    <3>3. \A i \in DOMAIN wire : wire[i].topic = "availability"
      BY <3>1, <3>2 DEF WireFits, Silent, StopSays, Delivered
    <3>4. Complete(job.state)
      BY <1>0, <3>1, <3>2 DEF Settled, Done, Holds, Complete
    <3>5. m \in Messages
      BY AvailabilityFits
    <3> HIDE DEF m
    <3>6. QED
      BY <1>2, <3>1, <3>2, <3>3, <3>4, <3>5
  <2>3. QED
    BY <2>1, <2>2
<1>5. CASE Work /\ ~SendOnline /\ \A t \in Topics : ~Send(t)
  BY <1>1, <1>5, WorkFrame
<1>6. CASE ~Work
  <2>1. Untouched \/ Deliver \/ Cut \/ OfflineSent
    BY <1>6, OthersFrame
  <2>2. CASE Untouched
    BY <1>1, <2>2 DEF Untouched
  <2>3. CASE Cut
    <3>1. DOMAIN wire' = {}
      BY <2>3, NoMessage DEF Cut
    <3>2. QED
      BY <3>1 DEF OnlineFits
  <2>4. CASE OfflineSent
    <3> DEFINE m == [topic |-> "availability", payload |-> "offline", worker |-> FALSE]
    <3>1. retained' = retained /\ wire' \in {wire, Append(wire, m)}
      BY <2>4 DEF OfflineSent, Enqueue
    <3>2. m \in Messages /\ m.payload # "online"
      BY AvailabilityFits
    <3> HIDE DEF m
    <3>3. QED
      BY <1>1, <1>2, <3>1, <3>2
  <2>5. CASE Deliver
    <3>1. /\ wire # <<>> /\ wire' = Tail(wire) /\ DOMAIN retained = Topics
          /\ retained' = [retained EXCEPT ![Head(wire).topic] = Head(wire).payload]
      BY <2>5 DEF Deliver, Typed, NetFits
    <3>2. ASSUME NEW i \in DOMAIN wire', SaysOnline(i)'
          PROVE  /\ \A j \in DOMAIN wire' : j <= i => wire'[j].topic = "availability"
                 /\ \E s \in States : Complete(s)'
      <4>1. i \in Nat /\ i + 1 \in DOMAIN wire /\ SaysOnline(i + 1)
        BY <1>0, <3>1, <3>2, TailIndex DEF SaysOnline
      <4>2. PICK s \in States : Complete(s)
        BY <4>1 DEF OnlineFits
      <4>3. \A j \in DOMAIN wire : j <= i + 1 => wire[j].topic = "availability"
        BY <4>1 DEF OnlineFits
      <4>4. Head(wire).topic = "availability"
        <5>1. 1 \in DOMAIN wire /\ Head(wire) = wire[1]
          BY <1>0, <3>1, TailIndex
        <5>2. 1 <= i + 1
          BY <4>1
        <5>3. QED
          BY <4>3, <5>1, <5>2
      <4>5. \A t \in Written : retained'[t] = retained[t]
        BY <3>1, <4>4 DEF Written
      <4>6. Complete(s)'
        BY <1>0, <4>2, <4>5 DEF Complete
      <4>7. \A j \in DOMAIN wire' : j <= i => wire'[j].topic = "availability"
        <5>1. TAKE j \in DOMAIN wire'
        <5>2. HAVE j <= i
        <5>3. j \in Nat /\ j + 1 \in DOMAIN wire /\ wire'[j] = wire[j + 1]
          BY <1>0, <3>1, TailIndex
        <5>4. j + 1 <= i + 1
          BY <4>1, <5>2, <5>3
        <5>5. QED
          BY <4>3, <5>3, <5>4
      <4>8. QED
        BY <4>6, <4>7
    <3>3. QED
      BY <3>2 DEF OnlineFits
  <2>6. QED
    BY <2>1, <2>2, <2>3, <2>4, <2>5
<1>7. QED
  BY <1>3, <1>4, <1>5, <1>6 DEF Work

-----------------------------------------------------------------------------
(* What follows for the broker and for whoever reads it.                   *)

Kept ==
  /\ Typed /\ Steady /\ PlaceFits /\ WireFits /\ MemoryFits /\ TrustFits /\ Settled
  /\ OnlineFits

LEMMA StepKept == Kept /\ [Next]_vars => Kept'
  BY StepTyped, StepSteady, StepPlace, StepWire, StepRemembered, StepTrust, StepDone,
     StepDocsDone, StepOnline DEF Kept, Settled

LEMMA InitKept == Init => Kept
<1> SUFFICES ASSUME Init PROVE Kept
  OBVIOUS
<1>1. /\ Typed /\ job = NoJob /\ pc = "top" /\ acked = FALSE /\ session = "none"
      /\ retained = [t \in Topics |-> ""] /\ conn.link = "opening"
      /\ known.docs = {} /\ known.avail = [x \in Sources |-> ""]
  BY InitTyped DEF Init
<1>2. DOMAIN wire = {}
  BY NoMessage DEF Init
<1>3. Docs \cup Sources \subseteq Topics
  BY DEF Topics
<1>4. Steady /\ PlaceFits
  BY <1>1 DEF Steady, PlaceFits
<1>5. WireFits
  BY <1>1, <1>2 DEF WireFits, StopSays, Silent, Answered, Asked
<1>6. MemoryFits
  BY <1>1, <1>2, <1>3 DEF MemoryFits, DocsRemembered, SourcesSure, SourcesGone, Holds
<1>7. TrustFits /\ Settled
  BY <1>1 DEF TrustFits, Settled, Done, DocsDone
<1>8. OnlineFits
  BY <1>2 DEF OnlineFits
<1>9. QED
  BY <1>1, <1>4, <1>5, <1>6, <1>7, <1>8 DEF Kept

\* A topic the broker retains, or may come to retain from what is under way, is
\* remembered, whatever connections, acknowledgements and restarts were lost:
\* a later state can still delete it (mqtt.py:345-347, 356-371).
THEOREM MemoryIsKept == SafetySpec => []NothingForgotten
<1>1. Kept => NothingForgotten
  <2> SUFFICES ASSUME Kept PROVE NothingForgotten
    OBVIOUS
  <2>1. \A d \in Docs \ known.docs : Holds(retained, wire, d, "")
    BY DEF Kept, MemoryFits, DocsRemembered
  <2>2. \A x \in Sources : known.avail[x] = "" =>
          retained[x] = "" /\ \A i \in DOMAIN wire : wire[i].topic # x
    BY DEF Kept, MemoryFits, SourcesSure, SourcesGone
  <2>3. QED
    BY <2>1, <2>2 DEF NothingForgotten, Holds
<1>2. QED
  BY <1>1, InitKept, StepKept, PTL DEF SafetySpec

\* A status taken as acknowledged is what the broker retains, or the next
\* announcement of this connection sends it again (mqtt.py:363-371).
THEOREM TrustIsDeserved == SafetySpec => []TrustedIsRetained
<1>1. Kept => TrustedIsRetained
  BY DEF Kept, TrustFits, TrustedIsRetained, Told
<1>2. QED
  BY <1>1, InitKept, StepKept, PTL DEF SafetySpec

\* Whatever an announcement has written, or found no need to write, is what the
\* broker retains while the session lasts, and so are the documents of the
\* configuration last confirmed (mqtt.py:345-399).
THEOREM AnnouncedIsRetained == SafetySpec => []Settled
<1>1. Kept => Settled
  BY DEF Kept
<1>2. QED
  BY <1>1, InitKept, StepKept, PTL DEF SafetySpec

\* The device is shown online only when every document, the state and every
\* source retained are those of one published state (mqtt.py:454-477).
THEOREM OnlineComesLast == SafetySpec => OnlineMeansComplete
<1> DEFINE Shown == retained["availability"] # "online" /\ retained'["availability"] = "online"
<1>1. ASSUME Kept, [Next]_vars, Shown PROVE \E s \in States : Complete(s)
  <2>1. wire \in Seq(Messages) /\ DOMAIN retained = Topics /\ "availability" \in Topics
    BY <1>1 DEF Kept, Typed, NetFits, Topics
  <2>2. Deliver
    <3>1. retained' # retained
      BY <1>1
    <3>2. ~Work /\ ~Untouched /\ ~OfflineSent
      BY <3>1, WorkFrame DEF Untouched, OfflineSent
    <3>3. ~Cut
      BY <1>1 DEF Cut
    <3>4. QED
      BY <1>1, <3>2, <3>3, OthersFrame DEF Kept
  <2>3. /\ wire # <<>>
        /\ retained' = [retained EXCEPT ![Head(wire).topic] = Head(wire).payload]
    BY <2>2 DEF Deliver
  <2>4. Head(wire).topic = "availability" /\ Head(wire).payload = "online"
    BY <1>1, <2>1, <2>3
  <2>5. 1 \in DOMAIN wire /\ SaysOnline(1)
    BY <2>1, <2>3, <2>4, TailIndex DEF SaysOnline
  <2>6. QED
    BY <1>1, <2>5 DEF Kept, OnlineFits
<1>2. Kept /\ [Next]_vars => [Shown => \E s \in States : Complete(s)]_vars
  BY <1>1
<1>3. QED
  BY <1>2, InitKept, StepKept, PTL DEF SafetySpec, OnlineMeansComplete

=============================================================================
