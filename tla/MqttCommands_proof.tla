------------------------- MODULE MqttCommands_proof -------------------------
(***************************************************************************)
(* The ids of MQTT's scalar commands, for any limits and any number of     *)
(* messages, duplicates and connections.                                   *)
(***************************************************************************)
EXTENDS MqttCommands, FiniteSetTheorems, TLAPS

\* The worker takes the copies in the order they came.
InOrder ==
  /\ \A i \in DOMAIN queue : queue[i].copy <= copies
  /\ \A i, j \in DOMAIN queue : i < j => queue[i].copy < queue[j].copy

\* A command is only taken while there is room for its result.
Room == Bounded /\ (At("handle") => Len(results) < ResultLimit)

\* What was submitted came before what is queued, under an id no newer than
\* the copy, so that the number of the next copy is nobody's id.
Older ==
  /\ \A e \in submitted : e.id <= e.at
  /\ \A e \in submitted, i \in DOMAIN queue : e.at < queue[i].copy
  /\ \A e \in submitted : e.at <= copies

\* _packet_ids only holds ids under which the very message was submitted.
Remembered == \A e \in memory : \E f \in submitted : f.msg = e.msg /\ f.id = e.id

\* The publication under way is the first result's.
InFlight == (flight # "none" <=> At("wait")) /\ (At("wait") => results # <<>>)

IInv == TypeOK /\ Room /\ InFlight /\ InOrder /\ Older /\ Remembered /\ IdsAreNotShared

\* Nothing has come yet.
LEMMA InitInvariant == Init => IInv
  <1> SUFFICES ASSUME Init PROVE IInv
    OBVIOUS
  <1> USE CommandConstants DEF Init
  <1>1. queue \in Seq(Copies) /\ Len(queue) = 0 /\ DOMAIN queue = {} /\ Len(results) = 0 /\ results \in Seq(Messages)
    OBVIOUS
  <1>2. TypeOK
    BY <1>1 DEF TypeOK, Workers, Items, At
  <1>3. Room /\ InFlight /\ InOrder /\ Older /\ Remembered /\ IdsAreNotShared
    BY <1>1 DEF Room, Bounded, InFlight, At, InOrder, Older, Remembered, IdsAreNotShared
  <1> QED
    BY <1>2, <1>3 DEF IInv

\* A step that leaves queue and ids alone only has its types to answer for.
LEMMA Elsewhere ==
  ASSUME IInv, TypeOK', InFlight', Room', UNCHANGED <<queue, submitted, copies>>, memory' \subseteq memory
  PROVE  IInv'
  <1>1. InOrder'
    BY DEF IInv, InOrder
  <1>2. Older'
    BY DEF IInv, Older
  <1>3. Remembered' /\ IdsAreNotShared'
    BY DEF IInv, Remembered, IdsAreNotShared
  <1> QED
    BY <1>1, <1>2, <1>3 DEF IInv

\* Taking the first copy away leaves the rest in order.
LEMMA TailKeeps ==
  ASSUME TypeOK, Room, InOrder, queue # <<>>, queue' = Tail(queue), UNCHANGED copies
  PROVE  /\ queue' \in Seq(Copies) /\ Len(queue') <= QueueLimit
         /\ InOrder'
         /\ Head(queue) \in Copies /\ 1 \in DOMAIN queue /\ Head(queue) = queue[1]
         /\ \A i \in DOMAIN queue' : i + 1 \in DOMAIN queue /\ queue'[i] = queue[i + 1]
         /\ \A i \in DOMAIN queue' : Head(queue).copy < queue'[i].copy
  <1> USE CommandConstants DEF TypeOK
  <1>1. queue' \in Seq(Copies) /\ Len(queue') = Len(queue) - 1 /\ Len(queue) \in Nat
    OBVIOUS
  <1>2. Head(queue) \in Copies /\ 1 \in DOMAIN queue /\ Head(queue) = queue[1]
    OBVIOUS
  <1>3. \A i \in DOMAIN queue' : i \in Nat /\ i + 1 \in DOMAIN queue /\ queue'[i] = queue[i + 1] /\ 1 < i + 1
    BY <1>1
  <1>4. InOrder'
    <2>1. \A i \in DOMAIN queue' : queue'[i].copy <= copies'
      BY <1>3 DEF InOrder
    <2>2. ASSUME NEW i \in DOMAIN queue', NEW j \in DOMAIN queue', i < j
          PROVE  queue'[i].copy < queue'[j].copy
      <3>1. i + 1 < j + 1
        BY <1>3, <2>2
      <3> QED
        BY <3>1, <1>3 DEF InOrder
    <2> QED
      BY <2>1, <2>2 DEF InOrder
  <1>5. \A i \in DOMAIN queue' : Head(queue).copy < queue'[i].copy
    BY <1>2, <1>3 DEF InOrder
  <1>6. Len(queue') <= QueueLimit
    BY <1>1 DEF Room, Bounded
  <1> QED
    BY <1>1, <1>2, <1>3, <1>4, <1>5, <1>6

-----------------------------------------------------------------------------
\* A new copy has a number of its own, greater than any.
LEMMA ArrivesInvariant ==
  ASSUME IInv, NEW m \in Messages, NEW dup \in BOOLEAN, Arrives(m, dup),
         kind' \in [Messages -> {"none", "set", "scalar", "bad"}]
  PROVE  IInv'
  <1> USE CommandConstants DEF IInv, Arrives
  <1> DEFINE c == Copy(m, copies + 1, dup)
  <1>1. copies \in Nat /\ copies' = copies + 1 /\ copies' \in 1 .. MaxCopies
    BY DEF TypeOK
  <1>2. c \in Copies /\ c.copy = copies + 1
    BY <1>1 DEF Copies, Copy
  <1>3. queue \in Seq(Copies) /\ Len(queue) \in Nat /\ Len(queue) <= QueueLimit
    BY DEF TypeOK, Room, Bounded
  <1>4. \A i \in DOMAIN queue : queue[i] \in Copies /\ queue[i].copy \in Nat /\ i \in Nat /\ i <= Len(queue)
    <2>1. \A i \in DOMAIN queue : queue[i] \in Copies /\ i \in Nat /\ i <= Len(queue)
      BY <1>3
    <2>2. \A d \in Copies : d.copy \in Nat
      BY DEF Copies
    <2> QED
      BY <2>1, <2>2
  <1>5. TypeOK' /\ Room' /\ InOrder'
    <2>1. CASE Len(queue) < QueueLimit
      <3> HIDE DEF c
      <3>1. queue' = Append(queue, c)
        BY <2>1 DEF c
      <3>2. queue' \in Seq(Copies) /\ Len(queue') = Len(queue) + 1 /\ DOMAIN queue' = 1 .. Len(queue) + 1
        BY <3>1, <1>2, <1>3
      <3>3. Len(queue') <= QueueLimit
        BY <3>2, <1>3, <2>1
      <3>4. \A i \in DOMAIN queue' :
              \/ i \in DOMAIN queue /\ queue'[i] = queue[i]
              \/ i = Len(queue) + 1 /\ queue'[i] = c
        BY <3>1, <3>2, <1>3
      <3>5. InOrder'
        <4>1. \A i \in DOMAIN queue' : queue'[i].copy <= copies'
          BY <3>4, <1>1, <1>2, <1>4 DEF InOrder
        <4>2. ASSUME NEW i \in DOMAIN queue', NEW j \in DOMAIN queue', i < j
              PROVE  queue'[i].copy < queue'[j].copy
          <5>1. i \in DOMAIN queue /\ queue'[i] = queue[i]
            BY <4>2, <3>2, <3>4, <1>3
          <5>2. CASE j \in DOMAIN queue /\ queue'[j] = queue[j]
            BY <5>1, <5>2, <4>2 DEF InOrder
          <5>3. CASE j = Len(queue) + 1 /\ queue'[j] = c
            BY <5>1, <5>3, <1>1, <1>2, <1>4 DEF InOrder
          <5> QED
            BY <5>2, <5>3, <3>4
        <4> QED
          BY <4>1, <4>2 DEF InOrder
      <3>6. TypeOK' /\ Room'
        BY <3>2, <3>3, <1>1 DEF TypeOK, Room, Bounded, At, ids, answers
      <3> QED
        BY <3>5, <3>6
    <2>2. CASE ~(Len(queue) < QueueLimit)
      BY <2>2, <1>1, <1>4 DEF TypeOK, Room, Bounded, At, InOrder, ids, answers
    <2> QED
      BY <2>1, <2>2
  <1>6. Older'
    <2>1. \A i \in DOMAIN queue' :
            \/ i \in DOMAIN queue /\ queue'[i] = queue[i]
            \/ queue'[i].copy = copies + 1
      <3> HIDE DEF c
      <3>1. queue' \in {queue, Append(queue, c)}
        BY DEF c
      <3> QED
        BY <3>1, <1>2, <1>3
    <2>2. \A e \in submitted : e.at \in Nat /\ e.id \in Nat
      BY DEF TypeOK, Uses
    <2> QED
      BY <2>1, <2>2, <1>1 DEF Older, ids
  <1>7. InFlight' /\ Remembered' /\ IdsAreNotShared'
    BY DEF InFlight, At, Remembered, IdsAreNotShared, ids, answers
  <1> QED
    BY <1>5, <1>6, <1>7

\* The id of a copy is its duplicate's, or its own number, which is new.
LEMMA TakeInvariant == IInv /\ Take => IInv'
  <1> SUFFICES ASSUME IInv, Take PROVE IInv'
    OBVIOUS
  <1> USE CommandConstants
  <1> DEFINE c == Head(queue)
  <1>1. queue # <<>> /\ queue' = Tail(queue) /\ UNCHANGED copies
    BY DEF Take, More, broker
  <1>2. /\ queue' \in Seq(Copies) /\ Len(queue') <= QueueLimit /\ InOrder'
        /\ c \in Copies /\ 1 \in DOMAIN queue /\ c = queue[1]
        /\ \A i \in DOMAIN queue' : i + 1 \in DOMAIN queue /\ queue'[i] = queue[i + 1]
        /\ \A i \in DOMAIN queue' : c.copy < queue'[i].copy
    BY <1>1, TailKeeps DEF IInv
  <1>3. /\ worker' = [worker EXCEPT !.pc = "handle", !.taken = @ + 1, !.item = c]
        /\ UNCHANGED <<link, gen, kind, results, flight, answered, stopper, faults>>
        /\ IF kind[c.msg] = "scalar" THEN Identify(c) ELSE UNCHANGED <<memory, submitted>>
    BY DEF Take, broker, ids, answers
  <1> HIDE DEF c
  <1>4. c.copy \in 1 .. MaxCopies /\ c.copy \in Nat /\ c.msg \in Messages /\ c.copy <= copies
    BY <1>2 DEF Copies, IInv, InOrder
  <1>5. worker' \in Workers /\ (At("handle")' => worker'.item \in Copies)
    <2>1. worker \in Workers /\ c \in Copies
      BY <1>2 DEF IInv, TypeOK
    <2>2. worker' = [worker EXCEPT !.pc = "handle", !.taken = @ + 1, !.item = c]
      BY <1>3
    <2>4. c \in Items
      BY <2>1 DEF Items
    <2>3. worker' \in Workers /\ worker'.item = c
      <3>1. worker.taken \in Nat /\ worker.taken + 1 \in Nat /\ worker.gen \in Nat
        BY <2>1 DEF Workers
      <3>2. worker' = [pc |-> "handle", taken |-> worker.taken + 1, item |-> c, gen |-> worker.gen]
        BY <2>1, <2>2 DEF Workers
      <3>3. worker' \in Workers
        BY <3>1, <3>2, <2>4 DEF Workers
      <3> QED
        BY <3>2, <3>3
    <2> QED
      BY <2>1, <2>3
  <1>6. \A e \in submitted : e.at \in Nat /\ e.id \in Nat /\ e.id <= e.at /\ e.at < c.copy
    BY <1>2 DEF IInv, TypeOK, Uses, Older
  <1>0. InFlight' /\ Room'
    <2>1. At("take") /\ ~At("wait")' /\ Len(results) < ResultLimit
      BY <1>3 DEF Take, More, At, IInv, TypeOK, Workers
    <2> QED
      BY <2>1, <1>2, <1>3 DEF IInv, InFlight, Room, Bounded, At
  <1>7. CASE UNCHANGED <<memory, submitted>>
    <2>1. TypeOK'
      BY <1>2, <1>1, <1>3, <1>5, <1>7 DEF IInv, TypeOK
    <2>2. Older'
      BY <1>1, <1>2, <1>7 DEF IInv, Older
    <2>3. Remembered' /\ IdsAreNotShared'
      BY <1>7 DEF IInv, Remembered, IdsAreNotShared
    <2> QED
      BY <2>1, <2>2, <2>3, <1>0, <1>2 DEF IInv
  <1>8. ASSUME NEW u, u.msg = c.msg, u.at = c.copy, u \in Uses,
               submitted' = submitted \cup {u}, memory' \subseteq Uses,
               u.id <= c.copy, Remembered',
               \A e \in submitted : e.id = u.id => e.msg = c.msg
        PROVE  IInv'
    <2>1. TypeOK'
      BY <1>2, <1>1, <1>3, <1>5, <1>8 DEF IInv, TypeOK
    <2>2. Older'
      <3>1. \A e \in submitted' : e.id <= e.at
        BY <1>6, <1>8
      <3>2. \A e \in submitted', i \in DOMAIN queue' : e.at < queue'[i].copy
        <4>1. \A i \in DOMAIN queue' : queue'[i].copy \in Nat
          <5>1. \A d \in Copies : d.copy \in Nat
            BY DEF Copies
          <5>2. \A i \in DOMAIN queue' : queue'[i] \in Copies
            BY <1>2
          <5> QED
            BY <5>1, <5>2
        <4> QED
          BY <4>1, <1>2, <1>4, <1>6, <1>8
      <3>3. \A e \in submitted' : e.at <= copies'
        BY <1>1, <1>4, <1>8 DEF IInv, Older
      <3> QED
        BY <3>1, <3>2, <3>3 DEF Older
    <2>3. IdsAreNotShared'
      BY <1>8 DEF IInv, IdsAreNotShared
    <2> QED
      BY <2>1, <2>2, <2>3, <1>0, <1>2, <1>8 DEF IInv
  <1>9. ASSUME Identify(c) PROVE IInv'
    <2>1. CASE Known(c) # {}
      <3>1. PICK e \in Known(c) :
              /\ submitted' = submitted \cup {[msg |-> c.msg, id |-> e.id, at |-> c.copy]}
              /\ UNCHANGED memory
        BY <1>9, <2>1 DEF Identify
      <3>2. e \in memory /\ e.msg = c.msg /\ e.id \in 1 .. MaxCopies
        BY <3>1 DEF Known, IInv, TypeOK, Uses
      <3>3. PICK f \in submitted : f.msg = c.msg /\ f.id = e.id
        BY <3>2 DEF IInv, Remembered
      <3> DEFINE u == [msg |-> c.msg, id |-> e.id, at |-> c.copy]
      <3>4. u \in Uses /\ u.msg = c.msg /\ u.at = c.copy /\ u.id = e.id
        BY <3>2, <1>4 DEF Uses
      <3>5. submitted' = submitted \cup {u}
        BY <3>1
      <3> HIDE DEF u
      <3>6. u.id <= c.copy
        BY <3>3, <3>4, <1>6, <1>4
      <3>7. Remembered'
        BY <3>1, <3>5 DEF IInv, Remembered
      <3>8. \A g \in submitted : g.id = u.id => g.msg = c.msg
        BY <3>3, <3>4 DEF IInv, IdsAreNotShared
      <3>9. memory' \subseteq Uses
        BY <3>1 DEF IInv, TypeOK
      <3> QED
        BY <3>4, <3>5, <3>6, <3>7, <3>8, <3>9, <1>8
    <2>2. CASE Known(c) = {}
      <3> DEFINE u == [msg |-> c.msg, id |-> c.copy, at |-> c.copy]
      <3>1. submitted' = submitted \cup {u} /\ memory' = Remember(c)
        BY <1>9, <2>2 DEF Identify
      <3>2. u \in Uses /\ u.msg = c.msg /\ u.at = c.copy /\ u.id = c.copy
        BY <1>4 DEF Uses
      <3>3. memory' \subseteq memory \cup {u}
        BY <3>1 DEF Remember
      <3> HIDE DEF u
      <3>4. memory' \subseteq Uses
        BY <3>2, <3>3 DEF IInv, TypeOK
      <3>5. Remembered'
        BY <3>1, <3>3 DEF IInv, Remembered
      <3>6. \A g \in submitted : g.id # u.id
        BY <3>2, <1>4, <1>6
      <3>7. u.id <= c.copy
        BY <3>2, <1>4
      <3> QED
        BY <3>1, <3>2, <3>4, <3>5, <3>6, <3>7, <1>8
    <2> QED
      BY <2>1, <2>2
  <1> QED
    BY <1>3, <1>7, <1>9

\* A rejected copy leaves no id behind.
LEMMA RejectInvariant == IInv /\ Reject => IInv'
  <1> SUFFICES ASSUME IInv, Reject PROVE IInv'
    OBVIOUS
  <1> USE CommandConstants
  <1>1. queue # <<>> /\ queue' = Tail(queue) /\ UNCHANGED copies
    BY DEF Reject, More, broker
  <1>2. /\ queue' \in Seq(Copies) /\ Len(queue') <= QueueLimit /\ InOrder'
        /\ Head(queue) \in Copies
        /\ \A i \in DOMAIN queue' : i + 1 \in DOMAIN queue /\ queue'[i] = queue[i + 1]
    BY <1>1, TailKeeps DEF IInv
  <1>3. results' \in Seq(Messages)
    <2>1. Head(queue).msg \in Messages
      BY <1>2 DEF Copies
    <2> QED
      BY <2>1 DEF Reject, IInv, TypeOK
  <1>4. worker' \in Workers /\ (At("handle")' => worker'.item \in Copies)
    <2>1. worker \in Workers /\ worker.pc = "take" /\ worker' = [worker EXCEPT !.taken = @ + 1]
      BY DEF IInv, TypeOK, Reject, At
    <2>2. worker' \in Workers /\ worker'.pc = "take"
      BY <2>1 DEF Workers
    <2> QED
      BY <2>2 DEF At
  <1>6. TypeOK'
    BY <1>1, <1>2, <1>3, <1>4 DEF IInv, TypeOK, Reject, broker, ids
  <1>7. InFlight' /\ Room'
    <2>1. results \in Seq(Messages) /\ Len(results) < ResultLimit /\ Len(results') = Len(results) + 1
      BY DEF Reject, More, IInv, TypeOK
    <2>2. worker.pc = "take" /\ worker'.pc = "take"
      BY DEF Reject, At, IInv, TypeOK, Workers
    <2> QED
      BY <2>1, <2>2, <1>2 DEF IInv, InFlight, Room, Bounded, Reject, At
  <1>5. Older' /\ Remembered' /\ IdsAreNotShared'
    BY <1>1, <1>2 DEF Reject, ids, IInv, Older, Remembered, IdsAreNotShared
  <1> QED
    BY <1>2, <1>5, <1>6, <1>7 DEF IInv

\* Every step of the adapter, the broker and stop() keeps the invariant.
LEMMA StepInvariant == IInv /\ [Next]_vars => IInv'
  <1> SUFFICES ASSUME IInv, [Next]_vars PROVE IInv'
    OBVIOUS
  <1> USE CommandConstants
  <1>1. CASE Connect
    <2>1. TypeOK' /\ InFlight' /\ Room'
      BY <1>1 DEF Connect, IInv, TypeOK, InFlight, Room, Bounded, At, broker, ids, answers
    <2> QED
      BY <2>1, <1>1, Elsewhere DEF Connect, broker
  <1>2. CASE Disconnect \/ StopBegins \/ StopEnds
    <2>1. TypeOK' /\ InFlight' /\ Room'
      BY <1>2 DEF Disconnect, StopBegins, StopEnds, Fault, IInv, TypeOK, InFlight, Room, Bounded, At, broker, ids, answers
    <2> QED
      BY <2>1, <1>2, Elsewhere DEF Disconnect, StopBegins, StopEnds, broker, ids
  <1>3. CASE \E m \in Messages : First(m) \/ Again(m)
    <2>1. PICK m \in Messages : First(m) \/ Again(m)
      BY <1>3
    <2>2. CASE First(m)
      <3>1. PICK k \in {"set", "scalar", "bad"} : kind' = [kind EXCEPT ![m] = k] /\ Arrives(m, FALSE)
        BY <2>2 DEF First
      <3>2. kind' \in [Messages -> {"none", "set", "scalar", "bad"}]
        BY <3>1 DEF IInv, TypeOK
      <3> QED
        BY <3>1, <3>2, ArrivesInvariant
    <2>3. CASE Again(m)
      <3>1. kind' \in [Messages -> {"none", "set", "scalar", "bad"}]
        BY <2>3 DEF Again, IInv, TypeOK
      <3> QED
        BY <2>3, <3>1, ArrivesInvariant DEF Again
    <2> QED
      BY <2>1, <2>2, <2>3
  <1>4. CASE Reaches
    <2>1. results # <<>> /\ results \in Seq(Messages)
      BY <1>4 DEF Reaches, IInv, TypeOK, InFlight
    <2>2. Head(results) \in Messages
      BY <2>1
    <2>3. TypeOK' /\ InFlight' /\ Room'
      BY <2>2, <1>4 DEF Reaches, IInv, TypeOK, InFlight, Room, Bounded, At, broker, ids
    <2> QED
      BY <2>3, <1>4, Elsewhere DEF Reaches, broker, ids
  <1>11. CASE PubAck
    <2>1. TypeOK' /\ InFlight' /\ Room'
      BY <1>11 DEF PubAck, IInv, TypeOK, InFlight, Room, Bounded, At, broker, ids
    <2> QED
      BY <2>1, <1>11, Elsewhere DEF PubAck, broker, ids
  <1>5. CASE Take
    BY <1>5, TakeInvariant
  <1>6. CASE Reject
    BY <1>6, RejectInvariant
  <1>7. CASE Top \/ Enough
    <2>1. worker' \in Workers /\ worker'.pc \in {"take", "end", "publish", "top"} /\ ~At("wait")
      <3>1. worker \in Workers /\ gen \in Nat
        BY DEF IInv, TypeOK
      <3>3. CASE Top
        <4>1. worker.pc = "top" /\ worker' = [worker EXCEPT !.pc = IF stopper = "run" THEN "take" ELSE "end", !.taken = 0]
          BY <3>3 DEF Top, At
        <4> QED
          BY <3>1, <4>1 DEF Workers, At
      <3>4. CASE Enough
        <4>1. worker.pc = "take" /\ worker' = [worker EXCEPT !.pc = IF link = "up" THEN "publish" ELSE "top", !.gen = gen]
          BY <3>4 DEF Enough, At
        <4> QED
          BY <3>1, <4>1 DEF Workers, At
      <3> QED
        BY <1>7, <3>3, <3>4
    <2>2. TypeOK' /\ InFlight' /\ Room'
      BY <2>1, <1>7 DEF Top, Enough, At, IInv, TypeOK, InFlight, Room, Bounded, broker, ids, answers
    <2> QED
      BY <2>2, <1>7, Elsewhere DEF Top, Enough, broker, ids
  <1>8. CASE Publish
    <2>1. worker' \in Workers /\ worker'.pc \in {"wait", "top"} /\ (worker'.pc = "wait" <=> flight' = "sent")
      <3>1. flight = "none" /\ worker \in Workers
        BY <1>8 DEF Publish, At, IInv, TypeOK, InFlight
      <3> QED
        BY <3>1, <1>8 DEF Publish, Goto, Workers
    <2>2. TypeOK' /\ InFlight' /\ Room'
      BY <2>1, <1>8 DEF Publish, At, Goto, IInv, TypeOK, InFlight, Room, Bounded, broker, ids
    <2> QED
      BY <2>2, <1>8, Elsewhere DEF Publish, broker, ids
  <1>12. CASE Published \/ NotPublished
    <2>1. results' \in Seq(Messages) /\ Len(results') <= Len(results) /\ Len(results) \in Nat /\ Len(results') \in Nat
      <3>1. results \in Seq(Messages) /\ results # <<>>
        BY <1>12 DEF Published, NotPublished, IInv, TypeOK, InFlight
      <3> QED
        BY <3>1, <1>12 DEF Published, NotPublished
    <2>2. worker' \in Workers /\ worker'.pc \in {"publish", "top"}
      <3>1. worker \in Workers
        BY DEF IInv, TypeOK
      <3>2. \/ worker' = [worker EXCEPT !.pc = "publish"]
            \/ worker' = [worker EXCEPT !.pc = "top"]
        BY <1>12 DEF Published, NotPublished, Goto
      <3> QED
        BY <3>1, <3>2 DEF Workers
    <2>3. TypeOK' /\ InFlight' /\ Room'
      BY <2>1, <2>2, <1>12 DEF Published, NotPublished, Fault, At, IInv, TypeOK, InFlight, Room, Bounded, broker, ids
    <2> QED
      BY <2>3, <1>12, Elsewhere DEF Published, NotPublished, broker, ids
  <1>9. CASE Completed
    <2>0. NoCopy \in Items
      BY DEF Items
    <2>1. worker.item.msg \in Messages /\ results \in Seq(Messages)
      BY <1>9 DEF Completed, IInv, TypeOK, Copies
    <2>2. results' \in Seq(Messages) /\ Len(results') = Len(results) + 1 /\ Len(results) \in Nat
      BY <2>1, <1>9 DEF Completed
    <2>3. worker' \in Workers /\ worker'.pc = "take" /\ ~At("wait")
      BY <2>0, <1>9 DEF Completed, At, IInv, TypeOK, Workers
    <2>4. TypeOK' /\ InFlight' /\ Room'
      BY <2>2, <2>3, <1>9 DEF Completed, At, IInv, TypeOK, InFlight, Room, Bounded, broker, ids
    <2> QED
      BY <2>4, <1>9, Elsewhere DEF Completed, broker, ids
  <1>10. CASE UNCHANGED vars
    <2>1. TypeOK' /\ InFlight' /\ Room'
      BY <1>10 DEF vars, IInv, TypeOK, InFlight, Room, Bounded, At, broker, ids, answers
    <2> QED
      BY <2>1, <1>10, Elsewhere DEF vars, broker, ids
  <1> QED
    BY <1>1, <1>2, <1>3, <1>4, <1>5, <1>6, <1>7, <1>8, <1>9, <1>10, <1>11, <1>12 DEF Next, Worker

\* The strengthening that every step preserves.
THEOREM CommandsInvariant == SafetySpec => []IInv
  <1>1. SafetySpec => []IInv
    BY InitInvariant, StepInvariant, PTL DEF SafetySpec
  <1> QED
    BY <1>1

\* Commands and results stay within their limits (mqtt.py:157, 437).
THEOREM LimitsHold == SafetySpec => []Bounded
  <1>1. IInv => Bounded
    BY DEF IInv, Room
  <1> QED
    BY <1>1, CommandsInvariant, PTL

\* No two messages go to the controller under one id (mqtt.py:405-411).
THEOREM IdsStayApart == SafetySpec => []IdsAreNotShared
  <1>1. IInv => IdsAreNotShared
    BY DEF IInv
  <1> QED
    BY <1>1, CommandsInvariant, PTL

-----------------------------------------------------------------------------
(* A message keeps its id as long as _packet_ids has room for it.          *)

\* A copy that is no duplicate is the first of its message, and messages come
\* on connections there have been.
Firsts ==
  /\ \A i \in DOMAIN queue : kind[queue[i].msg] # "none" /\ queue[i].msg[1] <= gen
  /\ \A e \in submitted : kind[e.msg] # "none" /\ e.msg[1] <= gen
  /\ \A i \in DOMAIN queue : ~queue[i].dup =>
       /\ \A e \in submitted : e.msg # queue[i].msg
       /\ \A j \in DOMAIN queue : j < i => queue[j].msg # queue[i].msg

\* _packet_ids has one entry for a message: that of the copy it was made for.
OneEntry ==
  /\ memory \subseteq submitted
  /\ \A g \in memory : g.id = g.at
  /\ \A g, h \in memory : g.msg = h.msg => g = h

\* The other messages submitted in uses since copy n had its turn.
Others(uses, n, m) == {h.msg : h \in {u \in uses : n < u.at}} \ {m}

\* An id of this connection is remembered, or enough others came after it.
KeptOrCrowdedOut ==
  \A e \in submitted : e.msg[1] = gen =>
    \/ \E g \in memory : g.msg = e.msg /\ g.id = e.id
    \/ Cardinality(Others(submitted, e.id, e.msg)) >= IdLimit

Recognised == IInv /\ Firsts /\ OneEntry /\ KeptOrCrowdedOut /\ OneIdEach

LEMMA QueuedMessages ==
  ASSUME TypeOK PROVE \A i \in DOMAIN queue : queue[i].msg \in Messages
  <1>1. \A i \in DOMAIN queue : queue[i] \in Copies
    BY DEF TypeOK
  <1> QED
    BY <1>1 DEF Copies

LEMMA MessagesFinite == IsFiniteSet(Messages)
  <1>1. MaxFaults + 1 \in Int /\ MaxMid \in Int
    BY CommandConstants
  <1>2. IsFiniteSet(1 .. MaxFaults + 1) /\ IsFiniteSet(1 .. MaxMid)
    BY <1>1, FS_Interval
  <1> QED
    BY <1>2, FS_Product DEF Messages

LEMMA UsesFinite == ASSUME NEW uses \in SUBSET Uses PROVE IsFiniteSet(uses)
  <1> DEFINE P == (Messages \X (1 .. MaxCopies)) \X (1 .. MaxCopies)
             F == [u \in Uses |-> <<<<u.msg, u.id>>, u.at>>]
  <1>1. IsFiniteSet(P)
    <2>1. IsFiniteSet(1 .. MaxCopies)
      BY CommandConstants, FS_Interval
    <2> QED
      BY <2>1, MessagesFinite, FS_Product
  <1>2. F \in Injection(Uses, P)
    <2>1. F \in [Uses -> P]
      BY DEF Uses
    <2>2. IsInjective(F)
      BY DEF IsInjective, Uses
    <2> QED
      BY <2>1, <2>2 DEF Injection
  <1>3. IsFiniteSet(Uses)
    <2> HIDE DEF P, F
    <2> QED
      BY <1>1, <1>2, FS_Injection
  <1> QED
    BY <1>3, FS_Subset

\* More messages are at least as many.
LEMMA Grows ==
  ASSUME NEW S \in SUBSET Messages, NEW T \in SUBSET S, Cardinality(T) >= IdLimit
  PROVE  Cardinality(S) >= IdLimit
  <1>1. IsFiniteSet(S)
    BY MessagesFinite, FS_Subset
  <1>2. Cardinality(S) \in Nat /\ Cardinality(T) \in Nat /\ Cardinality(T) <= Cardinality(S)
    BY <1>1, FS_Subset, FS_CardinalityType
  <1> QED
    BY <1>2, CommandConstants

LEMMA OthersAreMessages ==
  ASSUME NEW uses \in SUBSET Uses, NEW n, NEW m
  PROVE  Others(uses, n, m) \subseteq Messages
  BY DEF Others, Uses

LEMMA OthersGrow ==
  ASSUME NEW uses \in SUBSET Uses, NEW fewer \in SUBSET uses, NEW n, NEW m,
         Cardinality(Others(fewer, n, m)) >= IdLimit
  PROVE  Cardinality(Others(uses, n, m)) >= IdLimit
  <1>1. Others(fewer, n, m) \subseteq Others(uses, n, m)
    BY DEF Others
  <1> QED
    BY <1>1, OthersAreMessages, Grows

\* What had to go from _packet_ids made room for enough others, all newer.
LEMMA OldestGoes ==
  ASSUME NEW uses \in SUBSET Uses, NEW all \in SUBSET uses, IsFiniteSet(all),
         \A g \in all : g.id = g.at,
         \A g, h \in all : g.msg = h.msg \/ g.at = h.at => g = h,
         Cardinality(all) > IdLimit,
         NEW o \in all, \A g \in all : ~(g.at < o.at)
  PROVE  Cardinality(Others(uses, o.id, o.msg)) >= IdLimit
  <1> DEFINE rest == all \ {o}
             T == Others(uses, o.id, o.msg)
             F == [g \in rest |-> g.msg]
  <1>1. IsFiniteSet(rest) /\ Cardinality(rest) = Cardinality(all) - 1
    BY FS_RemoveElement
  <1>2. Cardinality(all) \in Nat /\ IdLimit \in Nat
    BY FS_CardinalityType, CommandConstants
  <1>3. ASSUME NEW g \in rest PROVE g.msg \in T
    <2>1. g \in uses /\ g.at \in Nat /\ o.at \in Nat /\ g # o
      BY DEF Uses
    <2>2. g.at # o.at /\ ~(g.at < o.at) /\ g.msg # o.msg /\ o.id = o.at
      BY <2>1
    <2>3. o.id < g.at
      BY <2>1, <2>2
    <2> QED
      BY <2>1, <2>2, <2>3 DEF Others
  <1>4. IsFiniteSet(T)
    BY OthersAreMessages, MessagesFinite, FS_Subset
  <1>5. F \in Injection(rest, T)
    <2>1. F \in [rest -> T]
      BY <1>3
    <2>2. IsInjective(F)
      BY DEF IsInjective
    <2> QED
      BY <2>1, <2>2 DEF Injection
  <1>6. Cardinality(rest) <= Cardinality(T) /\ Cardinality(T) \in Nat
    <2> HIDE DEF rest, T, F
    <2> QED
      BY <1>4, <1>5, FS_Injection, FS_CardinalityType
  <1>7. Cardinality(T) >= IdLimit
    <2> HIDE DEF rest, T
    <2> QED
      BY <1>1, <1>2, <1>6
  <1> QED
    BY <1>7

\* What a step leaves of the ids when it touches neither them nor the queue.
LEMMA NothingTaken ==
  ASSUME Recognised, UNCHANGED <<gen, memory, submitted>>
  PROVE  OneEntry' /\ KeptOrCrowdedOut' /\ OneIdEach'
  BY DEF Recognised, OneEntry, KeptOrCrowdedOut, OneIdEach, Between

\* With a connection the ids begin anew, and no message of it has come.
LEMMA ConnectRecognises ==
  ASSUME Recognised, Connect PROVE Firsts' /\ OneEntry' /\ KeptOrCrowdedOut' /\ OneIdEach'
  <1>1. /\ gen' = gen + 1 /\ gen \in Nat /\ memory' = {}
        /\ UNCHANGED <<kind, queue, submitted>>
    BY DEF Connect, broker, Recognised, IInv, TypeOK
  <1>2. /\ \A i \in DOMAIN queue : queue[i].msg[1] \in Nat /\ queue[i].msg[1] <= gen
        /\ \A e \in submitted : e.msg[1] \in Nat /\ e.msg[1] <= gen
    <2>1. \A m \in Messages : m[1] \in Nat
      BY DEF Messages
    <2>2. \A i \in DOMAIN queue : queue[i].msg \in Messages
      BY QueuedMessages DEF Recognised, IInv
    <2>3. \A e \in submitted : e.msg \in Messages
      BY DEF Recognised, IInv, TypeOK, Uses
    <2> QED
      BY <2>1, <2>2, <2>3 DEF Recognised, Firsts
  <1>3. /\ \A i \in DOMAIN queue : queue[i].msg[1] <= gen + 1
        /\ \A e \in submitted : e.msg[1] <= gen + 1 /\ e.msg[1] # gen + 1
    BY <1>1, <1>2
  <1>4. Firsts'
    BY <1>1, <1>3 DEF Recognised, Firsts
  <1>5. OneEntry'
    BY <1>1 DEF OneEntry
  <1>6. KeptOrCrowdedOut' /\ OneIdEach'
    BY <1>1, <1>3 DEF KeptOrCrowdedOut, OneIdEach
  <1> QED
    BY <1>4, <1>5, <1>6

LEMMA ArrivesRecognises ==
  ASSUME Recognised, NEW m \in Messages, NEW dup \in BOOLEAN, Arrives(m, dup),
         kind' \in [Messages -> {"none", "set", "scalar", "bad"}], kind'[m] # "none",
         \A n \in Messages : n # m => kind'[n] = kind[n],
         dup = FALSE => kind[m] = "none"
  PROVE  Firsts'
  <1> DEFINE c == Copy(m, copies + 1, dup)
  <1>1. queue \in Seq(Copies) /\ c \in Copies /\ c.msg = m /\ c.dup = dup
    <2>1. copies + 1 \in 1 .. MaxCopies
      BY CommandConstants DEF Arrives, Recognised, IInv, TypeOK
    <2> QED
      BY <2>1 DEF Recognised, IInv, TypeOK, Copies, Copy
  <1>2. /\ queue' \in {queue, Append(queue, c)} /\ m[1] = gen /\ gen' = gen
        /\ submitted' = submitted
    BY DEF Arrives, ids
  <1> HIDE DEF c
  <1>3. \A i \in DOMAIN queue' :
          /\ i \in Nat /\ i <= Len(queue) + 1 /\ Len(queue) \in Nat
          /\ \/ i \in DOMAIN queue /\ i <= Len(queue) /\ queue'[i] = queue[i]
             \/ i = Len(queue) + 1 /\ queue'[i] = c
    BY <1>1, <1>2
  <1>4. \A i \in DOMAIN queue : queue[i].msg \in Messages
    BY QueuedMessages DEF Recognised, IInv
  <1>5. \A e \in submitted : e.msg \in Messages
    BY DEF Recognised, IInv, TypeOK, Uses
  <1>6. \A i \in DOMAIN queue' : kind'[queue'[i].msg] # "none" /\ queue'[i].msg[1] <= gen'
    <2>1. gen <= gen
      BY DEF Recognised, IInv, TypeOK
    <2> QED
      BY <1>1, <1>2, <1>3, <1>4, <2>1 DEF Recognised, Firsts
  <1>7. \A e \in submitted' : kind'[e.msg] # "none" /\ e.msg[1] <= gen'
    BY <1>2, <1>5 DEF Recognised, Firsts
  <1>8. ASSUME NEW i \in DOMAIN queue', ~queue'[i].dup
        PROVE  /\ \A e \in submitted' : e.msg # queue'[i].msg
               /\ \A j \in DOMAIN queue' : j < i => queue'[j].msg # queue'[i].msg
    <2>1. CASE i \in DOMAIN queue /\ i <= Len(queue) /\ queue'[i] = queue[i]
      <3>1. \A j \in DOMAIN queue' : j < i => j \in DOMAIN queue /\ queue'[j] = queue[j]
        <4>1. TAKE j \in DOMAIN queue'
        <4>2. HAVE j < i
        <4>3. j # Len(queue) + 1
          BY <1>3, <2>1, <4>2
        <4> QED
          BY <1>3, <4>3
      <3> QED
        BY <1>2, <1>8, <2>1, <3>1 DEF Recognised, Firsts
    <2>2. CASE i = Len(queue) + 1 /\ queue'[i] = c
      <3>1. dup = FALSE /\ kind[m] = "none" /\ queue'[i].msg = m
        BY <1>1, <1>8, <2>2
      <3>2. \A j \in DOMAIN queue' : j < i => j \in DOMAIN queue /\ queue'[j] = queue[j]
        <4>1. TAKE j \in DOMAIN queue'
        <4>2. HAVE j < i
        <4>3. j # Len(queue) + 1
          BY <1>3, <2>2, <4>2
        <4> QED
          BY <1>3, <4>3
      <3> QED
        BY <1>2, <3>1, <3>2 DEF Recognised, Firsts
    <2> QED
      BY <1>3, <2>1, <2>2
  <1> QED
    BY <1>6, <1>7, <1>8 DEF Firsts

\* The copies behind the one that is taken stay the first of their messages.
LEMMA TakenRecognises ==
  ASSUME Recognised, queue # <<>>, queue' = Tail(queue), UNCHANGED <<copies, kind, gen>>,
         \A e \in submitted' : e \in submitted \/ e.msg = Head(queue).msg
  PROVE  Firsts'
  <1> DEFINE c == Head(queue)
  <1>1. /\ c \in Copies /\ 1 \in DOMAIN queue /\ c = queue[1]
        /\ \A i \in DOMAIN queue' : i + 1 \in DOMAIN queue /\ queue'[i] = queue[i + 1]
    BY TailKeeps DEF Recognised, IInv
  <1>2. \A i \in DOMAIN queue' : i \in Nat /\ 1 < i + 1
    BY DEF Recognised, IInv, TypeOK
  <1>3. kind[c.msg] # "none" /\ c.msg[1] <= gen
    BY <1>1 DEF Recognised, Firsts
  <1> HIDE DEF c
  <1>4. \A e \in submitted' : kind'[e.msg] # "none" /\ e.msg[1] <= gen'
    BY <1>3 DEF c, Recognised, Firsts
  <1>5. \A i \in DOMAIN queue' : kind'[queue'[i].msg] # "none" /\ queue'[i].msg[1] <= gen'
    BY <1>1 DEF Recognised, Firsts
  <1>6. ASSUME NEW i \in DOMAIN queue', ~queue'[i].dup
        PROVE  /\ \A e \in submitted' : e.msg # queue'[i].msg
               /\ \A j \in DOMAIN queue' : j < i => queue'[j].msg # queue'[i].msg
    <2>1. /\ i + 1 \in DOMAIN queue /\ queue'[i] = queue[i + 1] /\ ~queue[i + 1].dup
          /\ 1 < i + 1
      BY <1>1, <1>2, <1>6
    <2>2. /\ \A e \in submitted : e.msg # queue[i + 1].msg
          /\ \A j \in DOMAIN queue : j < i + 1 => queue[j].msg # queue[i + 1].msg
      BY <2>1 DEF Recognised, Firsts
    <2>3. c.msg # queue[i + 1].msg
      BY <1>1, <2>1, <2>2
    <2>4. \A j \in DOMAIN queue' : j < i => j + 1 < i + 1
      BY <1>2
    <2> QED
      BY <1>1, <2>1, <2>2, <2>3, <2>4 DEF c
  <1> QED
    BY <1>4, <1>5, <1>6 DEF Firsts

\* Taking a scalar: it is answered under its message's id, or under a new one
\* when no copy of the message is remembered.
LEMMA TakeRecognises ==
  ASSUME Recognised, Take PROVE Firsts' /\ OneEntry' /\ KeptOrCrowdedOut' /\ OneIdEach'
  <1> DEFINE c == Head(queue)
  <1>0. /\ queue # <<>> /\ queue' = Tail(queue) /\ UNCHANGED <<copies, kind, gen>>
        /\ IF kind[c.msg] = "scalar" THEN Identify(c) ELSE UNCHANGED <<memory, submitted>>
    BY DEF Take, More, broker, ids
  <1>1. /\ c \in Copies /\ 1 \in DOMAIN queue /\ c = queue[1]
    BY <1>0, TailKeeps DEF Recognised, IInv
  <1> HIDE DEF c
  <1>2. submitted \in SUBSET Uses /\ memory \in SUBSET submitted /\ c.copy \in Nat
    BY <1>1 DEF Recognised, IInv, TypeOK, OneEntry, Copies
  <1>3. \A e \in submitted : e.at \in Nat /\ e.id \in Nat /\ e.at < c.copy /\ e.id < c.copy
    <2>1. \A e \in submitted : e.at \in Nat /\ e.id \in Nat /\ e.at < c.copy /\ e.id <= e.at
      BY <1>1, <1>2 DEF Recognised, IInv, Older, Uses
    <2> QED
      BY <1>2, <2>1
  <1>4. ~c.dup => \A e \in submitted : e.msg # c.msg
    BY <1>1 DEF Recognised, Firsts
  <1>5. IInv'
    BY TakeInvariant DEF Recognised
  <1>6. submitted' \in SUBSET Uses
    BY <1>5 DEF IInv, TypeOK
  <1>7. CASE UNCHANGED <<memory, submitted>>
    <2>1. Firsts'
      BY <1>0, <1>7, TakenRecognises
    <2> QED
      BY <1>0, <1>7, <2>1, NothingTaken
  <1>8. ASSUME NEW u, u \in Uses, u.msg = c.msg, u.at = c.copy,
               submitted' = submitted \cup {u},
               \A e \in submitted : e.msg = c.msg /\ e.id # u.id /\ e.msg[1] = gen =>
                 ~ \E g \in memory : g.msg = e.msg /\ g.id = e.id
        PROVE  Firsts' /\ OneIdEach'
    <2>1. Firsts'
      BY <1>0, <1>8, TakenRecognises DEF c
    <2>2. OneIdEach'
      <3>1. SUFFICES ASSUME NEW e \in submitted', NEW f \in submitted', e.msg = f.msg,
                            e.at < f.at, e.id # f.id, e.msg[1] = gen
                     PROVE  Cardinality(Between(e, f)') >= IdLimit
        BY <1>0 DEF OneIdEach
      <3>2. e \in submitted
        BY <1>2, <1>3, <1>8, <3>1
      <3>3. Between(e, f)' \subseteq Messages
        BY <1>6 DEF Between, Uses
      <3>4. CASE f \in submitted
        <4>1. Cardinality(Between(e, f)) >= IdLimit
          BY <3>1, <3>2, <3>4 DEF Recognised, OneIdEach
        <4>2. Between(e, f) \subseteq Between(e, f)'
          BY <1>8 DEF Between
        <4> QED
          BY <3>3, <4>1, <4>2, Grows
      <3>5. CASE f = u
        <4>1. Cardinality(Others(submitted, e.id, e.msg)) >= IdLimit
          BY <1>8, <3>1, <3>2, <3>5 DEF Recognised, KeptOrCrowdedOut
        <4>2. Others(submitted, e.id, e.msg) \subseteq Between(e, f)'
          BY <1>3, <1>8, <3>5 DEF Others, Between
        <4> QED
          BY <3>3, <4>1, <4>2, Grows
      <3> QED
        BY <1>8, <3>1, <3>4, <3>5
    <2> QED
      BY <2>1, <2>2
  <1>9. CASE Identify(c) /\ Known(c) # {}
    <2>1. PICK g \in Known(c) :
            /\ submitted' = submitted \cup {[msg |-> c.msg, id |-> g.id, at |-> c.copy]}
            /\ UNCHANGED memory
      BY <1>9 DEF Identify
    <2>2. g \in memory /\ g.msg = c.msg
      BY <2>1 DEF Known
    <2> DEFINE u == [msg |-> c.msg, id |-> g.id, at |-> c.copy]
    <2>3. u.msg = c.msg /\ u.at = c.copy /\ u.id = g.id /\ submitted' = submitted \cup {u}
      BY <2>1
    <2> HIDE DEF u
    <2>4. u \in Uses
      BY <1>6, <2>3
    <2>5. \A e \in submitted : e.msg = c.msg /\ e.id # u.id =>
            ~ \E h \in memory : h.msg = e.msg /\ h.id = e.id
      BY <2>2, <2>3 DEF Recognised, OneEntry
    <2>6. Firsts' /\ OneIdEach'
      BY <1>8, <2>3, <2>4, <2>5
    <2>7. OneEntry'
      BY <2>1, <2>3 DEF Recognised, OneEntry
    <2>8. KeptOrCrowdedOut'
      <3>1. SUFFICES ASSUME NEW e \in submitted', e.msg[1] = gen,
                            ~ \E h \in memory : h.msg = e.msg /\ h.id = e.id
                     PROVE  Cardinality(Others(submitted', e.id, e.msg)) >= IdLimit
        BY <1>0, <2>1 DEF KeptOrCrowdedOut
      <3>2. e \in submitted
        BY <2>2, <2>3, <3>1
      <3>3. Cardinality(Others(submitted, e.id, e.msg)) >= IdLimit
        BY <3>1, <3>2 DEF Recognised, KeptOrCrowdedOut
      <3> QED
        BY <1>6, <2>3, <3>3, OthersGrow
    <2> QED
      BY <2>6, <2>7, <2>8
  <1>10. CASE Identify(c) /\ Known(c) = {}
    <2> DEFINE u == [msg |-> c.msg, id |-> c.copy, at |-> c.copy]
               all == memory \cup {u}
    <2>1. submitted' = submitted \cup {u} /\ memory' = Remember(c)
      BY <1>10 DEF Identify
    <2>2. /\ u.msg = c.msg /\ u.at = c.copy /\ u.id = c.copy
          /\ memory' = IF Cardinality(all) <= IdLimit THEN all
                       ELSE {e \in all : \E f \in all : f.at < e.at}
      BY <2>1 DEF Remember
    <2> HIDE DEF u
    <2>3. u \in Uses
      BY <1>6, <2>1
    <2>4. \A g \in memory : g.msg # c.msg
      BY <1>2, <1>4, <1>10 DEF Known
    <2>5. Firsts' /\ OneIdEach'
      BY <1>8, <2>1, <2>2, <2>3, <2>4
    <2>6. /\ \A g \in all : g.id = g.at
          /\ \A g, h \in all : g.msg = h.msg \/ g.at = h.at => g = h
      <3>1. \A g \in memory : g.id = g.at /\ g.at # c.copy
        BY <1>2, <1>3 DEF Recognised, OneEntry
      <3>2. \A g, h \in memory : g.msg = h.msg \/ g.at = h.at => g = h
        BY <1>2, <3>1 DEF Recognised, OneEntry, IInv, IdsAreNotShared
      <3> QED
        BY <2>2, <2>4, <3>1, <3>2
    <2>7. memory' \subseteq all /\ all \in SUBSET submitted'
      BY <1>2, <2>1, <2>2
    <2>8. OneEntry'
      BY <2>6, <2>7 DEF OneEntry
    <2>9. ASSUME NEW g \in all, g \notin memory'
          PROVE  Cardinality(Others(submitted', g.id, g.msg)) >= IdLimit
      <3>1. Cardinality(all) > IdLimit /\ \A h \in all : ~(h.at < g.at)
        <4>1. ~(Cardinality(all) <= IdLimit)
          BY <2>2, <2>9
        <4>2. \A h \in all : ~(h.at < g.at)
          BY <2>2, <2>9, <4>1
        <4>3. IsFiniteSet(all)
          BY <1>6, <2>7, UsesFinite, FS_Subset
        <4>4. Cardinality(all) \in Nat /\ IdLimit \in Nat
          BY <4>3, FS_CardinalityType, CommandConstants
        <4> QED
          BY <4>1, <4>2, <4>4
      <3>2. IsFiniteSet(all)
        BY <1>6, <2>7, UsesFinite, FS_Subset
      <3> HIDE DEF all
      <3> QED
        BY <1>6, <2>6, <2>7, <2>9, <3>1, <3>2, OldestGoes
    <2>10. KeptOrCrowdedOut'
      <3>1. SUFFICES ASSUME NEW e \in submitted', e.msg[1] = gen,
                            ~ \E h \in memory' : h.msg = e.msg /\ h.id = e.id
                     PROVE  Cardinality(Others(submitted', e.id, e.msg)) >= IdLimit
        BY <1>0 DEF KeptOrCrowdedOut
      <3>2. CASE \E g \in all : g.msg = e.msg /\ g.id = e.id
        BY <2>9, <3>1, <3>2
      <3>3. CASE ~ \E g \in all : g.msg = e.msg /\ g.id = e.id
        <4>1. e \in submitted /\ ~ \E g \in memory : g.msg = e.msg /\ g.id = e.id
          BY <2>1, <3>1, <3>3
        <4>2. Cardinality(Others(submitted, e.id, e.msg)) >= IdLimit
          BY <3>1, <4>1 DEF Recognised, KeptOrCrowdedOut
        <4> QED
          BY <1>6, <2>1, <4>2, OthersGrow
      <3> QED
        BY <3>2, <3>3
    <2> QED
      BY <2>5, <2>8, <2>10
  <1> QED
    BY <1>0, <1>7, <1>9, <1>10

LEMMA StepRecognised == Recognised /\ [Next]_vars => Recognised'
  <1> SUFFICES ASSUME Recognised, [Next]_vars PROVE Recognised'
    OBVIOUS
  <1>1. IInv'
    BY StepInvariant DEF Recognised
  <1>2. CASE Connect
    BY <1>1, <1>2, ConnectRecognises DEF Recognised
  <1>3. CASE Take
    BY <1>1, <1>3, TakeRecognises DEF Recognised
  <1>4. CASE Reject
    <2>1. /\ queue # <<>> /\ queue' = Tail(queue)
          /\ UNCHANGED <<copies, kind, gen, memory, submitted>>
      BY <1>4 DEF Reject, More, broker, ids
    <2>2. Firsts'
      BY <2>1, TakenRecognises
    <2> QED
      BY <1>1, <2>1, <2>2, NothingTaken DEF Recognised
  <1>5. ASSUME NEW m \in Messages, First(m) \/ Again(m) PROVE Recognised'
    <2>1. UNCHANGED <<gen, memory, submitted>>
      BY <1>5 DEF First, Again, Arrives, ids
    <2>2. CASE First(m)
      <3>1. PICK k \in {"set", "scalar", "bad"} :
              kind[m] = "none" /\ kind' = [kind EXCEPT ![m] = k] /\ Arrives(m, FALSE)
        BY <2>2 DEF First
      <3>2. /\ kind' \in [Messages -> {"none", "set", "scalar", "bad"}] /\ kind'[m] # "none"
            /\ \A n \in Messages : n # m => kind'[n] = kind[n]
        BY <3>1 DEF Recognised, IInv, TypeOK
      <3>3. Firsts'
        BY <3>1, <3>2, ArrivesRecognises
      <3> QED
        BY <1>1, <2>1, <3>3, NothingTaken DEF Recognised
    <2>3. CASE Again(m)
      <3>1. kind[m] # "none" /\ kind' = kind /\ Arrives(m, TRUE)
        BY <2>3 DEF Again
      <3>2. kind' \in [Messages -> {"none", "set", "scalar", "bad"}]
        BY <3>1 DEF Recognised, IInv, TypeOK
      <3>3. Firsts'
        BY <3>1, <3>2, ArrivesRecognises
      <3> QED
        BY <1>1, <2>1, <3>3, NothingTaken DEF Recognised
    <2> QED
      BY <1>5, <2>2, <2>3
  <1>6. CASE \/ Disconnect \/ Reaches \/ PubAck \/ Top \/ Enough \/ Publish \/ Published
             \/ NotPublished \/ Completed \/ StopBegins \/ StopEnds \/ UNCHANGED vars
    <2>1. UNCHANGED <<kind, queue, gen, memory, submitted>>
      BY <1>6 DEF Disconnect, Reaches, PubAck, Top, Enough, Publish, Published, NotPublished,
                  Completed, StopBegins, StopEnds, vars, broker, ids
    <2>2. Firsts'
      BY <2>1 DEF Recognised, Firsts
    <2> QED
      BY <1>1, <2>1, <2>2, NothingTaken DEF Recognised
  <1> QED
    BY <1>2, <1>3, <1>4, <1>5, <1>6 DEF Next, Worker

\* A scalar message and its duplicates run once, unless the connection is gone
\* or as many others came in between as _packet_ids holds (mqtt.py:402-411).
THEOREM DuplicatesRunOnce == SafetySpec => []DuplicatesRecognised
  <1>1. Init => Recognised
    <2> SUFFICES ASSUME Init PROVE Recognised
      OBVIOUS
    <2>1. IInv
      BY InitInvariant
    <2>2. queue = <<>> /\ memory = {} /\ submitted = {}
      BY DEF Init
    <2>3. DOMAIN queue = {}
      BY <2>2
    <2> QED
      BY <2>1, <2>2, <2>3 DEF Recognised, Firsts, OneEntry, KeptOrCrowdedOut, OneIdEach
  <1>2. Recognised => DuplicatesRecognised
    BY DEF Recognised, IInv, OneIdEach, DuplicatesRecognised
  <1> QED
    BY <1>1, <1>2, StepRecognised, PTL DEF SafetySpec

=============================================================================
