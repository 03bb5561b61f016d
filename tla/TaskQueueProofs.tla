-------------------------- MODULE TaskQueueProofs ---------------------------
(* Theorems about TaskQueue, for any workers, any programs of any number of *)
(* tasks and any number of losses.                                          *)
EXTENDS TaskQueue, FiniteSetTheorems, TLAPS

\* Every step keeps the types.
LEMMA TypeStep ==
    ASSUME TypeOK, [Next]_vars
    PROVE  TypeOK'
<1> USE DEF TypeOK, Tasks, None, Held, First, vars, publishing, broker, working, link, failures
<1>1. CASE Publish
  <2>1. /\ program.tasks \in Nat /\ sent \in Nat /\ sent' = sent + 1
        /\ sent' \in 0 .. program.tasks
    BY <1>1, TaskQueueAssumption DEF Publish
  <2>2. 1 .. sent \subseteq 1 .. sent' /\ 0 .. sent \subseteq 0 .. sent' /\ sent' \in 1 .. sent'
    BY <2>1
  <2>3. wire' \subseteq 1 .. sent' /\ delay \cup queue \cup stored \subseteq 1 .. sent'
    BY <1>1, <2>1, <2>2 DEF Publish
  <2>4. /\ out \in [Workers -> SUBSET (1 .. sent')]
        /\ buffer \in [Workers -> SUBSET (1 .. sent')]
        /\ acks \in [Workers -> SUBSET (1 .. sent')]
    BY <2>2
  <2>5. hand \in [Workers -> 0 .. sent']
    BY <2>2
  <2> QED
    BY <1>1, <2>1, <2>3, <2>4, <2>5 DEF Publish
<1>2. CASE Close
  BY <1>2 DEF Close
<1>3. CASE PublisherDies
  <2>1. PICK last \in 0 .. sent : wire' = {t \in wire : t <= last}
    BY <1>3 DEF PublisherDies
  <2>2. wire' \subseteq 1 .. sent
    BY <2>1
  <2>3. losses' \in Nat
    BY <1>3 DEF PublisherDies
  <2> QED
    BY <1>3, <2>2, <2>3 DEF PublisherDies
<1>4. CASE Accept
  BY <1>4 DEF Accept
<1>5. CASE Expire
  BY <1>5 DEF Expire
<1>6. CASE Flush
  BY <1>6 DEF Flush
<1>7. CASE BrokerRestarts
  BY <1>7 DEF BrokerRestarts
<1>8. ASSUME NEW w \in Workers,
         BrokerStep(w) \/ Start(w) \/ WorkerStep(w) \/ Failure(w)
   PROVE  TypeOK'
  <2>1. CASE Deliver(w)
    <3>1. PICK t \in queue : /\ queue' = queue \ {t}
                             /\ buffer' = [buffer EXCEPT ![w] = @ \cup {t}]
                             /\ out' = out \/ out' = [out EXCEPT ![w] = @ \cup {t}]
      BY <2>1 DEF Deliver
    <3>2. buffer' \in [Workers -> SUBSET (1 .. sent)]
      BY <3>1
    <3>3. out' \in [Workers -> SUBSET (1 .. sent)]
      BY <3>1
    <3>4. pc[w] # "down"
      BY <2>1 DEF Deliver
    <3>5. \A v \in Workers : pc[v] = "down" => buffer'[v] = {}
      BY <3>1, <3>4
    <3> QED
      BY <2>1, <3>1, <3>2, <3>3, <3>5 DEF Deliver
  <2>2. CASE AckArrives(w)
    BY <2>2 DEF AckArrives
  <2>3. CASE Start(w)
    BY <2>3 DEF Start
  <2>4. CASE NextDelivery(w)
    BY <2>4 DEF NextDelivery
  <2>5. CASE DoWork(w)
    <3>0. program.tasks \in Nat /\ sent \in 0 .. program.tasks
      BY TaskQueueAssumption
    <3>a. hand[w] \in 0 .. sent /\ hand[w] # 0
      BY <2>5 DEF DoWork
    <3>1. hand[w] \in Tasks
      BY <3>0, <3>a
    <3>2. works \in [Tasks -> Nat] /\ Tasks' = Tasks /\ works' = [works EXCEPT ![hand[w]] = @ + 1]
      BY <2>5 DEF DoWork
    <3> HIDE DEF Tasks
    <3>3. works' \in [Tasks' -> Nat]
      BY <3>1, <3>2
    <3> QED
      BY <2>5, <3>3 DEF DoWork
  <2>6. CASE Acknowledge(w)
    BY <2>6 DEF Acknowledge
  <2>7. CASE MainEnds(w)
    BY <2>7 DEF MainEnds
  <2>8. CASE ConnectionLost(w)
    BY <2>8 DEF ConnectionLost, Requeue
  <2>9. CASE WorkerDies(w)
    BY <2>9 DEF WorkerDies, Requeue
  <2> QED
    BY <1>8, <2>1, <2>2, <2>3, <2>4, <2>5, <2>6, <2>7, <2>8, <2>9 DEF BrokerStep, WorkerStep, Failure
<1>9. CASE UNCHANGED vars
  BY <1>9
<1> QED
  BY <1>1, <1>2, <1>3, <1>4, <1>5, <1>6, <1>7, <1>8, <1>9 DEF Next

\* Every step leaves a task in one place at the broker.
LEMMA PlaceStep ==
    ASSUME TypeOK, OnePlace, LinkInv, [Next]_vars
    PROVE  OnePlace'
<1> USE DEF TypeOK, OnePlace, LinkInv, LinkOf, Held, First, vars, publishing, broker, working, link, failures
<1>1. CASE Publish
  BY <1>1 DEF Publish
<1>2. CASE Close
  BY <1>2 DEF Close
<1>3. CASE PublisherDies
  BY <1>3 DEF PublisherDies
<1>4. CASE Accept
  BY <1>4 DEF Accept
<1>5. CASE Expire
  BY <1>5 DEF Expire
<1>6. CASE Flush
  BY <1>6 DEF Flush
<1>7. CASE BrokerRestarts
  BY <1>7 DEF BrokerRestarts
<1>8. ASSUME NEW w \in Workers,
         BrokerStep(w) \/ Start(w) \/ WorkerStep(w) \/ Failure(w)
   PROVE  OnePlace'
  <2>1. CASE Deliver(w)
    <3>1. CASE program.autoAck
      BY <2>1, <3>1 DEF Deliver
    <3>2. CASE ~program.autoAck
      <4>1. PICK t \in queue : queue' = queue \ {t} /\ out' = [out EXCEPT ![w] = @ \cup {t}]
        BY <2>1, <3>2 DEF Deliver
      <4>2. \A v \in Workers : t \notin out[v]
        BY <4>1
      <4>3. UNCHANGED <<wire, stored, delay, disk>>
        BY <2>1 DEF Deliver
      <4>4. out'[w] = out[w] \cup {t} /\ \A v \in Workers \ {w} : out'[v] = out[v]
        BY <4>1
      <4>5. Held' \subseteq Held
        BY <4>1, <4>3, <4>4
      <4>6. wire' \cap (Held' \cup stored') = {}
        BY <4>3, <4>5
      <4>7. \A v \in Workers : out'[v] \cap (delay' \cup queue') = {}
        BY <4>1, <4>2, <4>3, <4>4
      <4>8. \A u, v \in Workers : u # v => out'[u] \cap out'[v] = {}
        BY <4>2, <4>4
      <4> QED
        BY <4>1, <4>3, <4>6, <4>7, <4>8
    <3> QED
      BY <3>1, <3>2
  <2>2. CASE AckArrives(w)
    BY <2>2 DEF AckArrives
  <2>3. CASE Start(w)
    BY <2>3 DEF Start
  <2>4. CASE NextDelivery(w)
    BY <2>4 DEF NextDelivery
  <2>5. CASE DoWork(w)
    BY <2>5 DEF DoWork
  <2>6. CASE Acknowledge(w)
    BY <2>6 DEF Acknowledge
  <2>7. CASE MainEnds(w)
    BY <2>7 DEF MainEnds
  <2>8. CASE ConnectionLost(w)
    BY <2>8 DEF ConnectionLost, Requeue
  <2>9. CASE WorkerDies(w)
    BY <2>9 DEF WorkerDies, Requeue
  <2> QED
    BY <1>8, <2>1, <2>2, <2>3, <2>4, <2>5, <2>6, <2>7, <2>8, <2>9 DEF BrokerStep, WorkerStep, Failure
<1>9. CASE UNCHANGED vars
  BY <1>9
<1> QED
  BY <1>1, <1>2, <1>3, <1>4, <1>5, <1>6, <1>7, <1>8, <1>9 DEF Next

\* Every step keeps what a worker holds and what is out with it in agreement.
LEMMA LinkStep ==
    ASSUME TypeOK, OnePlace, LinkInv, [Next]_vars
    PROVE  LinkInv'
<1> USE DEF TypeOK, OnePlace, LinkInv, LinkOf, AtWorker, InHand, Tasks, None, Held, First, vars, publishing, broker, working, link, failures
<1>1. CASE Publish
  BY <1>1 DEF Publish
<1>2. CASE Close
  BY <1>2 DEF Close
<1>3. CASE PublisherDies
  BY <1>3 DEF PublisherDies
<1>4. CASE Accept
  BY <1>4 DEF Accept
<1>5. CASE Expire
  BY <1>5 DEF Expire
<1>6. CASE Flush
  BY <1>6 DEF Flush
<1>7. CASE BrokerRestarts
  BY <1>7 DEF BrokerRestarts
<1>8. ASSUME NEW w \in Workers,
         BrokerStep(w) \/ Start(w) \/ WorkerStep(w) \/ Failure(w)
   PROVE  LinkInv'
  <2>1. CASE Deliver(w)
    <3>1. PICK t \in queue : /\ queue' = queue \ {t}
                             /\ buffer' = [buffer EXCEPT ![w] = @ \cup {t}]
                             /\ IF program.autoAck THEN out' = out
                                ELSE out' = [out EXCEPT ![w] = @ \cup {t}]
      BY <2>1 DEF Deliver
    <3>2. connected[w] /\ UNCHANGED <<program, pc, hand, works, connected, acks>>
      BY <2>1 DEF Deliver
    <3>3. t \notin out[w]
      BY <3>1
    <3>4. \A v \in Workers \ {w} : buffer'[v] = buffer[v] /\ out'[v] = out[v]
      BY <3>1
    <3>5. /\ buffer'[w] = buffer[w] \cup {t}
          /\ program.autoAck => out'[w] = out[w]
          /\ ~program.autoAck => out'[w] = out[w] \cup {t}
      BY <3>1
    <3>6. \A v \in Workers \ {w} : LinkOf(v)'
      BY <3>2, <3>4
    <3>7. acks[w] \subseteq out'[w] /\ t \notin acks[w]
      BY <3>3, <3>5
    <3>8. LinkOf(w)'
      BY <3>2, <3>5, <3>7
    <3> QED
      BY <3>6, <3>8
  <2>2. CASE AckArrives(w)
    BY <2>2 DEF AckArrives
  <2>3. CASE Start(w)
    BY <2>3 DEF Start
  <2>4. CASE NextDelivery(w)
    BY <2>4 DEF NextDelivery
  <2>5. CASE DoWork(w)
    <3>0. program.tasks \in Nat /\ sent \in 0 .. program.tasks
      BY TaskQueueAssumption
    <3>a. hand[w] \in 0 .. sent /\ hand[w] # 0
      BY <2>5 DEF DoWork
    <3>1. hand[w] \in Tasks
      BY <3>0, <3>a
    <3> HIDE DEF Tasks
    <3>2. /\ pc[w] = "received" /\ works \in [Tasks -> Nat]
          /\ works' = [works EXCEPT ![hand[w]] = @ + 1]
          /\ pc' = [pc EXCEPT ![w] = "worked"]
          /\ UNCHANGED <<program, out, buffer, hand, connected, acks>>
      BY <2>5 DEF DoWork
    <3>3. works'[hand[w]] > 0 /\ \A t : works[t] > 0 => works'[t] > 0
      BY <3>1, <3>2
    <3>4. pc'[w] = "worked" /\ \A v \in Workers \ {w} : pc'[v] = pc[v]
      BY <3>2
    <3>5. \A v \in Workers \ {w} : LinkOf(v)'
      BY <3>2, <3>3, <3>4
    <3>6. LinkOf(w)'
      BY <3>2, <3>3, <3>4
    <3> QED
      BY <3>5, <3>6
  <2>6. CASE Acknowledge(w)
    <3>1. /\ pc[w] = "worked" /\ (connected[w] \/ program.autoAck)
          /\ pc' = [pc EXCEPT ![w] = "waiting"]
          /\ hand' = [hand EXCEPT ![w] = None]
          /\ acks' = [acks EXCEPT ![w] = IF program.autoAck THEN @ ELSE @ \cup {hand[w]}]
          /\ UNCHANGED <<program, out, buffer, works, connected>>
      BY <2>6 DEF Acknowledge
    <3>2. \A v \in Workers \ {w} : pc'[v] = pc[v] /\ hand'[v] = hand[v] /\ acks'[v] = acks[v]
      BY <3>1
    <3>3. \A v \in Workers \ {w} : LinkOf(v)'
      BY <3>1, <3>2
    <3>4. /\ pc'[w] = "waiting" /\ hand'[w] = None
          /\ acks'[w] = IF program.autoAck THEN acks[w] ELSE acks[w] \cup {hand[w]}
      BY <3>1
    <3>8. /\ ~program.autoAck => hand[w] \in out[w] /\ hand[w] \notin buffer[w]
          /\ works[hand[w]] > 0
      BY <3>1
    <3>5. acks'[w] \subseteq out'[w] /\ \A t \in acks'[w] : works'[t] > 0
      BY <3>1, <3>4, <3>8
    <3>6. ~program.autoAck /\ connected[w] => buffer[w] \subseteq out'[w] \ acks'[w]
      BY <3>1, <3>4, <3>8
    <3>7. LinkOf(w)'
      BY <3>1, <3>4, <3>5, <3>6
    <3> QED
      BY <3>3, <3>7
  <2>7. CASE MainEnds(w)
    BY <2>7 DEF MainEnds
  <2>8. CASE ConnectionLost(w)
    BY <2>8 DEF ConnectionLost, Requeue
  <2>9. CASE WorkerDies(w)
    BY <2>9 DEF WorkerDies, Requeue
  <2> QED
    BY <1>8, <2>1, <2>2, <2>3, <2>4, <2>5, <2>6, <2>7, <2>8, <2>9 DEF BrokerStep, WorkerStep, Failure
<1>9. CASE UNCHANGED vars
  BY <1>9
<1> QED
  BY <1>1, <1>2, <1>3, <1>4, <1>5, <1>6, <1>7, <1>8, <1>9 DEF Next

\* A task stays accounted for where nothing that holds it is lost.
LEMMA AccountedFrame ==
    ASSUME NEW t, Accounted(t), Held \subseteq Held', program' = program, works' = works,
           deaths' = deaths,
           \A w \in Workers : program.autoAck => AtWorker(w) \subseteq AtWorker(w)'
    PROVE  Accounted(t)'
BY DEF Accounted

\* Most steps of a worker move nothing at the broker.
LEMMA Frame ==
    ASSUME DiskInv, Held' = Held, stored' = stored, disk' = disk,
           UNCHANGED <<publishing, deaths, losses, program, works>>,
           \A w \in Workers : program.autoAck => AtWorker(w) \subseteq AtWorker(w)'
    PROVE  DiskInv'
<1>1. \A t : Accounted(t) => Accounted(t)'
  BY AccountedFrame
<1> QED
  BY <1>1 DEF DiskInv, publishing

\* Every step accounts for what has been stored.
LEMMA DiskStep ==
    ASSUME TypeOK, OnePlace, LinkInv, DiskInv, [Next]_vars
    PROVE  DiskInv'
<1> USE DEF vars
<1>1. CASE Publish
  <2>1. Held' = Held /\ stored' = stored /\ disk' = disk /\ UNCHANGED <<program, works, deaths, losses, publisher>>
    BY <1>1 DEF Publish, Held, broker, working, failures
  <2>2. \A w \in Workers : AtWorker(w)' = AtWorker(w)
    BY <1>1 DEF Publish, AtWorker, working
  <2>3. \A t : Accounted(t) => Accounted(t)'
    BY <2>1, <2>2, AccountedFrame
  <2>4. sent \in Nat /\ sent' = sent + 1 /\ wire' = wire \cup {sent + 1} /\ publisher = "running"
    BY <1>1 DEF Publish, TypeOK
  <2>5. \A t \in 1 .. sent' : t \in 1 .. sent \/ t \in wire'
    BY <2>4
  <2> QED
    BY <2>1, <2>3, <2>4, <2>5 DEF DiskInv
<1>2. CASE Close
  <2>1. UNCHANGED <<program, sent, wire, delay, queue, out, disk, stored, works, deaths, losses>>
    BY <1>2 DEF Close, broker, working, failures
  <2>2. Held' = Held /\ \A w \in Workers : AtWorker(w)' = AtWorker(w)
    BY <1>2, <2>1 DEF Close, Held, AtWorker, working
  <2>3. \A t : Accounted(t) => Accounted(t)'
    BY <2>1, <2>2, AccountedFrame
  <2> QED
    BY <1>2, <2>1, <2>2, <2>3 DEF DiskInv, Close
<1>3. CASE PublisherDies
  <2>1. UNCHANGED <<program, sent, delay, queue, out, disk, stored, works, deaths>>
    BY <1>3 DEF PublisherDies, broker, working
  <2>2. Held' = Held /\ \A w \in Workers : AtWorker(w)' = AtWorker(w)
    BY <1>3, <2>1 DEF PublisherDies, Held, AtWorker, working
  <2>3. \A t : Accounted(t) => Accounted(t)'
    BY <2>1, <2>2, AccountedFrame
  <2> QED
    BY <1>3, <2>1, <2>2, <2>3 DEF DiskInv, PublisherDies
<1>4. CASE Accept
  <2>1. PICK t \in wire :
           /\ wire' = wire \ {t}
           /\ IF program.delayed
              THEN delay' = delay \cup {t} /\ UNCHANGED queue
              ELSE queue' = queue \cup {t} /\ UNCHANGED delay
    BY <1>4 DEF Accept, First
  <2>2. UNCHANGED <<program, publisher, sent, out, disk, stored, works, deaths, losses>>
    BY <1>4 DEF Accept, working, failures
  <2>3. Held' = Held \cup {t} /\ t \notin stored
    BY <2>1, <2>2 DEF Held, OnePlace
  <2>4. \A w \in Workers : AtWorker(w)' = AtWorker(w)
    BY <1>4 DEF Accept, AtWorker, working
  <2>5. \A u : Accounted(u) => Accounted(u)'
    BY <2>2, <2>3, <2>4, AccountedFrame
  <2>6. Accounted(t)'
    BY <2>3 DEF Accounted
  <2>7. publisher = "closed" => FALSE
    BY <2>1 DEF DiskInv
  <2> QED
    BY <2>1, <2>2, <2>3, <2>5, <2>6, <2>7 DEF DiskInv
<1>5. CASE Expire
  <2>1. Held' = Held /\ stored' = stored /\ disk' = disk /\ UNCHANGED <<publishing, deaths, losses, program, works>>
    BY <1>5 DEF Expire, First, Held, working, failures
  <2>2. \A w \in Workers : AtWorker(w)' = AtWorker(w)
    BY <1>5 DEF Expire, AtWorker, working
  <2> QED
    BY <2>1, <2>2, Frame
<1>6. CASE Flush
  <2>1. UNCHANGED <<program, publishing, delay, queue, out, works, deaths, losses>>
    BY <1>6 DEF Flush, working, failures
  <2>2. Held' = Held /\ disk'.delay \cup disk'.queue = Held /\ stored' = stored \cup Held
    BY <1>6, <2>1 DEF Flush, Held
  <2>3. \A w \in Workers : AtWorker(w)' = AtWorker(w)
    BY <1>6 DEF Flush, AtWorker, working
  <2>4. \A t : Accounted(t) => Accounted(t)'
    BY <2>1, <2>2, <2>3, AccountedFrame
  <2>5. \A t \in Held : Accounted(t)
    BY DEF Accounted
  <2> QED
    BY <2>1, <2>2, <2>4, <2>5 DEF DiskInv, publishing
<1>7. CASE BrokerRestarts
  <2>1. /\ Held' = disk.delay \cup disk.queue
        /\ UNCHANGED <<program, disk, stored, works, deaths>>
        /\ losses' = losses + 1 /\ wire' = {} /\ sent' = sent
        /\ publisher' = "closed" => publisher = "closed"
    BY <1>7 DEF BrokerRestarts, Held, working, TypeOK
  <2>2. \A w \in Workers : AtWorker(w)' = AtWorker(w)
    BY <1>7 DEF BrokerRestarts, AtWorker, working
  <2>3. \A t \in stored : Accounted(t)'
    BY <2>1, <2>2 DEF Accounted, DiskInv
  <2>4. losses' # 0
    BY <2>1 DEF TypeOK
  <2> QED
    BY <2>1, <2>3, <2>4 DEF DiskInv
<1>8. ASSUME NEW w \in Workers,
         BrokerStep(w) \/ Start(w) \/ WorkerStep(w) \/ Failure(w)
   PROVE  DiskInv'
  <2>1. CASE Deliver(w)
    <3>1. PICK t \in queue : /\ queue' = queue \ {t}
                             /\ buffer' = [buffer EXCEPT ![w] = @ \cup {t}]
                             /\ IF program.autoAck THEN out' = out
                                ELSE out' = [out EXCEPT ![w] = @ \cup {t}]
      BY <2>1 DEF Deliver
    <3>2. UNCHANGED <<program, publishing, delay, disk, stored, pc, hand, works, deaths, losses>>
      BY <2>1 DEF Deliver, failures
    <3>3. t \in AtWorker(w)' /\ \A v \in Workers : AtWorker(v) \subseteq AtWorker(v)'
      BY <3>1, <3>2 DEF AtWorker, TypeOK
    <3>4. Held' \subseteq Held /\ Held \subseteq Held' \cup {t} /\ (program.autoAck \/ t \in Held')
      BY <3>1, <3>2 DEF Held, TypeOK
    <3>5. \A u : Accounted(u) => Accounted(u)'
      BY <3>2, <3>3, <3>4 DEF Accounted
    <3> QED
      BY <3>2, <3>4, <3>5 DEF DiskInv, publishing
  <2>2. CASE AckArrives(w)
    <3>1. PICK t \in acks[w] : out' = [out EXCEPT ![w] = @ \ {t}]
      BY <2>2 DEF AckArrives
    <3>2. UNCHANGED <<program, publishing, delay, queue, disk, stored, pc, buffer, hand, works, deaths, losses>>
      BY <2>2 DEF AckArrives, working, failures
    <3>3. works[t] > 0
      BY <3>1 DEF LinkInv, LinkOf
    <3>4. Held' \subseteq Held /\ Held \subseteq Held' \cup {t}
      BY <3>1, <3>2 DEF Held, TypeOK
    <3>5. \A v \in Workers : AtWorker(v)' = AtWorker(v)
      BY <3>2 DEF AtWorker
    <3>6. \A u : Accounted(u) => Accounted(u)'
      BY <3>2, <3>3, <3>4, <3>5 DEF Accounted
    <3> QED
      BY <3>2, <3>4, <3>6 DEF DiskInv, publishing
  <2>3. CASE Start(w)
    <3>1. Held' = Held /\ stored' = stored /\ disk' = disk /\ UNCHANGED <<publishing, failures, program, works>>
      BY <2>3 DEF Start, Held, broker, working
    <3>2. \A v \in Workers : program.autoAck => AtWorker(v) \subseteq AtWorker(v)'
      BY <2>3 DEF Start, AtWorker, TypeOK
    <3> QED
      BY <3>1, <3>2, Frame DEF failures
  <2>4. CASE NextDelivery(w)
    <3>1. Held' = Held /\ stored' = stored /\ disk' = disk /\ UNCHANGED <<publishing, failures, program, works>>
      BY <2>4 DEF NextDelivery, Held, broker, working
    <3>2. \A v \in Workers : program.autoAck => AtWorker(v) \subseteq AtWorker(v)'
      BY <2>4 DEF NextDelivery, AtWorker, TypeOK
    <3> QED
      BY <3>1, <3>2, Frame DEF failures
  <2>5. CASE DoWork(w)
    <3>1. UNCHANGED <<program, publishing, delay, queue, out, disk, stored, buffer, hand, deaths, losses>>
      BY <2>5 DEF DoWork, broker, failures
    <3>2. hand[w] \in Tasks /\ pc[w] = "received"
      BY <2>5, TaskQueueAssumption DEF DoWork, TypeOK, None, Tasks
    <3>3. Held' = Held
      BY <3>1 DEF Held
    <3>4. works'[hand[w]] > 0 /\ \A t \in Tasks \ {hand[w]} : works'[t] = works[t]
      BY <2>5, <3>2 DEF DoWork, TypeOK
    <3>5. \A v \in Workers : AtWorker(v) \subseteq AtWorker(v)' \cup {hand[w]}
      BY <2>5, <3>1 DEF DoWork, AtWorker, TypeOK
    <3>6. \A t \in Tasks : Accounted(t) => Accounted(t)'
      BY <3>1, <3>3, <3>4, <3>5 DEF Accounted
    <3>7. stored \subseteq Tasks /\ 1 .. sent \subseteq Tasks
      BY TaskQueueAssumption DEF TypeOK, Tasks
    <3> QED
      BY <3>1, <3>3, <3>6, <3>7 DEF DiskInv, publishing
  <2>6. CASE Acknowledge(w)
    <3>1. Held' = Held /\ stored' = stored /\ disk' = disk /\ UNCHANGED <<publishing, failures, program, works>>
      BY <2>6 DEF Acknowledge, Held, broker, working
    <3>2. \A v \in Workers : program.autoAck => AtWorker(v) \subseteq AtWorker(v)'
      BY <2>6 DEF Acknowledge, AtWorker, TypeOK
    <3> QED
      BY <3>1, <3>2, Frame DEF failures
  <2>7. CASE MainEnds(w)
    <3>1. Held' = Held /\ stored' = stored /\ disk' = disk /\ UNCHANGED <<publishing, failures, program, works>>
      BY <2>7 DEF MainEnds, Held, broker, working
    <3>2. \A v \in Workers : program.autoAck => AtWorker(v) \subseteq AtWorker(v)'
      BY <2>7 DEF MainEnds, AtWorker, TypeOK
    <3> QED
      BY <3>1, <3>2, Frame DEF failures
  <2>8. CASE ConnectionLost(w)
    <3>1. PICK arrived \in SUBSET acks[w] :
             queue' = queue \cup (out[w] \ arrived) /\ out' = [out EXCEPT ![w] = {}]
      BY <2>8 DEF ConnectionLost, Requeue
    <3>2. /\ UNCHANGED <<program, publishing, delay, disk, stored, pc, buffer, hand, works, deaths>>
          /\ losses' = losses + 1
      BY <2>8 DEF ConnectionLost, working
    <3>3. \A t \in arrived : works[t] > 0
      BY <3>1 DEF LinkInv, LinkOf
    <3>4. Held' \subseteq Held /\ Held \subseteq Held' \cup arrived
      BY <3>1, <3>2 DEF Held, TypeOK
    <3>5. \A v \in Workers : AtWorker(v)' = AtWorker(v)
      BY <3>2 DEF AtWorker
    <3>6. \A t : Accounted(t) => Accounted(t)'
      BY <3>2, <3>3, <3>4, <3>5 DEF Accounted
    <3>7. losses' # 0
      BY <3>2 DEF TypeOK
    <3> QED
      BY <3>2, <3>4, <3>6, <3>7 DEF DiskInv, publishing
  <2>9. CASE WorkerDies(w)
    <3>1. PICK arrived \in SUBSET acks[w] :
             queue' = queue \cup (out[w] \ arrived) /\ out' = [out EXCEPT ![w] = {}]
      BY <2>9 DEF WorkerDies, Requeue
    <3>2. /\ UNCHANGED <<program, publishing, delay, disk, stored, works, losses>>
          /\ deaths' = deaths + 1
      BY <2>9 DEF WorkerDies
    <3>3. \A t \in arrived : works[t] > 0
      BY <3>1 DEF LinkInv, LinkOf
    <3>4. Held' \subseteq Held /\ Held \subseteq Held' \cup arrived
      BY <3>1, <3>2 DEF Held, TypeOK
    <3>5. deaths' > 0
      BY <3>2 DEF TypeOK
    <3>6. \A t : Accounted(t) => Accounted(t)'
      BY <3>2, <3>3, <3>4, <3>5 DEF Accounted
    <3> QED
      BY <3>2, <3>4, <3>6 DEF DiskInv, publishing
  <2> QED
    BY <1>8, <2>1, <2>2, <2>3, <2>4, <2>5, <2>6, <2>7, <2>8, <2>9 DEF BrokerStep, WorkerStep, Failure
<1>9. CASE UNCHANGED vars
  <2>1. Held' = Held /\ \A w \in Workers : AtWorker(w)' = AtWorker(w)
    BY <1>9 DEF Held, AtWorker, broker, working
  <2> QED
    BY <1>9, <2>1, Frame DEF broker, working, failures
<1> QED
  BY <1>1, <1>2, <1>3, <1>4, <1>5, <1>6, <1>7, <1>8, <1>9 DEF Next

-----------------------------------------------------------------------------
(* How often a task is worked on.                                          *)

\* A set that gives up one of its elements and gains at most one has not grown.
LEMMA Exchanged ==
    ASSUME NEW S, IsFiniteSet(S), NEW a \in S, NEW b, NEW T, T \subseteq (S \ {a}) \cup {b}
    PROVE  IsFiniteSet(T) /\ Cardinality(T) <= Cardinality(S)
<1>1. IsFiniteSet(S \ {a}) /\ Cardinality(S \ {a}) = Cardinality(S) - 1
  BY FS_RemoveElement
<1>2. /\ IsFiniteSet((S \ {a}) \cup {b})
      /\ \/ Cardinality((S \ {a}) \cup {b}) = Cardinality(S \ {a})
         \/ Cardinality((S \ {a}) \cup {b}) = Cardinality(S \ {a}) + 1
  BY <1>1, FS_AddElement
<1>3. IsFiniteSet(T) /\ Cardinality(T) <= Cardinality((S \ {a}) \cup {b})
  BY <1>2, FS_Subset
<1>4. Cardinality(S) \in Nat /\ Cardinality(T) \in Nat
  BY <1>3, FS_CardinalityType
<1> QED
  BY <1>1, <1>2, <1>3, <1>4

\* A set that gains at most one element has grown by one at the most.
LEMMA Gained ==
    ASSUME NEW S, IsFiniteSet(S), NEW b, NEW T, T \subseteq S \cup {b}
    PROVE  IsFiniteSet(T) /\ Cardinality(T) <= Cardinality(S) + 1
<1>1. /\ IsFiniteSet(S \cup {b})
      /\ \/ Cardinality(S \cup {b}) = Cardinality(S)
         \/ Cardinality(S \cup {b}) = Cardinality(S) + 1
  BY FS_AddElement
<1>2. IsFiniteSet(T) /\ Cardinality(T) <= Cardinality(S \cup {b})
  BY <1>1, FS_Subset
<1>3. Cardinality(S) \in Nat /\ Cardinality(T) \in Nat
  BY <1>2, FS_CardinalityType
<1> QED
  BY <1>1, <1>2, <1>3

\* Where no work is done, no more copies than losses appear.
LEMMA NotWorked ==
    ASSUME TypeOK, TypeOK', NEW t \in 1 .. sent, FewCopies(t), works'[t] = works[t], t \in Tasks,
           IsFiniteSet(Copies(t)'), NEW n \in {0, 1},
           Cardinality(Copies(t)') <= Cardinality(Copies(t)) + n,
           deaths' + losses' = deaths + losses + n
    PROVE  FewCopies(t)'
<1>1. /\ Cardinality(Copies(t)) \in Nat /\ Cardinality(Copies(t)') \in Nat
      /\ works[t] \in Nat /\ deaths \in Nat /\ losses \in Nat /\ deaths' \in Nat /\ losses' \in Nat
  BY FS_CardinalityType DEF FewCopies, TypeOK
<1>2. works[t] + Cardinality(Copies(t)) <= 1 + deaths + losses
  BY DEF FewCopies
<1>3. works[t] + Cardinality(Copies(t)') <= 1 + deaths' + losses'
  <2> DEFINE a == works[t] c == Cardinality(Copies(t)) c2 == Cardinality(Copies(t)')
             d == deaths l == losses d2 == deaths' l2 == losses'
  <2>1. a \in Nat /\ c \in Nat /\ c2 \in Nat /\ d \in Nat /\ l \in Nat /\ d2 \in Nat /\ l2 \in Nat
    BY <1>1
  <2>2. n \in Nat /\ a + c <= 1 + d + l /\ c2 <= c + n /\ d2 + l2 = d + l + n
    BY <1>2
  <2> HIDE DEF a, c, c2, d, l, d2, l2
  <2>3. a + c2 <= 1 + d2 + l2
    BY <2>1, <2>2
  <2> QED
    BY <2>3 DEF a, c2, d2, l2
<1> QED
  BY <1>3 DEF FewCopies

\* Where no copy appears and none of a task is worked on, it has no more of them.
LEMMA CopiesFewer ==
    ASSUME TypeOK, TypeOK', NEW t \in 1 .. sent, FewCopies(t), works' = works, t \in Tasks,
           Copies(t)' \subseteq Copies(t), UNCHANGED <<deaths, losses>>
    PROVE  FewCopies(t)'
<1>1. IsFiniteSet(Copies(t)') /\ Cardinality(Copies(t)') <= Cardinality(Copies(t))
  BY FS_Subset DEF FewCopies
<1>2. Cardinality(Copies(t)) \in Nat /\ Cardinality(Copies(t)') \in Nat
  BY <1>1, FS_CardinalityType DEF FewCopies
<1>3. deaths' + losses' = deaths + losses + 0
  BY DEF TypeOK
<1> QED
  BY <1>1, <1>2, <1>3, NotWorked

\* A loss makes one more copy of a task at the most, at the broker.
LEMMA CopiesAfterLoss ==
    ASSUME TypeOK, TypeOK', NEW t \in 1 .. sent, FewCopies(t), works' = works, t \in Tasks,
           Copies(t)' \subseteq Copies(t) \cup {<<"broker", None>>},
           deaths' + losses' = deaths + losses + 1
    PROVE  FewCopies(t)'
<1>1. IsFiniteSet(Copies(t)') /\ Cardinality(Copies(t)') <= Cardinality(Copies(t)) + 1
  BY Gained DEF FewCopies
<1> QED
  BY <1>1, NotWorked

\* Every step of a worker, of its broker or of its end keeps the count of a task.
LEMMA CopyStepOf ==
    ASSUME TypeOK, TypeOK', OnePlace, NEW t \in 1 .. sent, t \in Tasks, FewCopies(t),
           NEW w \in Workers, BrokerStep(w) \/ Start(w) \/ WorkerStep(w) \/ Failure(w)
    PROVE  FewCopies(t)'
<1>1. CASE Deliver(w)
  <2>1. PICK u \in queue : queue' = queue \ {u} /\ buffer' = [buffer EXCEPT ![w] = @ \cup {u}]
    BY <1>1 DEF Deliver
  <2>2. UNCHANGED <<sent, wire, delay, pc, hand, works, deaths, losses>>
    BY <1>1 DEF Deliver, publishing, failures
  <2>3. CASE u = t
    <3>1. t \notin wire' \cup delay' \cup queue'
      BY <2>1, <2>2, <2>3 DEF OnePlace, Held
    <3>2. <<"broker", None>> \in Copies(t)
      BY <2>1, <2>3 DEF Copies
    <3>3. Copies(t)' \subseteq (Copies(t) \ {<<"broker", None>>}) \cup {<<"buffer", w>>}
      BY <2>1, <2>2, <3>1 DEF Copies, TypeOK
    <3>4. IsFiniteSet(Copies(t)') /\ Cardinality(Copies(t)') <= Cardinality(Copies(t))
      BY <3>2, <3>3, Exchanged DEF FewCopies
    <3>5. Cardinality(Copies(t)) \in Nat /\ Cardinality(Copies(t)') \in Nat
      BY <3>4, FS_CardinalityType DEF FewCopies
    <3>6. deaths' + losses' = deaths + losses + 0
      BY <2>2 DEF TypeOK
    <3> QED
      BY <2>2, <3>4, <3>5, <3>6, NotWorked
  <2>4. CASE u # t
    <3>1. Copies(t)' \subseteq Copies(t)
      BY <2>1, <2>2, <2>4 DEF Copies, TypeOK
    <3> QED
      BY <2>2, <3>1, CopiesFewer
  <2> QED
    BY <2>3, <2>4
<1>2. CASE AckArrives(w)
  <2>1. UNCHANGED <<wire, delay, queue, pc, buffer, hand, works, deaths, losses>>
    BY <1>2 DEF AckArrives, publishing, working, failures
  <2>2. Copies(t)' \subseteq Copies(t)
    BY <2>1 DEF Copies
  <2> QED
    BY <2>1, <2>2, CopiesFewer
<1>3. CASE Start(w)
  <2>1. UNCHANGED <<wire, delay, queue, buffer, hand, works, deaths, losses>>
    BY <1>3 DEF Start, publishing, broker, failures
  <2>2. Copies(t)' \subseteq Copies(t)
    BY <1>3, <2>1 DEF Copies, Start, TypeOK
  <2> QED
    BY <2>1, <2>2, CopiesFewer
<1>4. CASE NextDelivery(w)
  <2>1. PICK u \in buffer[w] : /\ buffer' = [buffer EXCEPT ![w] = @ \ {u}]
                               /\ hand' = [hand EXCEPT ![w] = u]
    BY <1>4 DEF NextDelivery
  <2>2. /\ UNCHANGED <<wire, delay, queue, works, deaths, losses>>
        /\ pc[w] = "waiting" /\ pc' = [pc EXCEPT ![w] = "received"]
    BY <1>4 DEF NextDelivery, publishing, broker, failures
  <2>3. CASE u = t
    <3>1. <<"buffer", w>> \in Copies(t)
      BY <2>1, <2>3 DEF Copies
    <3>2. Copies(t)' \subseteq (Copies(t) \ {<<"buffer", w>>}) \cup {<<"hand", w>>}
      BY <2>1, <2>2, <2>3 DEF Copies, TypeOK
    <3>3. IsFiniteSet(Copies(t)') /\ Cardinality(Copies(t)') <= Cardinality(Copies(t))
      BY <3>1, <3>2, Exchanged DEF FewCopies
    <3>4. Cardinality(Copies(t)) \in Nat /\ Cardinality(Copies(t)') \in Nat
      BY <3>3, FS_CardinalityType DEF FewCopies
    <3>5. deaths' + losses' = deaths + losses + 0
      BY <2>2 DEF TypeOK
    <3> QED
      BY <2>2, <3>3, <3>4, <3>5, NotWorked
  <2>4. CASE u # t
    <3>1. Copies(t)' \subseteq Copies(t)
      BY <2>1, <2>2, <2>4 DEF Copies, TypeOK
    <3> QED
      BY <2>2, <3>1, CopiesFewer
  <2> QED
    BY <2>3, <2>4
<1>5. CASE DoWork(w)
  <2>1. /\ UNCHANGED <<program, wire, delay, queue, buffer, hand, deaths, losses>>
        /\ pc[w] = "received" /\ pc' = [pc EXCEPT ![w] = "worked"]
        /\ works' = [works EXCEPT ![hand[w]] = @ + 1]
    BY <1>5 DEF DoWork, publishing, broker, failures
  <2>2. CASE hand[w] = t
    <3>1. works'[t] = works[t] + 1
      BY <2>1, <2>2 DEF TypeOK
    <3>2. <<"hand", w>> \in Copies(t)
      BY <2>1, <2>2 DEF Copies
    <3>3. Copies(t)' \subseteq Copies(t) \ {<<"hand", w>>}
      BY <2>1 DEF Copies, TypeOK
    <3>4. /\ IsFiniteSet(Copies(t) \ {<<"hand", w>>})
          /\ Cardinality(Copies(t) \ {<<"hand", w>>}) = Cardinality(Copies(t)) - 1
      BY <3>2, FS_RemoveElement DEF FewCopies
    <3>5. /\ IsFiniteSet(Copies(t)')
          /\ Cardinality(Copies(t)') <= Cardinality(Copies(t)) - 1
      BY <3>3, <3>4, FS_Subset
    <3>6. Cardinality(Copies(t)) \in Nat /\ Cardinality(Copies(t)') \in Nat /\ works[t] \in Nat
      BY <3>5, FS_CardinalityType DEF FewCopies, TypeOK
    <3>7. deaths \in Nat /\ losses \in Nat
      BY DEF TypeOK
    <3> QED
      BY <2>1, <3>1, <3>5, <3>6, <3>7 DEF FewCopies
  <2>3. CASE hand[w] # t
    <3>1. works'[t] = works[t]
      BY <2>1, <2>3 DEF TypeOK
    <3>2. Copies(t)' \subseteq Copies(t)
      BY <2>1 DEF Copies, TypeOK
    <3>3. IsFiniteSet(Copies(t)') /\ Cardinality(Copies(t)') <= Cardinality(Copies(t))
      BY <3>2, FS_Subset DEF FewCopies
    <3>4. Cardinality(Copies(t)) \in Nat /\ Cardinality(Copies(t)') \in Nat
      BY <3>3, FS_CardinalityType DEF FewCopies
    <3>5. deaths' + losses' = deaths + losses + 0
      BY <2>1 DEF TypeOK
    <3> QED
      BY <3>1, <3>3, <3>4, <3>5, NotWorked
  <2> QED
    BY <2>2, <2>3
<1>6. CASE Acknowledge(w)
  <2>1. /\ UNCHANGED <<wire, delay, queue, buffer, works, deaths, losses>>
        /\ pc' = [pc EXCEPT ![w] = "waiting"] /\ hand' = [hand EXCEPT ![w] = None]
    BY <1>6 DEF Acknowledge, publishing, broker, failures
  <2>2. Copies(t)' \subseteq Copies(t)
    BY <2>1 DEF Copies, TypeOK
  <2> QED
    BY <2>1, <2>2, CopiesFewer
<1>7. CASE MainEnds(w)
  <2>1. /\ UNCHANGED <<wire, delay, queue, works, deaths, losses>>
        /\ pc' = [pc EXCEPT ![w] = "down"] /\ hand' = [hand EXCEPT ![w] = None]
        /\ buffer' = [buffer EXCEPT ![w] = {}]
    BY <1>7 DEF MainEnds, publishing, broker, failures
  <2>2. Copies(t)' \subseteq Copies(t)
    BY <2>1 DEF Copies, TypeOK
  <2> QED
    BY <2>1, <2>2, CopiesFewer
<1>8. CASE ConnectionLost(w)
  <2>1. UNCHANGED <<wire, delay, pc, buffer, hand, works, deaths>> /\ losses' = losses + 1
    BY <1>8 DEF ConnectionLost, publishing, working
  <2>2. Copies(t)' \subseteq Copies(t) \cup {<<"broker", None>>}
    BY <2>1 DEF Copies
  <2>3. deaths' + losses' = deaths + losses + 1
    BY <2>1 DEF TypeOK
  <2> QED
    BY <2>1, <2>2, <2>3, CopiesAfterLoss
<1>9. CASE WorkerDies(w)
  <2>1. /\ UNCHANGED <<wire, delay, works, losses>> /\ deaths' = deaths + 1
        /\ pc' = [pc EXCEPT ![w] = "down"] /\ hand' = [hand EXCEPT ![w] = None]
        /\ buffer' = [buffer EXCEPT ![w] = {}]
    BY <1>9 DEF WorkerDies, publishing
  <2>2. Copies(t)' \subseteq Copies(t) \cup {<<"broker", None>>}
    BY <2>1 DEF Copies, TypeOK
  <2>3. deaths' + losses' = deaths + losses + 1
    BY <2>1 DEF TypeOK
  <2> QED
    BY <2>1, <2>2, <2>3, CopiesAfterLoss
<1> QED
  BY <1>1, <1>2, <1>3, <1>4, <1>5, <1>6, <1>7, <1>8, <1>9 DEF BrokerStep, WorkerStep, Failure

\* Nobody works on a task that has not been published.
LEMMA UnsentStep ==
    ASSUME TypeOK, [Next]_vars, \A t \in Tasks \ (1 .. sent) : works[t] = 0
    PROVE  \A t \in Tasks' \ (1 .. sent') : works'[t] = 0
<1>1. CASE \E w \in Workers : DoWork(w)
  <2>1. PICK w \in Workers : DoWork(w)
    BY <1>1
  <2>2. UNCHANGED <<program, sent>> /\ hand[w] \in 1 .. sent
    BY <2>1 DEF DoWork, publishing, TypeOK, None
  <2>3. Tasks' = Tasks
    BY <2>2 DEF Tasks
  <2>4. \A t \in Tasks : t # hand[w] => works'[t] = works[t]
    BY <2>1 DEF DoWork, TypeOK
  <2> QED
    BY <2>2, <2>3, <2>4
<1>2. CASE ~\E w \in Workers : DoWork(w)
  <2>1. works' = works /\ program' = program /\ (sent' = sent \/ sent' = sent + 1)
    BY <1>2 DEF Next, vars, working, publishing, Publish, Close, PublisherDies, Accept, Expire,
                Flush, BrokerRestarts, BrokerStep, WorkerStep, Failure, Deliver, AckArrives, Start,
                NextDelivery, Acknowledge, MainEnds, ConnectionLost, WorkerDies
  <2>2. Tasks' = Tasks /\ 1 .. sent \subseteq 1 .. sent'
    BY <2>1, TaskQueueAssumption DEF Tasks, TypeOK
  <2> QED
    BY <2>1, <2>2
<1> QED
  BY <1>1, <1>2

\* Every step keeps the count of every task.
LEMMA CopyStep ==
    ASSUME TypeOK, TypeOK', OnePlace, CopyInv, [Next]_vars
    PROVE  CopyInv'
<1>1. \A t \in Tasks' \ (1 .. sent') : works'[t] = 0
  BY UnsentStep DEF CopyInv
<1> SUFFICES ASSUME NEW t \in 1 .. sent' PROVE FewCopies(t)'
  BY <1>1 DEF CopyInv
<1>2. program.tasks \in Nat /\ sent \in 0 .. program.tasks
  BY TaskQueueAssumption DEF TypeOK
<1>3. CASE Publish
  <2>1. /\ sent' = sent + 1 /\ wire' = wire \cup {sent + 1} /\ sent < program.tasks
        /\ UNCHANGED <<program, delay, queue, pc, buffer, hand, works, deaths, losses>>
    BY <1>3 DEF Publish, broker, working, failures
  <2>2. CASE t = sent + 1
    <3>1. t \in Tasks \ (1 .. sent)
      BY <1>2, <2>1, <2>2 DEF Tasks
    <3>2. works'[t] = 0
      BY <2>1, <3>1 DEF CopyInv
    <3>3. Copies(t)' \subseteq {<<"broker", None>>}
      BY <2>1, <3>1 DEF Copies, TypeOK, None
    <3>4. IsFiniteSet({}) /\ Cardinality({}) = 0
      BY FS_EmptySet
    <3>5. IsFiniteSet(Copies(t)') /\ Cardinality(Copies(t)') <= 0 + 1
      BY <3>3, <3>4, Gained
    <3>6. Cardinality(Copies(t)') \in Nat /\ deaths' \in Nat /\ losses' \in Nat
      BY <3>5, FS_CardinalityType DEF TypeOK
    <3> QED
      BY <3>2, <3>5, <3>6 DEF FewCopies
  <2>3. CASE t # sent + 1
    <3>1. t \in 1 .. sent /\ t \in Tasks
      BY <1>2, <2>1, <2>3 DEF Tasks
    <3>2. Copies(t)' \subseteq Copies(t)
      BY <2>1, <2>3 DEF Copies
    <3> QED
      BY <2>1, <3>1, <3>2, CopiesFewer DEF CopyInv
  <2> QED
    BY <2>2, <2>3
<1>4. CASE ~Publish
  <2>1. sent' = sent
    BY <1>4 DEF Next, vars, publishing, Close, PublisherDies, Accept, Expire, Flush,
                BrokerRestarts, BrokerStep, WorkerStep, Failure, Deliver, AckArrives, Start,
                NextDelivery, DoWork, Acknowledge, MainEnds, ConnectionLost, WorkerDies
  <2>2. t \in 1 .. sent /\ t \in Tasks /\ FewCopies(t)
    BY <1>2, <2>1 DEF Tasks, CopyInv
  <2>3. CASE Close \/ Flush \/ UNCHANGED vars
    <3>1. UNCHANGED <<wire, delay, queue, pc, buffer, hand, works, deaths, losses>>
      BY <2>3 DEF Close, Flush, vars, publishing, broker, working, failures
    <3>2. Copies(t)' \subseteq Copies(t)
      BY <3>1 DEF Copies
    <3> QED
      BY <2>2, <3>1, <3>2, CopiesFewer
  <2>4. CASE Accept \/ Expire
    <3>1. UNCHANGED <<pc, buffer, hand, works, deaths, losses>>
      BY <2>4 DEF Accept, Expire, working, failures
    <3>2. wire' \cup delay' \cup queue' \subseteq wire \cup delay \cup queue
      BY <2>4 DEF Accept, Expire, First, publishing
    <3>3. Copies(t)' \subseteq Copies(t)
      BY <3>1, <3>2 DEF Copies
    <3> QED
      BY <2>2, <3>1, <3>3, CopiesFewer
  <2>5. CASE PublisherDies \/ BrokerRestarts
    <3>1. UNCHANGED <<pc, buffer, hand, works, deaths>> /\ losses' = losses + 1
      BY <2>5 DEF PublisherDies, BrokerRestarts, working
    <3>2. Copies(t)' \subseteq Copies(t) \cup {<<"broker", None>>}
      BY <3>1 DEF Copies
    <3>3. deaths' + losses' = deaths + losses + 1
      BY <3>1 DEF TypeOK
    <3> QED
      BY <2>2, <3>1, <3>2, <3>3, CopiesAfterLoss
  <2>6. CASE \E w \in Workers : BrokerStep(w) \/ Start(w) \/ WorkerStep(w) \/ Failure(w)
    BY <2>2, <2>6, CopyStepOf
  <2> QED
    BY <1>4, <2>3, <2>4, <2>5, <2>6 DEF Next
<1> QED
  BY <1>3, <1>4

-----------------------------------------------------------------------------
(* The invariant, and what follows from it.                                *)

\* Initially nothing has happened.
LEMMA InitInv ==
    ASSUME Init
    PROVE  IInv
<1> USE DEF Init
<1>1. TypeOK
  BY TaskQueueAssumption DEF TypeOK, Tasks, None
<1>2. Held = {}
  BY DEF Held
<1>3. CopyInv
  <2>1. sent = 0 /\ \A t \in Tasks : works[t] = 0
    OBVIOUS
  <2> QED
    BY <2>1 DEF CopyInv
<1> QED
  BY <1>1, <1>2, <1>3 DEF IInv, OnePlace, LinkInv, LinkOf, DiskInv, AtWorker, InHand, None

\* The invariant that everything else follows from is inductive.
THEOREM Inductive == Spec => []IInv
<1>1. IInv /\ [Next]_vars => IInv'
  BY TypeStep, PlaceStep, LinkStep, DiskStep, CopyStep DEF IInv
<1> QED
  BY InitInv, <1>1, PTL DEF Spec

\* Every reachable state has its type (the mains of Util/mom and the broker).
THEOREM TypeCorrect == Spec => []TypeOK
<1>1. IInv => TypeOK
  BY DEF IInv
<1> QED
  BY <1>1, Inductive, PTL

\* No stored task is forgotten, nor one that a main published that returned from
\* close() while no broker failed (NewTask.java:41, Worker.java:37-42, Consumer.java:30).
THEOREM NeverForgotten == Spec => []NothingForgotten
<1>1. IInv => NothingForgotten
  <2> SUFFICES ASSUME IInv, NEW t \in Tasks, t \in stored \/ (publisher = "closed" /\ losses = 0)
               PROVE  Accounted(t)
    BY DEF NothingForgotten
  <2>1. CASE t \in stored
    BY <2>1 DEF IInv, DiskInv
  <2>2. CASE publisher = "closed" /\ losses = 0
    BY <2>2 DEF IInv, DiskInv, Tasks
  <2> QED
    BY <2>1, <2>2
<1> QED
  BY <1>1, Inductive, PTL

\* A task is worked on once, and once more per loss at the most: whatever the workers
\* share, a task has one copy, and only a lost connection, process or broker makes another.
THEOREM RedoneCorrect == Spec => []RedoneOnlyAfterLoss
<1>1. IInv => RedoneOnlyAfterLoss
  <2> SUFFICES ASSUME IInv, NEW t \in Tasks PROVE works[t] <= 1 + deaths + losses
    BY DEF RedoneOnlyAfterLoss
  <2>1. works[t] \in Nat /\ deaths \in Nat /\ losses \in Nat
    BY DEF IInv, TypeOK
  <2>2. CASE t \in 1 .. sent
    <3>1. IsFiniteSet(Copies(t)) /\ works[t] + Cardinality(Copies(t)) <= 1 + deaths + losses
      BY <2>2 DEF IInv, CopyInv, FewCopies
    <3>2. Cardinality(Copies(t)) \in Nat
      BY <3>1, FS_CardinalityType
    <3> QED
      BY <2>1, <3>1, <3>2
  <2>3. CASE t \notin 1 .. sent
    BY <2>1, <2>3 DEF IInv, CopyInv
  <2> QED
    BY <2>2, <2>3
<1> QED
  BY <1>1, Inductive, PTL

-----------------------------------------------------------------------------
(* The prefetch.                                                           *)

Bounded ==
    ~program.autoAck => \A w \in Workers :
        /\ Cardinality(out[w]) <= program.prefetch[w]
        /\ Cardinality(AtWorker(w)) <= program.prefetch[w]

\* Only a delivery adds to what a worker has.
LEMMA OnlyDeliveriesAdd ==
    ASSUME TypeOK, [Next]_vars, NEW v \in Workers, ~Deliver(v)
    PROVE  out'[v] \subseteq out[v] /\ AtWorker(v)' \subseteq AtWorker(v)
<1> USE DEF TypeOK, AtWorker, broker, working
<1>1. CASE Publish
  BY <1>1 DEF Publish
<1>2. CASE Close
  BY <1>2 DEF Close
<1>3. CASE PublisherDies
  BY <1>3 DEF PublisherDies
<1>4. CASE Accept
  BY <1>4 DEF Accept
<1>5. CASE Expire
  BY <1>5 DEF Expire
<1>6. CASE Flush
  BY <1>6 DEF Flush
<1>7. CASE BrokerRestarts
  BY <1>7 DEF BrokerRestarts
<1>8. ASSUME NEW w \in Workers,
             BrokerStep(w) \/ Start(w) \/ WorkerStep(w) \/ Failure(w)
      PROVE  out'[v] \subseteq out[v] /\ AtWorker(v)' \subseteq AtWorker(v)
  <2>1. CASE Deliver(w)
    BY <2>1 DEF Deliver
  <2>2. CASE AckArrives(w)
    BY <2>2 DEF AckArrives
  <2>3. CASE Start(w)
    BY <2>3 DEF Start
  <2>4. CASE NextDelivery(w)
    BY <2>4 DEF NextDelivery
  <2>5. CASE DoWork(w)
    BY <2>5 DEF DoWork
  <2>6. CASE Acknowledge(w)
    BY <2>6 DEF Acknowledge
  <2>7. CASE MainEnds(w)
    BY <2>7 DEF MainEnds
  <2>8. CASE ConnectionLost(w)
    BY <2>8 DEF ConnectionLost, Requeue
  <2>9. CASE WorkerDies(w)
    BY <2>9 DEF WorkerDies, Requeue
  <2> QED
    BY <1>8, <2>1, <2>2, <2>3, <2>4, <2>5, <2>6, <2>7, <2>8, <2>9
       DEF BrokerStep, WorkerStep, Failure
<1>9. CASE UNCHANGED vars
  BY <1>9 DEF vars
<1> QED
  BY <1>1, <1>2, <1>3, <1>4, <1>5, <1>6, <1>7, <1>8, <1>9 DEF Next

\* A worker never sits on more tasks than it asked for with basicQos, whatever is lost
\* and started again (Worker.java:27, Worker2.java:27).
THEOREM PrefetchCorrect == Spec => []PrefetchBound
<1>1. Init => Bounded
  <2> SUFFICES ASSUME Init, NEW w \in Workers
               PROVE  /\ Cardinality(out[w]) <= program.prefetch[w]
                      /\ Cardinality(AtWorker(w)) <= program.prefetch[w]
    BY DEF Bounded
  <2>1. out[w] = {} /\ AtWorker(w) = {}
    BY DEF Init, AtWorker
  <2>2. program.prefetch[w] \in Nat
    BY TaskQueueAssumption DEF Init
  <2> QED
    BY <2>1, <2>2, FS_EmptySet
<1>2. IInv /\ Bounded /\ [Next]_vars => Bounded'
  <2> SUFFICES ASSUME IInv, Bounded, [Next]_vars, ~program'.autoAck, NEW w \in Workers
               PROVE  /\ Cardinality(out'[w]) <= program'.prefetch[w]
                      /\ Cardinality(AtWorker(w)') <= program'.prefetch[w]
    BY DEF Bounded
  <2>1. IInv'
    BY TypeStep, PlaceStep, LinkStep, DiskStep, CopyStep DEF IInv
  <2>2. program' = program
    BY DEF Next, vars, Publish, Close, PublisherDies, Accept, Expire, Flush, BrokerRestarts,
           BrokerStep, WorkerStep, Failure, Deliver, AckArrives, Start, NextDelivery, DoWork,
           Acknowledge, MainEnds, ConnectionLost, WorkerDies
  <2>3. /\ IsFiniteSet(out[w]) /\ IsFiniteSet(AtWorker(w)) /\ IsFiniteSet(out'[w])
        /\ Cardinality(out[w]) \in Nat /\ Cardinality(AtWorker(w)) \in Nat
        /\ Cardinality(out'[w]) \in Nat /\ Cardinality(AtWorker(w)') \in Nat
        /\ program.prefetch[w] \in Nat
    <3>1. /\ out[w] \subseteq 1 .. sent /\ AtWorker(w) \subseteq 1 .. sent
          /\ out'[w] \subseteq 1 .. sent' /\ AtWorker(w)' \subseteq 1 .. sent'
      BY <2>1 DEF IInv, TypeOK, AtWorker, None
    <3>2. IsFiniteSet(1 .. sent) /\ IsFiniteSet(1 .. sent')
      BY <2>1, FS_Interval, TaskQueueAssumption DEF IInv, TypeOK
    <3>3. IsFiniteSet(AtWorker(w)')
      BY <3>1, <3>2, FS_Subset
    <3> QED
      BY <3>1, <3>2, <3>3, FS_Subset, FS_CardinalityType, TaskQueueAssumption DEF IInv, TypeOK
  <2>4. CASE Deliver(w)
    <3>1. PICK t \in queue : out' = [out EXCEPT ![w] = @ \cup {t}]
      BY <2>2, <2>4 DEF Deliver
    <3>2. Cardinality(out[w]) < program.prefetch[w]
      BY <2>2, <2>4 DEF Deliver
    <3>3. out'[w] = out[w] \cup {t} /\ t \notin out[w]
      BY <3>1 DEF IInv, TypeOK, OnePlace
    <3>4. Cardinality(out'[w]) = Cardinality(out[w]) + 1
      BY <2>3, <3>3, FS_AddElement
    <3>5. connected'[w]
      BY <2>4 DEF Deliver, link
    <3>6. AtWorker(w)' \subseteq out'[w]
      BY <2>1, <3>5 DEF IInv, LinkInv, LinkOf
    <3>7. Cardinality(AtWorker(w)') <= Cardinality(out'[w])
      BY <2>3, <3>6, FS_Subset
    <3> QED
      BY <2>2, <2>3, <3>2, <3>4, <3>7
  <2>5. CASE ~Deliver(w)
    <3>1. out'[w] \subseteq out[w] /\ AtWorker(w)' \subseteq AtWorker(w)
      BY <2>5, OnlyDeliveriesAdd DEF IInv
    <3>2. /\ Cardinality(out'[w]) <= Cardinality(out[w])
          /\ Cardinality(AtWorker(w)') <= Cardinality(AtWorker(w))
      BY <2>3, <3>1, FS_Subset
    <3> QED
      BY <2>2, <2>3, <3>2 DEF Bounded
  <2> QED
    BY <2>4, <2>5
<1>3. Bounded => PrefetchBound
  BY DEF Bounded, PrefetchBound
<1> QED
  BY <1>1, <1>2, <1>3, Inductive, PTL DEF Spec

-----------------------------------------------------------------------------
(* The refinement of TaskPromise.                                          *)

\* A step that moves no task beyond what holds it changes nothing of the promise.
LEMMA KeptFrame ==
    ASSUME program' = program, works' = works, stored' = stored,
           Held' \cap stored = Held \cap stored,
           program.autoAck => \A w \in Workers : AtWorker(w)' = AtWorker(w)
    PROVE  Kept' = Kept /\ Worked' = Worked
BY DEF Kept, Worked, Tasks

\* Every step maps to a step of the promise, or to none.
LEMMA PromiseStep ==
    ASSUME IInv, [Next]_vars
    PROVE  [Promise!Store \/ Promise!Drop \/ Promise!Work]_(Promise!promised)
<1> DEFINE Same == program' = program /\ Kept' = Kept /\ Worked' = Worked
           Goal == [Promise!Store \/ Promise!Drop \/ Promise!Work]_(Promise!promised)
<1>0. Same => Goal
  BY DEF Promise!promised
<1> DEFINE Quiet == UNCHANGED <<program, delay, queue, out, stored, pc, buffer, hand, works>>
<1> SUFFICES Goal
  OBVIOUS
<1>10. Quiet => Goal
  <2> SUFFICES ASSUME Quiet PROVE Same
    BY <1>0
  <2>1. Held' = Held /\ \A w \in Workers : AtWorker(w)' = AtWorker(w)
    BY DEF Held, AtWorker
  <2> QED
    BY <2>1, KeptFrame
<1> HIDE DEF Same, Goal, Quiet
<1> USE DEF IInv
<1>1. CASE Publish
  <2>1. UNCHANGED <<program, delay, queue, out, stored, pc, buffer, hand, works>>
    BY <1>1 DEF Publish, broker, working
  <2> QED
    BY <2>1, <1>10 DEF Quiet
<1>2. CASE Close
  <2>1. UNCHANGED <<program, delay, queue, out, stored, pc, buffer, hand, works>>
    BY <1>2 DEF Close, broker, working
  <2> QED
    BY <2>1, <1>10 DEF Quiet
<1>3. CASE PublisherDies
  <2>1. UNCHANGED <<program, delay, queue, out, stored, pc, buffer, hand, works>>
    BY <1>3 DEF PublisherDies, broker, working
  <2> QED
    BY <2>1, <1>10 DEF Quiet
<1>4. CASE Accept
  <2>1. PICK t \in wire : Held' = Held \cup {t}
    BY <1>4 DEF Accept, First, Held
  <2>2. t \notin stored
    BY DEF OnePlace
  <2>3. UNCHANGED <<program, stored, pc, buffer, hand, works>>
    BY <1>4 DEF Accept, working
  <2>4. \A w \in Workers : AtWorker(w)' = AtWorker(w)
    BY <2>3 DEF AtWorker
  <2> QED
    BY <1>0, <2>1, <2>2, <2>3, <2>4, KeptFrame DEF Same
<1>5. CASE Expire
  <2>1. Held' = Held
    BY <1>5 DEF Expire, First, Held
  <2>2. UNCHANGED <<program, stored, pc, buffer, hand, works>>
    BY <1>5 DEF Expire, working
  <2>3. \A w \in Workers : AtWorker(w)' = AtWorker(w)
    BY <2>2 DEF AtWorker
  <2> QED
    BY <1>0, <2>1, <2>2, <2>3, KeptFrame DEF Same
<1>6. CASE Flush
  <2>1. program' = program /\ Held' = Held /\ stored \subseteq stored' /\ works' = works
    BY <1>6 DEF Flush, Held, working
  <2>2. \A w \in Workers : AtWorker(w)' = AtWorker(w)
    BY <1>6 DEF Flush, working, AtWorker
  <2>3. Kept \subseteq Kept' /\ Worked' = Worked
    BY <2>1, <2>2 DEF Kept, Worked, Tasks
  <2> QED
    BY <2>1, <2>3 DEF Goal, Promise!Store
<1>7. CASE BrokerRestarts
  <2>1. /\ program' = program /\ stored' = stored /\ works' = works
        /\ Held' = disk.delay \cup disk.queue
    BY <1>7 DEF BrokerRestarts, Held, working
  <2>2. \A w \in Workers : AtWorker(w)' = AtWorker(w)
    BY <1>7 DEF BrokerRestarts, working, AtWorker
  <2>3. stored \cap Held \subseteq Held'
    BY <2>1 DEF DiskInv
  <2>4. Kept \subseteq Kept' /\ Worked' = Worked
    BY <2>1, <2>2, <2>3 DEF Kept, Worked, Tasks
  <2> QED
    BY <2>1, <2>4 DEF Goal, Promise!Store
<1>8. ASSUME NEW w \in Workers,
             BrokerStep(w) \/ Start(w) \/ WorkerStep(w) \/ Failure(w)
      PROVE  Goal
  <2>1. CASE Deliver(w)
    <3>1. PICK t \in queue : /\ queue' = queue \ {t}
                             /\ buffer' = [buffer EXCEPT ![w] = @ \cup {t}]
                             /\ IF program.autoAck THEN out' = out
                                ELSE out' = [out EXCEPT ![w] = @ \cup {t}]
      BY <2>1 DEF Deliver
    <3>2. UNCHANGED <<program, delay, stored, pc, hand, works>>
      BY <2>1 DEF Deliver
    <3>3. /\ t \in AtWorker(w)'
          /\ \A v \in Workers : AtWorker(v) \subseteq AtWorker(v)'
          /\ \A v \in Workers : AtWorker(v)' \subseteq AtWorker(v) \cup {t}
      BY <3>1, <3>2 DEF AtWorker, TypeOK
    <3>4. /\ t \in Held /\ Held' \subseteq Held /\ Held \subseteq Held' \cup {t}
          /\ program.autoAck \/ t \in Held'
      BY <3>1, <3>2 DEF Held, TypeOK
    <3>5. Kept' = Kept /\ Worked' = Worked
      BY <3>2, <3>3, <3>4 DEF Kept, Worked, Tasks
    <3> QED
      BY <1>0, <3>2, <3>5 DEF Same
  <2>2. CASE AckArrives(w)
    <3>1. PICK t \in acks[w] : out' = [out EXCEPT ![w] = @ \ {t}]
      BY <2>2 DEF AckArrives
    <3>2. UNCHANGED <<program, delay, queue, stored, pc, buffer, hand, works>>
      BY <2>2 DEF AckArrives, working
    <3>3. works[t] > 0
      BY <3>1 DEF LinkInv, LinkOf
    <3>4. Held' \subseteq Held /\ Held \subseteq Held' \cup {t}
      BY <3>1, <3>2 DEF Held, TypeOK
    <3>5. \A v \in Workers : AtWorker(v)' = AtWorker(v)
      BY <3>2 DEF AtWorker
    <3>6. Kept' = Kept /\ Worked' = Worked
      BY <3>2, <3>3, <3>4, <3>5 DEF Kept, Worked, Tasks
    <3> QED
      BY <1>0, <3>2, <3>6 DEF Same
  <2>3. CASE Start(w)
    <3>1. \A v \in Workers : AtWorker(v)' = AtWorker(v)
      BY <2>3 DEF Start, AtWorker, TypeOK
    <3> QED
      BY <2>3, <1>0, <3>1, KeptFrame DEF Start, broker, Held, Same
  <2>4. CASE NextDelivery(w)
    <3>1. \A v \in Workers : AtWorker(v)' = AtWorker(v)
      BY <2>4 DEF NextDelivery, AtWorker, TypeOK
    <3> QED
      BY <2>4, <1>0, <3>1, KeptFrame DEF NextDelivery, broker, Held, Same
  <2>5. CASE DoWork(w)
    <3>1. UNCHANGED <<program, delay, queue, out, stored, buffer, hand>>
      BY <2>5 DEF DoWork, broker
    <3>2. program.tasks \in Nat /\ sent \in 0 .. program.tasks
      BY TaskQueueAssumption DEF TypeOK
    <3>3. hand[w] \in 0 .. sent /\ hand[w] # 0
      BY <2>5 DEF DoWork, TypeOK, None
    <3>4. hand[w] \in Tasks
      BY <3>2, <3>3 DEF Tasks
    <3>5. works'[hand[w]] > 0 /\ \A t \in Tasks \ {hand[w]} : works'[t] = works[t]
      BY <2>5, <3>4 DEF DoWork, TypeOK
    <3>6. /\ \A v \in Workers : AtWorker(v) \subseteq AtWorker(v)' \cup {hand[w]}
          /\ \A v \in Workers : AtWorker(v)' \subseteq AtWorker(v)
      BY <2>5, <3>1 DEF DoWork, AtWorker, TypeOK
    <3>7. stored \subseteq Tasks
      BY <3>2 DEF TypeOK, Tasks
    <3>8. Held' = Held /\ Tasks' = Tasks
      BY <3>1 DEF Held, Tasks
    <3>9. Kept' = Kept \ {hand[w]}
      BY <3>1, <3>5, <3>6, <3>7, <3>8 DEF Kept
    <3>10. Worked' = Worked \cup {hand[w]}
      BY <3>4, <3>5, <3>8 DEF Worked
    <3> QED
      BY <3>1, <3>9, <3>10 DEF Goal, Promise!Work
  <2>6. CASE Acknowledge(w)
    <3>1. \A v \in Workers : AtWorker(v)' = AtWorker(v)
      BY <2>6 DEF Acknowledge, AtWorker, TypeOK
    <3> QED
      BY <2>6, <1>0, <3>1, KeptFrame DEF Acknowledge, broker, Held, Same
  <2>7. CASE MainEnds(w)
    <3>1. program.autoAck => \A v \in Workers : AtWorker(v)' = AtWorker(v)
      BY <2>7 DEF MainEnds, AtWorker, TypeOK
    <3> QED
      BY <2>7, <1>0, <3>1, KeptFrame DEF MainEnds, broker, Held, Same
  <2>8. CASE ConnectionLost(w)
    <3>1. PICK arrived \in SUBSET acks[w] :
             queue' = queue \cup (out[w] \ arrived) /\ out' = [out EXCEPT ![w] = {}]
      BY <2>8 DEF ConnectionLost, Requeue
    <3>2. UNCHANGED <<program, delay, stored, pc, buffer, hand, works>>
      BY <2>8 DEF ConnectionLost, working
    <3>3. \A t \in arrived : works[t] > 0
      BY <3>1 DEF LinkInv, LinkOf
    <3>4. Held' \subseteq Held /\ Held \subseteq Held' \cup arrived
      BY <3>1, <3>2 DEF Held, TypeOK
    <3>5. \A v \in Workers : AtWorker(v)' = AtWorker(v)
      BY <3>2 DEF AtWorker
    <3>6. Kept' = Kept /\ Worked' = Worked
      BY <3>2, <3>3, <3>4, <3>5 DEF Kept, Worked, Tasks
    <3> QED
      BY <1>0, <3>2, <3>6 DEF Same
  <2>9. CASE WorkerDies(w)
    <3>1. PICK arrived \in SUBSET acks[w] :
             queue' = queue \cup (out[w] \ arrived) /\ out' = [out EXCEPT ![w] = {}]
      BY <2>9 DEF WorkerDies, Requeue
    <3>2. UNCHANGED <<program, delay, stored, works>>
      BY <2>9 DEF WorkerDies
    <3>3. \A t \in arrived : works[t] > 0
      BY <3>1 DEF LinkInv, LinkOf
    <3>4. Held' \subseteq Held /\ Held \subseteq Held' \cup arrived
      BY <3>1, <3>2 DEF Held, TypeOK
    <3>5. \A v \in Workers : AtWorker(v)' \subseteq AtWorker(v)
      BY <2>9 DEF WorkerDies, AtWorker, TypeOK
    <3>6. Kept' \subseteq Kept /\ Worked' = Worked
      BY <3>2, <3>4, <3>5 DEF Kept, Worked, Tasks
    <3>7. ~program.autoAck => Kept' = Kept
      BY <3>2, <3>3, <3>4 DEF Kept
    <3>8. CASE program.autoAck
      BY <3>2, <3>6, <3>8 DEF Goal, Promise!Drop
    <3>9. CASE ~program.autoAck
      BY <1>0, <3>2, <3>6, <3>7, <3>9 DEF Same
    <3> QED
      BY <3>8, <3>9
  <2> QED
    BY <1>8, <2>1, <2>2, <2>3, <2>4, <2>5, <2>6, <2>7, <2>8, <2>9
       DEF BrokerStep, WorkerStep, Failure
<1>9. CASE UNCHANGED vars
  <2>1. UNCHANGED <<program, delay, queue, out, stored, pc, buffer, hand, works>>
    BY <1>9 DEF vars, broker, working
  <2> QED
    BY <2>1, <1>10 DEF Quiet
<1> QED
  BY <1>1, <1>2, <1>3, <1>4, <1>5, <1>6, <1>7, <1>8, <1>9 DEF Next, Goal

\* The programs implement the promise: what is stored is worked on before it is given
\* up where the workers acknowledge, and dropped only where they do not.
THEOREM Refinement == Spec => ImplementsPromise
<1>1. Init => Promise!PromiseInit
  <2> SUFFICES ASSUME Init PROVE Promise!PromiseInit
    OBVIOUS
  <2>1. Kept = {} /\ Worked = {}
    BY DEF Init, Kept, Worked
  <2>2. (~program.autoAck) \in BOOLEAN
    OBVIOUS
  <2> QED
    BY <2>1, <2>2 DEF Promise!PromiseInit
<1>2. IInv /\ [Next]_vars =>
         [Promise!Store \/ Promise!Drop \/ Promise!Work]_(Promise!promised)
  BY PromiseStep
<1> QED
  BY <1>1, <1>2, Inductive, PTL DEF Spec, ImplementsPromise, Promise!PromiseSpec
=============================================================================
