----------------------------- MODULE TaskQueue ------------------------------
(***************************************************************************)
(* The task queues of Util/mom: lesson2 (NewTask, Worker, Worker2), whose  *)
(* workers acknowledge a task when it is done, and delayqueue (DelayQueue, *)
(* Consumer), where a task waits in DELAY_QUEUE, is dead-lettered into     *)
(* MAIN_QUEUE and is acknowledged by its delivery.                         *)
(*                                                                         *)
(* The broker (RabbitMQ) and its client library are external.  Tasks are   *)
(* numbered as they are published; the broker takes them from a queue in   *)
(* that order, and puts a task back where it was.  Which of the deliveries *)
(* on its way to a worker that worker takes next is left open.             *)
(***************************************************************************)
EXTENDS Integers, FiniteSets

CONSTANTS Workers,    \* the processes that consume
          Programs,   \* [tasks, delayed, autoAck, prefetch]: what is run
          MaxLosses   \* bound: processes and connections lost

ASSUME TaskQueueAssumption ==
    \A p \in Programs :
        /\ p.tasks \in Nat
        /\ p.prefetch \in [Workers -> Nat]

VARIABLES
    program,   \* the one of Programs that is run
    publisher, \* "running", "closed" (main has returned) or "died"
    sent,      \* the tasks published so far
    wire,      \* those of them that the broker has not got yet
    delay,     \* DELAY_QUEUE
    queue,     \* task_queue or MAIN_QUEUE
    out,       \* per worker, the deliveries that the broker wants acknowledged
    disk,      \* the two queues as the broker last wrote them to its disk
    pc,        \* per worker, where its main is
    connected, \* whether its connection lives
    buffer,    \* the deliveries it has not looked at yet
    hand,      \* the one it works on
    acks,      \* the acknowledgements on their way to the broker
    works,     \* how often a task has been worked on (history)
    stored,    \* the tasks that have ever been on the disk (history)
    deaths,    \* the workers that died (history)
    losses     \* and everything else that was lost (history)

publishing == <<publisher, sent, wire>>
broker == <<delay, queue, out, disk, stored>>
working == <<pc, buffer, hand, works>>
link == <<connected, acks>>
failures == <<deaths, losses>>
vars == <<program, publishing, broker, working, link, failures>>

Tasks == 1 .. program.tasks
None == 0

First(t, tasks) == t \in tasks /\ \A u \in tasks : t <= u

\* What the broker answers for.
Held == delay \cup queue \cup UNION {out[w] : w \in Workers}

Init ==
    /\ program \in Programs
    /\ publisher = "running"
    /\ sent = 0
    /\ wire = {}
    /\ delay = {}
    /\ queue = {}
    /\ out = [w \in Workers |-> {}]
    /\ disk = [delay |-> {}, queue |-> {}]
    /\ pc = [w \in Workers |-> "down"]
    /\ connected = [w \in Workers |-> FALSE]
    /\ buffer = [w \in Workers |-> {}]
    /\ hand = [w \in Workers |-> None]
    /\ acks = [w \in Workers |-> {}]
    /\ works = [t \in Tasks |-> 0]
    /\ stored = {}
    /\ deaths = 0
    /\ losses = 0

-----------------------------------------------------------------------------
(* NewTask.main and DelayQueue.main.                                       *)

\* A loop that does not count what it has published.
MutPublish ==
    /\ publisher = "running"
    /\ sent < program.tasks
    /\ wire' = wire \cup {sent + 1}
    /\ UNCHANGED <<program, publisher, sent, broker, working, link, failures>>

\* basicPublish only hands the task to the connection.
Publish ==
    /\ publisher = "running"
    /\ sent < program.tasks
    /\ sent' = sent + 1
    /\ wire' = wire \cup {sent + 1}
    /\ UNCHANGED <<program, publisher, broker, working, link, failures>>

\* A close that does not wait for the broker.
MutClose ==
    /\ publisher = "running"
    /\ sent = program.tasks
    /\ publisher' = "closed"
    /\ wire' = {}
    /\ UNCHANGED <<program, sent, broker, working, link, failures>>

\* channel.close() waits until the broker has got everything before it.
Close ==
    /\ publisher = "running"
    /\ sent = program.tasks
    /\ wire = {}
    /\ publisher' = "closed"
    /\ UNCHANGED <<program, sent, wire, broker, working, link, failures>>

\* Of what is on its way the broker may still get the first tasks.
PublisherDies ==
    /\ publisher = "running"
    /\ deaths + losses < MaxLosses
    /\ publisher' = "died"
    /\ \E last \in 0 .. sent : wire' = {t \in wire : t <= last}
    /\ losses' = losses + 1
    /\ UNCHANGED <<program, sent, broker, working, link, deaths>>

-----------------------------------------------------------------------------
(* The broker.                                                             *)

\* The default exchange, into DELAY_QUEUE or task_queue.
Accept ==
    /\ \E t \in wire :
          /\ First(t, wire)
          /\ wire' = wire \ {t}
          /\ IF program.delayed
             THEN delay' = delay \cup {t} /\ UNCHANGED queue
             ELSE queue' = queue \cup {t} /\ UNCHANGED delay
    /\ UNCHANGED <<program, publisher, sent, out, disk, stored, working, link, failures>>

\* x-dead-letter-exchange, x-dead-letter-routing-key: from DELAY_QUEUE into MAIN_QUEUE
\* when the expiration of the first task has passed.
Expire ==
    /\ \E t \in delay :
          /\ First(t, delay)
          /\ delay' = delay \ {t}
          /\ queue' = queue \cup {t}
    /\ UNCHANGED <<program, publishing, out, disk, stored, working, link, failures>>

\* Durable queues, persistent messages: the broker writes them in a moment of its own.
Flush ==
    /\ disk' = [delay |-> delay, queue |-> queue \cup UNION {out[w] : w \in Workers}]
    /\ stored' = stored \cup Held
    /\ UNCHANGED <<program, publishing, delay, queue, out, working, link, failures>>

\* Deliveries without basicQos.
MutDeliver(w) ==
    /\ connected[w]
    /\ \E t \in queue :
          /\ First(t, queue)
          /\ queue' = queue \ {t}
          /\ buffer' = [buffer EXCEPT ![w] = @ \cup {t}]
          /\ out' = IF program.autoAck THEN out ELSE [out EXCEPT ![w] = @ \cup {t}]
    /\ UNCHANGED <<program, publishing, delay, disk, stored, pc, hand, works, link, failures>>

\* basicQos: so many deliveries may be unacknowledged; none are with automatic
\* acknowledgement, where the broker forgets the task.
Deliver(w) ==
    /\ connected[w]
    /\ \E t \in queue :
          /\ First(t, queue)
          /\ queue' = queue \ {t}
          /\ buffer' = [buffer EXCEPT ![w] = @ \cup {t}]
          /\ IF program.autoAck THEN UNCHANGED out
             ELSE /\ Cardinality(out[w]) < program.prefetch[w]
                  /\ out' = [out EXCEPT ![w] = @ \cup {t}]
    /\ UNCHANGED <<program, publishing, delay, disk, stored, pc, hand, works, link, failures>>

AckArrives(w) ==
    /\ \E t \in acks[w] :
          /\ acks' = [acks EXCEPT ![w] = @ \ {t}]
          /\ out' = [out EXCEPT ![w] = @ \ {t}]
    /\ UNCHANGED <<program, publishing, delay, queue, disk, stored, working, connected, failures>>

-----------------------------------------------------------------------------
(* Worker.main, Worker2.main and Consumer.main.                            *)

Start(w) ==
    /\ pc[w] = "down"
    /\ pc' = [pc EXCEPT ![w] = "waiting"]
    /\ connected' = [connected EXCEPT ![w] = TRUE]
    /\ UNCHANGED <<program, publishing, broker, buffer, hand, works, acks, failures>>

\* A delivery that is looked at and not taken.
MutNextDelivery(w) ==
    /\ pc[w] = "waiting"
    /\ \E t \in buffer[w] : hand' = [hand EXCEPT ![w] = t]
    /\ pc' = [pc EXCEPT ![w] = "received"]
    /\ UNCHANGED <<program, publishing, broker, buffer, works, link, failures>>

NextDelivery(w) ==
    /\ pc[w] = "waiting"
    /\ \E t \in buffer[w] :
          /\ buffer' = [buffer EXCEPT ![w] = @ \ {t}]
          /\ hand' = [hand EXCEPT ![w] = t]
    /\ pc' = [pc EXCEPT ![w] = "received"]
    /\ UNCHANGED <<program, publishing, broker, works, link, failures>>

DoWork(w) ==
    /\ pc[w] = "received"
    /\ works' = [works EXCEPT ![hand[w]] = @ + 1]
    /\ pc' = [pc EXCEPT ![w] = "worked"]
    /\ UNCHANGED <<program, publishing, broker, buffer, hand, link, failures>>

\* The task is acknowledged before it is worked on.
MutAcknowledge(w) ==
    /\ pc[w] = "received"
    /\ connected[w] /\ hand[w] \notin acks[w] /\ ~program.autoAck
    /\ acks' = [acks EXCEPT ![w] = @ \cup {hand[w]}]
    /\ UNCHANGED <<program, publishing, broker, working, connected, failures>>

\* basicAck, the last statement of the loop; Consumer has none.
Acknowledge(w) ==
    /\ pc[w] = "worked"
    /\ connected[w] \/ program.autoAck
    /\ acks' = [acks EXCEPT ![w] = IF program.autoAck THEN @ ELSE @ \cup {hand[w]}]
    /\ pc' = [pc EXCEPT ![w] = "waiting"]
    /\ hand' = [hand EXCEPT ![w] = None]
    /\ UNCHANGED <<program, publishing, broker, buffer, works, connected, failures>>

\* On a connection that is lost basicAck throws, and nextDelivery when the deliveries
\* that had arrived are used up: main ends.
MainEnds(w) ==
    /\ ~connected[w]
    /\ \/ pc[w] = "worked" /\ ~program.autoAck
       \/ pc[w] = "waiting" /\ buffer[w] = {}
    /\ pc' = [pc EXCEPT ![w] = "down"]
    /\ buffer' = [buffer EXCEPT ![w] = {}]
    /\ hand' = [hand EXCEPT ![w] = None]
    /\ UNCHANGED <<program, publishing, broker, works, link, failures>>

-----------------------------------------------------------------------------
(* Failures.                                                               *)

\* Acknowledgements that outlive their connection.
MutRequeue(w, arrived) ==
    /\ queue' = queue \cup (out[w] \ arrived)
    /\ out' = [out EXCEPT ![w] = {}]
    /\ acks' = acks
    /\ connected' = [connected EXCEPT ![w] = FALSE]

\* The broker puts back what a lost connection has not acknowledged; some of the
\* acknowledgements on their way may reach it first.
Requeue(w, arrived) ==
    /\ queue' = queue \cup (out[w] \ arrived)
    /\ out' = [out EXCEPT ![w] = {}]
    /\ acks' = [acks EXCEPT ![w] = {}]
    /\ connected' = [connected EXCEPT ![w] = FALSE]

ConnectionLost(w) ==
    /\ connected[w]
    /\ deaths + losses < MaxLosses
    /\ \E arrived \in SUBSET acks[w] : Requeue(w, arrived)
    /\ losses' = losses + 1
    /\ UNCHANGED <<program, publishing, delay, disk, stored, working, deaths>>

\* A worker that dies without the broker noticing.
MutWorkerDies(w) ==
    /\ pc[w] # "down"
    /\ deaths + losses < MaxLosses
    /\ out' = [out EXCEPT ![w] = {}]
    /\ acks' = [acks EXCEPT ![w] = {}]
    /\ connected' = [connected EXCEPT ![w] = FALSE]
    /\ pc' = [pc EXCEPT ![w] = "down"]
    /\ buffer' = [buffer EXCEPT ![w] = {}]
    /\ hand' = [hand EXCEPT ![w] = None]
    /\ deaths' = deaths + 1
    /\ UNCHANGED <<program, publishing, delay, queue, disk, stored, works, losses>>

\* The process of a worker dies, and its connection with it.
WorkerDies(w) ==
    /\ pc[w] # "down"
    /\ deaths + losses < MaxLosses
    /\ \E arrived \in SUBSET acks[w] : Requeue(w, arrived)
    /\ pc' = [pc EXCEPT ![w] = "down"]
    /\ buffer' = [buffer EXCEPT ![w] = {}]
    /\ hand' = [hand EXCEPT ![w] = None]
    /\ deaths' = deaths + 1
    /\ UNCHANGED <<program, publishing, delay, disk, stored, works, losses>>

\* The broker restarts with what it has on its disk; all connections are lost.
BrokerRestarts ==
    /\ deaths + losses < MaxLosses
    /\ delay' = disk.delay
    /\ queue' = disk.queue
    /\ out' = [w \in Workers |-> {}]
    /\ acks' = [w \in Workers |-> {}]
    /\ connected' = [w \in Workers |-> FALSE]
    /\ publisher' = IF publisher = "running" THEN "died" ELSE publisher
    /\ wire' = {}
    /\ losses' = losses + 1
    /\ UNCHANGED <<program, sent, disk, stored, working, deaths>>

-----------------------------------------------------------------------------
BrokerStep(w) == Deliver(w) \/ AckArrives(w)
WorkerStep(w) == NextDelivery(w) \/ DoWork(w) \/ Acknowledge(w) \/ MainEnds(w)
Failure(w) == ConnectionLost(w) \/ WorkerDies(w)

Next ==
    \/ Publish \/ Close \/ PublisherDies
    \/ Accept \/ Expire \/ Flush \/ BrokerRestarts
    \/ \E w \in Workers : BrokerStep(w) \/ Start(w) \/ WorkerStep(w) \/ Failure(w)

Spec == Init /\ [][Next]_vars

\* The broker and the processes that run keep working; nobody has to start a worker.
Fairness ==
    /\ WF_vars(Accept) /\ WF_vars(Expire) /\ WF_vars(Publish \/ Close)
    /\ \A w \in Workers : WF_vars(Deliver(w)) /\ WF_vars(AckArrives(w)) /\ WF_vars(WorkerStep(w))

FairSpec == Spec /\ Fairness

-----------------------------------------------------------------------------
(* Properties.                                                             *)

\* Type correctness; and a worker that is not running holds nothing.
TypeOK ==
    /\ program \in Programs
    /\ publisher \in {"running", "closed", "died"}
    /\ sent \in 0 .. program.tasks
    /\ wire \subseteq 1 .. sent
    /\ delay \cup queue \cup stored \subseteq 1 .. sent
    /\ disk \in [delay : SUBSET stored, queue : SUBSET stored]
    /\ out \in [Workers -> SUBSET (1 .. sent)]
    /\ buffer \in [Workers -> SUBSET (1 .. sent)]
    /\ acks \in [Workers -> SUBSET (1 .. sent)]
    /\ hand \in [Workers -> 0 .. sent]
    /\ pc \in [Workers -> {"down", "waiting", "received", "worked"}]
    /\ connected \in [Workers -> BOOLEAN]
    /\ works \in [Tasks -> Nat]
    /\ deaths \in Nat /\ losses \in Nat
    /\ \A w \in Workers :
          /\ hand[w] = None <=> pc[w] \in {"down", "waiting"}
          /\ pc[w] = "down" => buffer[w] = {} /\ ~connected[w]

AtWorker(w) == buffer[w] \cup (IF pc[w] = "received" THEN {hand[w]} ELSE {})

\* basicQos: a worker never sits on more tasks than it asked for, even when it has
\* acknowledgements on their way and connections are lost (Worker.java:27,
\* Worker2.java:27).  With automatic acknowledgement nothing bounds it.
PrefetchBound ==
    ~program.autoAck => \A w \in Workers : Cardinality(AtWorker(w)) <= program.prefetch[w]

\* A task is worked on again only where a connection, a process or the broker was lost:
\* never by two workers at once without that, and once more per loss at the most.
RedoneOnlyAfterLoss ==
    \A t \in Tasks : works[t] <= 1 + deaths + losses

\* A task is at the broker or has been worked on; with automatic acknowledgement it may
\* also be with a worker, or have been with one that died.
Accounted(t) ==
    \/ t \in Held
    \/ works[t] > 0
    \/ program.autoAck /\ (deaths > 0 \/ \E w \in Workers : t \in AtWorker(w))

\* No task is forgotten that is stored on the broker's disk, or that was published by
\* a main that returned from channel.close() while no broker failed: it is at the
\* broker or has been worked on.  With automatic acknowledgement it may also be with a
\* worker, and gone when a worker died (Consumer.java:30).
NothingForgotten ==
    \A t \in Tasks :
        t \in stored \/ (publisher = "closed" /\ losses = 0) => Accounted(t)

\* While a worker is connected, every stored task is worked on in the end, unless a
\* worker died with it in automatic acknowledgement.
EveryTaskIsWorked ==
    \A t \in UNION {1 .. p.tasks : p \in Programs} :
        t \in stored ~>
            \/ t \in Tasks /\ works[t] > 0
            \/ \A w \in Workers : ~connected[w]
            \/ program.autoAck /\ deaths > 0

\* The stored tasks that are still to be worked on, wherever they are.
Kept ==
    {t \in stored :
        /\ works[t] = 0
        /\ t \in Held \/ (program.autoAck /\ \E w \in Workers : t \in AtWorker(w))}

Worked == {t \in Tasks : works[t] > 0}

\* The programs implement the promise of TaskPromise: with acknowledgements no stored
\* task is given up before it has been worked on.
Promise == INSTANCE TaskPromise WITH
    acknowledged <- ~program.autoAck,
    kept <- Kept,
    worked <- Worked

ImplementsPromise == Promise!PromiseSpec

-----------------------------------------------------------------------------
(* Why they hold.  A task is in one place at the broker; what a worker     *)
(* holds is out with it while its connection lives, and what it has        *)
(* acknowledged is worked on; what has been stored and is held is on the   *)
(* disk still; and each time a task is worked on takes a copy of it, of    *)
(* which only a loss makes one more.                                       *)

OnePlace ==
    /\ wire \cap (Held \cup stored) = {}
    /\ delay \cap queue = {}
    /\ disk.delay \cap disk.queue = {}
    /\ \A w \in Workers : out[w] \cap (delay \cup queue) = {}
    /\ \A v, w \in Workers : v # w => out[v] \cap out[w] = {}

InHand(w) == IF pc[w] = "worked" THEN {hand[w]} ELSE {}

LinkOf(w) ==
    /\ acks[w] \subseteq out[w]
    /\ ~connected[w] => out[w] = {}
    /\ program.autoAck => out[w] = {}
    /\ ~program.autoAck /\ connected[w] =>
          /\ AtWorker(w) \cup InHand(w) \subseteq out[w] \ acks[w]
          /\ hand[w] \notin buffer[w]
    /\ \A t \in acks[w] \cup InHand(w) : works[t] > 0

LinkInv == \A w \in Workers : LinkOf(w)

DiskInv ==
    /\ stored \cap Held \subseteq disk.delay \cup disk.queue
    /\ \A t \in stored : Accounted(t)
    /\ publisher # "died" /\ losses = 0 => \A t \in 1 .. sent : t \in wire \/ Accounted(t)
    /\ publisher = "closed" => wire = {} /\ sent = program.tasks

\* Where t is yet to be worked on: at the broker, in what a worker has not looked at, in
\* its hand.
Copies(t) ==
    {c \in {"broker"} \X {None} : t \in wire \cup delay \cup queue}
    \cup {c \in {"buffer"} \X Workers : t \in buffer[c[2]]}
    \cup {c \in {"hand"} \X Workers : pc[c[2]] = "received" /\ hand[c[2]] = t}

FewCopies(t) ==
    /\ IsFiniteSet(Copies(t))
    /\ works[t] + Cardinality(Copies(t)) <= 1 + deaths + losses

CopyInv ==
    /\ \A t \in 1 .. sent : FewCopies(t)
    /\ \A t \in Tasks \ (1 .. sent) : works[t] = 0

IInv == TypeOK /\ OnePlace /\ LinkInv /\ DiskInv /\ CopyInv
=============================================================================
