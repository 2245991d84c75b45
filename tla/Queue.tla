------------------------------- MODULE Queue -------------------------------
(***************************************************************************)
(* The message queues of arduino-osh (queue.c), the tasks that use them    *)
(* and the interrupts that send to them, on top of the scheduler.  As with *)
(* a mutex, a task's call is the service call, in which it may wait, and   *)
(* its return into the task.                                               *)
(*                                                                         *)
(* An interrupt comes at any moment outside the handlers, also after       *)
(* SysTick has chosen a task and before PendSV has switched to it: the     *)
(* task the interrupt wakes then takes the other's place.                  *)
(***************************************************************************)
EXTENDS Handlers

CONSTANTS
    Timeouts,   \* the timeouts of os_queue_enqueue and os_queue_dequeue
    Size,       \* of each queue's ring of messages
    QueueOnly,  \* the queues with OS_QUEUE_FLAGS_QUEUE_ONLY
    DeviceMessages  \* the messages interrupts send; tasks send the others

ASSUME AllQueues == \A o \in Objects : Kind[o] = "queue"
ASSUME TimeoutsAssumption == Timeouts \subseteq 0 .. Forever
ASSUME SizeAssumption == Size \in Nat \ {0}
ASSUME QueueOnlyAssumption == QueueOnly \subseteq Objects
ASSUME DevicesAssumption == DeviceMessages \subseteq Messages

VARIABLES
    queue,    \* queue[o]: the ring and what the list of blocked tasks is for
    message,  \* message[t]: task->c.message
    calling   \* calling[t]: the call t is inside of

vars == <<osg, queue, message, calling>>

Call == [op: {"enqueue", "dequeue"}, queue: Objects]

ASSUME NoCallAssumption == None \notin Call \cup Return

\* osi_queue_create
Created ==
    [first |-> 0, last |-> 0, number |-> 0, status |-> "FINE",
     messages |-> [i \in 0 .. Size - 1 |-> None]]

Init ==
    /\ Zeroed
    /\ queue = [o \in Objects |-> Created]
    /\ message = [t \in Tasks |-> None]
    /\ calling = [t \in Tasks |-> None]

(***************************************************************************)
(* Steps of the scheduler and calls that do not concern a queue.           *)
(***************************************************************************)
AtACall == InThread /\ calling[osg.running] = None

Background ==
    /\ Boot \/ SysTick \/ PendSV
    /\ UNCHANGED <<queue, message, calling>>

OtherCall ==
    /\ AtACall
    /\ (\E ms \in Delays : Delay(ms)) \/ Panic \/ Abort \/ Finish
    /\ UNCHANGED <<queue, message, calling>>

\* Not of tasks that are inside a call (Mutex shows what that does).
SuspendOrResume(t) ==
    /\ AtACall
    /\ calling[t] = None
    /\ Suspend(t) \/ Resume(t)
    /\ UNCHANGED <<queue, message, calling>>

Restart(t, p) ==
    /\ AtACall
    /\ TaskStart(t, p)
    /\ message' = [message EXCEPT ![t] = None]
    /\ calling' = [calling EXCEPT ![t] = None]
    /\ UNCHANGED queue

(***************************************************************************)
(* The ring and the blocked tasks.                                         *)
(***************************************************************************)
Following(i) == (i + 1) % Size

Put(q, m) ==
    [q EXCEPT !.messages[q.first] = m, !.first = Following(@), !.number = @ + 1]

Take(q) == [q EXCEPT !.last = Following(@), !.number = @ - 1]

\* Mutant of Blocked: the status is not looked at.
BlockedOfEither(o, status) == osg.blocked[o] # <<>>

\* Somebody waits for o, and status says for what.
Blocked(o, status) == osg.blocked[o] # <<>> /\ queue[o].status = status

\* A receiver to whom a message can be given directly.
Receiver(o) == o \notin QueueOnly /\ Blocked(o, "BLOCKED_RECEIVE")

\* The first blocked task gets its result and is woken.
Grant(g, o, result) ==
    LET t == Head(g.blocked[o])
    IN  DispatchOrQueue([BlockedDequeue(g, o) EXCEPT !.ret[t] = result], t)

Received(m) == [status |-> "SUCCESS", value |-> m]

\* OS_ASSERT(running->nblocked == NULL)
NotBlocked(g) ==
    OsAssert(g, \A o \in Objects : Contains(g.blocked[o], g.running)
                    => Last(g.blocked[o]) = g.running, "queue.c nblocked")

\* The caller waits for o until `to' is over.
Block(o, to) ==
    SvcReturn(SvcBlock(BlockedAppend(NotBlocked(osg), o, osg.running), to, "queue"),
              osg.running, Returning("TO"))

ReturnNow(g, result) == SvcReturn(g, osg.running, result)

(***************************************************************************)
(* osi_queue_enqueue                                                       *)
(***************************************************************************)
Enqueue(o, m, to) ==
    LET t == osg.running
        q == queue[o]
        full == q.number = Size
    IN  /\ InTask /\ AtACall
        /\ calling' = [calling EXCEPT ![t] = [op |-> "enqueue", queue |-> o]]
        /\ \/ /\ Receiver(o)
              /\ osg' = ReturnNow(Grant(NotBlocked(osg), o, Received(m)),
                                  Returning("SUCCESS"))
              /\ UNCHANGED <<queue, message>>
           \/ /\ ~Receiver(o) /\ full /\ to = 0
              /\ osg' = ReturnNow(NotBlocked(osg), Returning("MEM"))
              /\ UNCHANGED <<queue, message>>
           \/ /\ ~Receiver(o) /\ full /\ to # 0
              /\ message' = [message EXCEPT ![t] = m]
              /\ queue' = [queue EXCEPT ![o].status = "BLOCKED_SEND"]
              /\ osg' = Block(o, to)
           \/ /\ ~Receiver(o) /\ ~full
              /\ queue' = [queue EXCEPT ![o] = [Put(@, m) EXCEPT !.status = "FINE"]]
              /\ osg' = ReturnNow(NotBlocked(osg), Returning("SUCCESS"))
              /\ UNCHANGED message

\* osi_queue_enqueue_isr: a full queue refuses the message.
Interrupt(o, m) ==
    /\ osg.state = "STARTED" /\ osg.halted = {}
    /\ \/ /\ Receiver(o)
          /\ osg' = Grant(osg, o, Received(m))
          /\ UNCHANGED queue
       \/ /\ ~Receiver(o) /\ queue[o].number # Size
          /\ queue' = [queue EXCEPT ![o] = [Put(@, m) EXCEPT !.status = "FINE"]]
          /\ UNCHANGED osg
    /\ UNCHANGED <<message, calling>>

(***************************************************************************)
(* osi_queue_dequeue                                                       *)
(***************************************************************************)

\* Mutant of Refill: the sender is woken and its message forgotten.
RefillForgets(q, m) == q

\* The first blocked sender's message takes the room.
Refill(q, m) == Put(q, m)

Dequeue(o, to) ==
    LET t == osg.running
        q == queue[o]
        found == Received(q.messages[q.last])
        sender == Head(osg.blocked[o])
    IN  /\ InTask /\ AtACall
        /\ calling' = [calling EXCEPT ![t] = [op |-> "dequeue", queue |-> o]]
        /\ \/ /\ q.number > 0 /\ ~Blocked(o, "BLOCKED_SEND")
              /\ queue' = [queue EXCEPT ![o] = Take(@)]
              /\ osg' = ReturnNow(NotBlocked(osg), found)
              /\ UNCHANGED message
           \/ /\ q.number > 0 /\ Blocked(o, "BLOCKED_SEND")
              /\ queue' = [queue EXCEPT ![o] = Refill(Take(@), message[sender])]
              /\ message' = [message EXCEPT ![sender] = None]
              /\ osg' = ReturnNow(Grant(NotBlocked(osg), o, Returning("SUCCESS")), found)
           \/ /\ q.number = 0 /\ to = 0
              /\ osg' = ReturnNow(NotBlocked(osg), Returning("MEM"))
              /\ UNCHANGED <<queue, message>>
           \/ /\ q.number = 0 /\ to # 0
              /\ queue' = [queue EXCEPT ![o].status = "BLOCKED_RECEIVE"]
              /\ osg' = Block(o, to)
              /\ UNCHANGED message

\* Back in the task, which takes the result; the frame is gone.
Returns ==
    LET t == osg.running
    IN  /\ InTask
        /\ calling[t] # None
        /\ calling' = [calling EXCEPT ![t] = None]
        /\ osg' = [osg EXCEPT !.ret[t] = Returning("SUCCESS")]
        /\ UNCHANGED <<queue, message>>

(***************************************************************************)
(* The specification.                                                      *)
(***************************************************************************)
Next ==
    \/ Background
    \/ OtherCall
    \/ \E t \in Tasks : SuspendOrResume(t)
    \/ \E t \in Tasks, p \in StartPriorities : Restart(t, p)
    \/ \E o \in Objects, m \in Messages \ DeviceMessages, to \in Timeouts : Enqueue(o, m, to)
    \/ \E o \in Objects, m \in DeviceMessages : Interrupt(o, m)
    \/ \E o \in Objects, to \in Timeouts : Dequeue(o, to)
    \/ Returns

Spec == Init /\ [][Next]_vars

(***************************************************************************)
(* Properties.                                                             *)
(***************************************************************************)

\* The types of types.h; the indices stay inside the ring.
TypeOK ==
    /\ osg \in Kernel
    /\ queue \in [Objects -> [first: 0 .. Size - 1, last: 0 .. Size - 1, number: 0 .. Size,
                              status: {"FINE", "BLOCKED_SEND", "BLOCKED_RECEIVE"},
                              messages: [0 .. Size - 1 -> Messages \cup {None}]]]
    /\ message \in [Tasks -> Messages \cup {None}]
    /\ calling \in [Tasks -> Call \cup {None}]

\* No OS_ASSERT of os.c, service.c, utilities.h or queue.c fails, the
\* scheduler's lists match the statuses and stay sorted, and a task that
\* goes to sleep has been replaced, also when an interrupt overrides the
\* task SysTick has chosen, which then stays ACTIVE without running.
KernelSurvives ==
    /\ TypeOK /\ osg.halted = {}
    /\ QueuesMatchStatus(osg) /\ RunqueueSorted(osg) /\ WaitqueueSorted(osg)
    /\ osg.scheduled # None =>
           osg.status[osg.scheduled] = "ACTIVE" /\ osg.scheduled # osg.running
    /\ osg.state = "STARTED" => Awake(osg)

In(t, op, o) == calling[t] = [op |-> op, queue |-> o]

\* The one list of blocked tasks holds senders of a full queue or receivers
\* at an empty one, never both, and status says which: it may be written
\* after the first of them came and stays as it is when the last has left.
OneKindBlocked ==
    \A o \in Objects : osg.blocked[o] # <<>> =>
        \/ /\ queue[o].status = "BLOCKED_SEND" /\ queue[o].number = Size
           /\ \A t \in ToSet(osg.blocked[o]) : In(t, "enqueue", o)
        \/ /\ queue[o].status = "BLOCKED_RECEIVE" /\ queue[o].number = 0
           /\ \A t \in ToSet(osg.blocked[o]) : In(t, "dequeue", o)

\* A task asleep in a call is in its queue's list, so that no wake-up can
\* miss it, and who is in a list will return OSS_ERROR_TO unless it is woken.
WaitersAreListed ==
    \A o \in Objects, t \in Tasks :
        /\ (In(t, "enqueue", o) \/ In(t, "dequeue", o)) /\ osg.status[t] = "WAIT" =>
               Contains(osg.blocked[o], t)
        /\ Contains(osg.blocked[o], t) =>
               osg.ret[t] = Returning("TO") /\ osg.waits[t] = {o}

\* A task asleep in a call before its time-out is woken only to return
\* success, and a receiver only with a message.
WokenWithResult ==
    [][\A t \in Tasks :
        /\ calling[t] # None /\ osg.delay[t] > 1
        /\ osg.status[t] = "WAIT" /\ osg'.status[t] # "WAIT"
        => /\ osg'.ret[t].status = "SUCCESS"
           /\ calling[t].op = "dequeue" <=> osg'.ret[t].value \in Messages]_vars

\* The channel that queue o is: the ring from last on, the blocked tasks
\* with their messages, and what the calls on o will return.
Contents(q) == [i \in 1 .. q.number |-> q.messages[(q.last + i - 1) % Size]]

BlockedTo(o, status) == IF Blocked(o, status) THEN osg.blocked[o] ELSE <<>>

SendersOf(o) ==
    LET waiting == BlockedTo(o, "BLOCKED_SEND")
    IN  [i \in 1 .. Len(waiting) |-> [task |-> waiting[i], message |-> message[waiting[i]]]]

OutcomeOf(o) ==
    [t \in Tasks |-> IF calling[t] # None /\ calling[t].queue = o THEN osg.ret[t] ELSE None]

C == INSTANCE Channel WITH
    Capacity <- Size, Channels <- Objects,
    channel <- [o \in Objects |->
        [buffer |-> Contents(queue[o]), senders |-> SendersOf(o),
         receivers |-> BlockedTo(o, "BLOCKED_RECEIVE"), outcome |-> OutcomeOf(o)]]

\* Every queue is a bounded first-in first-out channel (Channel.tla) that
\* loses and duplicates nothing, and every call returns what has happened
\* to its message, whatever the other queues and the scheduler do.
ImplementsChannel == C!Spec

(***************************************************************************)
(* What the source says of queues and OS_QUEUE_FLAGS_QUEUE_ONLY makes      *)
(* false: an enqueue passes the waiting receivers over.                    *)
(***************************************************************************)

\* osi_queue_dequeue: "Is somebody waiting to send a message?" asks the
\* status, OS_QUEUE_BLOCKED_SEND.
BlockedSendersSend ==
    \A o \in Objects : queue[o].status = "BLOCKED_SEND" =>
        \A t \in ToSet(osg.blocked[o]) : In(t, "enqueue", o)

=============================================================================
