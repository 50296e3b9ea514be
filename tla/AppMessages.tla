----------------------------- MODULE AppMessages -----------------------------
(***************************************************************************)
(* The message queue under every task of the application                   *)
(* (fw/src/customer/core/trap_api/trap_api_message.c): messages that are   *)
(* immediate, delayed or conditional, for one task or several, kept in the *)
(* order in which they are due and delivered one at a time by a task of    *)
(* the scheduler, which an event or a timer wakes.                         *)
(*                                                                         *)
(* The handlers of the application may send, cancel, flush, retain and     *)
(* free in any order; system messages come in from the other processor.    *)
(***************************************************************************)
EXTENDS Integers, Sequences, FiniteSets, SequencesExt

CONSTANTS
    Task,         \* tasks of the application
    AppId,        \* identifiers of its own messages
    SimilarId,    \* system messages of which one in the queue is enough
    ReplaceId,    \* system messages of which the latest counts
    Ptr,          \* bound: blocks of memory for payloads
    Cond,         \* variables a message can be conditional on
    None,         \* no task, condition or timer
    Wrap,         \* the millisecond clock wraps here (2^32)
    Delays,       \* delays the application asks for
    MaxAge,       \* bound: how long a message may stay in the queue when due
    TimerLimit,   \* longest delay of the timer
    TimerId,      \* bound: timers armed at a time
    MaxRetained   \* bound: how often one message is retained at a time, so
                  \* that the uint8 refcount does not wrap

SystemId == SimilarId \cup ReplaceId
Id == AppId \cup SystemId

ASSUME ClockAssumption ==
    /\ Wrap \in Nat
    /\ Wrap % 2 = 0
    /\ Delays \subseteq Nat
    /\ MaxAge \in Nat
    /\ \A d \in Delays \cup {0} : d + MaxAge < Wrap \div 2
    /\ TimerLimit \in Nat \ {0}
    /\ MaxRetained \in 0 .. 254

ASSUME SetsAssumption ==
    /\ IsFiniteSet(Task)
    /\ SimilarId \cap ReplaceId = {} /\ AppId \cap SystemId = {}
    /\ None \notin Task \cup Cond \cup TimerId

VARIABLES
    now,          \* get_milli_time()
    queue,        \* vm_message_queue
    delivered,    \* vm_delivered_messages
    cur,          \* the delivery in progress
    closed,       \* the conditions that are not zero
    system,       \* the task registered for system messages
    sched,        \* messages of the scheduler for trap_api_sched_queue_id
    pending,      \* sched_event_pending
    timer,        \* time left on the timers that are armed
    run_timer,    \* identifier of the timer the code knows of
    held,         \* how often the application retains a payload
    latest        \* history: the latest system message of the ReplaceIds that
                  \* was posted to a task, None while duplicates were let in

vars == <<now, queue, delivered, cur, closed, system, sched, pending, timer,
          run_timer, held, latest>>

clock == <<sched, pending, timer, run_timer>>

(***************************************************************************)
(* to is the list of recipients without the INVALIDATED_TASKs; multi tells *)
(* a list from a single task.  left is the true time until the message is  *)
(* due, which the code does not have: it knows due, modulo Wrap.           *)
(***************************************************************************)
AppMessage ==
    [to : SUBSET Task, multi : BOOLEAN, id : Id, ptr : Ptr,
     cond : Cond \cup {None}, due : 0 .. Wrap - 1, left : Int]

Idle == [busy |-> FALSE, todo |-> {}, task |-> None]

Elements(s) == {s[i] : i \in DOMAIN s}

FreePtr == Ptr \ ({m.ptr : m \in Elements(queue)} \cup {d.ptr : d \in Elements(delivered)})

-----------------------------------------------------------------------------
(* The queue *)

\* Variant: times are compared without regard to the wrap of the clock.
PlainDifference(t, u) == t - u

VM_DIFF(t, u) == ((t - u + Wrap \div 2) % Wrap) - Wrap \div 2

\* How many messages are due no later than a message due at time due.
Before(q, due) ==
    CHOOSE n \in 0 .. Len(q) :
        /\ \A i \in 1 .. n : VM_DIFF(due, q[i].due) >= 0
        /\ n = Len(q) \/ VM_DIFF(due, q[n + 1].due) < 0

similar(a, b) == ~a.multi /\ a.to = b.to /\ a.id = b.id /\ a.id \in SimilarId

insert(q, m) ==
    LET n == Before(q, m.due)
    IN  IF n > 0 /\ similar(q[n], m) THEN q ELSE InsertAt(q, n + 1, m)

replaces(a, b) == ~a.multi /\ a.to = b.to /\ {a.id, b.id} \subseteq ReplaceId

\* Variant: only a message with the same identifier is replaced.
alreadySameId(q, m) ==
    {i \in DOMAIN q : similar(q[i], m) \/ (replaces(q[i], m) /\ q[i].id = m.id)}

\* The messages in the queue that m can be combined with.
already(q, m) == {i \in DOMAIN q : similar(q[i], m) \/ replaces(q[i], m)}

Combined(q, m) ==
    LET i == CHOOSE i \in already(q, m) : \A j \in already(q, m) : i <= j
    IN  IF similar(q[i], m) THEN q ELSE [q EXCEPT ![i].id = m.id]

\* The queue without recipient t of the messages in set, and without the
\* messages that have no other recipient.  upTo[n] is what is left of the
\* first n messages.
Without(q, t, set) ==
    LET upTo[n \in 0 .. Len(q)] ==
          IF n = 0 THEN << >>
          ELSE IF n \in set /\ q[n].to = {t} THEN upTo[n - 1]
          ELSE Append(upTo[n - 1], IF n \in set THEN [q[n] EXCEPT !.to = @ \ {t}] ELSE q[n])
    IN  upTo[Len(q)]

Matching(q, t, id) == {i \in DOMAIN q : t \in q[i].to /\ q[i].id = id}

\* The search ends at a message that is removed; one that still has other
\* recipients is not removed, and the search goes on.
MessageCancelFirst(q, t, id) ==
    LET match == Matching(q, t, id)
        end   == {i \in match : q[i].to = {t}}
        upto  == {i \in match : \A j \in end : i <= j}
    IN  Without(q, t, upto)

MessageCancelAll(q, t, id) == Without(q, t, Matching(q, t, id))

FlushQueue(q, t) == Without(q, t, DOMAIN q)

\* The first message that is not blocked on its condition, 0 if there is none.
FirstOpen(q) ==
    LET open == {i \in DOMAIN q : q[i].cond \notin closed}
    IN  IF open = {} THEN 0 ELSE CHOOSE i \in open : \A j \in open : i <= j

-----------------------------------------------------------------------------
(* Waking the task *)

\* Variant: no event while the timer is armed.
vm_event_trigger_if_no_timer ==
    /\ sched' = IF pending \/ run_timer # None THEN sched ELSE Append(sched, "event")
    /\ pending' = (pending \/ run_timer = None)
    /\ UNCHANGED <<timer, run_timer>>

vm_event_trigger ==
    /\ sched' = IF pending THEN sched ELSE Append(sched, "event")
    /\ pending' = TRUE
    /\ UNCHANGED <<timer, run_timer>>

app_message_destroy(list, i) == RemoveAt(list, i)

PlaceOf(list, p) == CHOOSE i \in DOMAIN list : list[i].ptr = p

\* Variant: a message is destroyed when its delivery ends.
app_message_release_at_once(list, p) == app_message_destroy(list, PlaceOf(list, p))

app_message_release(list, p) ==
    LET i == PlaceOf(list, p)
    IN  IF list[i].ref = 1 THEN app_message_destroy(list, i)
        ELSE [list EXCEPT ![i].ref = @ - 1]

-----------------------------------------------------------------------------
(* Calls of the application, from the handler that is running *)

Running == cur.task # None

vm_message_send_later(to, id, delay, c) ==
    \E p \in FreePtr :
        LET m == [to |-> to, multi |-> Cardinality(to) > 1, id |-> id, ptr |-> p,
                  cond |-> c, due |-> (now + delay) % Wrap, left |-> delay]
        IN  /\ queue' = insert(queue, m)
            /\ vm_event_trigger

MessageSendLater(to, id, delay) ==
    /\ Running
    /\ vm_message_send_later(to, id, delay, None)
    /\ UNCHANGED <<now, delivered, cur, closed, system, held, latest>>

MessageSendConditionally(to, id, c) ==
    /\ Running
    /\ vm_message_send_later(to, id, 0, c)
    /\ UNCHANGED <<now, delivered, cur, closed, system, held, latest>>

CancelFirst(t, id) ==
    /\ Running
    /\ queue' = MessageCancelFirst(queue, t, id)
    /\ UNCHANGED <<now, delivered, cur, closed, system, clock, held, latest>>

CancelAll(t, id) ==
    /\ Running
    /\ queue' = MessageCancelAll(queue, t, id)
    /\ UNCHANGED <<now, delivered, cur, closed, system, clock, held, latest>>

MessageFlushTask(t) ==
    /\ Running
    /\ system' = IF system = t THEN None ELSE system
    /\ queue' = FlushQueue(queue, t)
    /\ UNCHANGED <<now, delivered, cur, closed, clock, held, latest>>

MessageSystemTask(t) ==
    /\ Running
    /\ system' = t
    /\ UNCHANGED <<now, queue, delivered, cur, closed, clock, held, latest>>

\* The application opens or closes a condition.
SetCondition(c) ==
    /\ Running
    /\ closed' \in {closed \cup {c}, closed \ {c}}
    /\ UNCHANGED <<now, queue, delivered, cur, system, clock, held, latest>>

\* A handler retains the message it is given, as may every other recipient
\* of it, and each as often as it likes.
MessageRetain ==
    /\ Running
    /\ held[delivered[1].ptr] < MaxRetained
    /\ delivered' = [delivered EXCEPT ![1].ref = @ + 1]
    /\ held' = [held EXCEPT ![delivered[1].ptr] = @ + 1]
    /\ UNCHANGED <<now, queue, cur, closed, system, clock, latest>>

\* A payload is freed by the application that retains it.
MessageFree(p) ==
    /\ Running
    /\ held[p] > 0
    /\ delivered' = app_message_release(delivered, p)
    /\ held' = [held EXCEPT ![p] = @ - 1]
    /\ UNCHANGED <<now, queue, cur, closed, system, clock, latest>>

-----------------------------------------------------------------------------
(* Delivery *)

\* The timer that run_timer names is cancelled, unless it has expired; the
\* others are beyond the reach of the code.
Cancelled(rt) == [i \in DOMAIN timer \ {rt} |-> timer[i]]

\* What the handler of the scheduler's message does before it looks for work.
\* The scheduler lets expired timers deliver before it runs a task.
TakeSchedulerMessage ==
    /\ ~cur.busy
    /\ \A i \in DOMAIN timer : timer[i] > 0
    /\ sched # <<>>
    /\ sched' = Tail(sched)
    /\ pending' = (pending /\ Head(sched) # "event")

TimersLeft == IF Head(sched) = "run" THEN timer ELSE Cancelled(run_timer)

\* Nothing can be delivered, or not yet: the timer is set.
WaitForMessage ==
    /\ TakeSchedulerMessage
    /\ LET i == FirstOpen(queue)
       IN  IF i = 0
           THEN run_timer' = None /\ timer' = TimersLeft
           ELSE LET delay == VM_DIFF(queue[i].due, now)
                IN  /\ delay > 0
                    /\ \E new \in TimerId \ DOMAIN TimersLeft :
                         /\ run_timer' = new
                         /\ timer' = [j \in DOMAIN TimersLeft \cup {new} |->
                              IF j = new THEN IF delay > TimerLimit THEN TimerLimit ELSE delay
                              ELSE timer[j]]
    /\ UNCHANGED <<now, queue, delivered, cur, closed, system, held, latest>>

\* The first message is due: it moves to the list of delivered messages.
vm_message_next ==
    /\ TakeSchedulerMessage
    /\ run_timer' = None
    /\ timer' = TimersLeft
    /\ FirstOpen(queue) # 0
    /\ LET i == FirstOpen(queue)
       IN  /\ VM_DIFF(queue[i].due, now) <= 0
           /\ queue' = RemoveAt(queue, i)
           /\ delivered' = <<[ptr |-> queue[i].ptr, ref |-> 1]>> \o delivered
           /\ cur' = [Idle EXCEPT !.busy = TRUE, !.todo = queue[i].to]
    /\ UNCHANGED <<now, closed, system, held, latest>>

\* The handler of the next recipient is called.
CallHandler(t) ==
    /\ cur.busy /\ cur.task = None
    /\ t \in cur.todo
    /\ cur' = [cur EXCEPT !.task = t, !.todo = @ \ {t}]
    /\ UNCHANGED <<now, queue, delivered, closed, system, clock, held, latest>>

HandlerReturns ==
    /\ Running
    /\ cur' = [cur EXCEPT !.task = None]
    /\ UNCHANGED <<now, queue, delivered, closed, system, clock, held, latest>>

\* Every recipient has had the message: come round again for the next one.
DeliveryEnds ==
    /\ cur.busy /\ cur.task = None /\ cur.todo = {}
    /\ cur' = Idle
    /\ delivered' = app_message_release(delivered, delivered[1].ptr)
    /\ vm_event_trigger
    /\ UNCHANGED <<now, queue, closed, system, held, latest>>

-----------------------------------------------------------------------------
(* The other processor, the timers and the clock *)

\* A message that is dropped for a similar one before it triggers no event.
send_message(m) ==
    /\ queue' = insert(queue, m)
    /\ IF queue' = queue THEN UNCHANGED clock ELSE vm_event_trigger

\* What latest becomes with message m.  A message that finds none of its kind
\* in the queue is the latest; after a duplicate that was let in beside
\* another, which of them is the latest is open until they have gone.
LatestWith(m, allow_duplicates) ==
    LET open == already(queue, m) # {} /\ (allow_duplicates \/ latest[system] = None)
    IN  IF m.id \notin ReplaceId THEN latest
        ELSE [latest EXCEPT ![system] = IF open THEN None ELSE m.id]

\* allow_duplicates is the choice of the other processor.
trap_api_send_message_filtered(id, allow_duplicates) ==
    /\ system # None
    /\ \E p \in FreePtr :
         LET m == [to |-> {system}, multi |-> FALSE, id |-> id, ptr |-> p,
                   cond |-> None, due |-> now, left |-> 0]
         IN  /\ IF allow_duplicates \/ already(queue, m) = {}
                THEN send_message(m)
                ELSE queue' = Combined(queue, m) /\ UNCHANGED clock
             /\ latest' = LatestWith(m, allow_duplicates)
    /\ UNCHANGED <<now, delivered, cur, closed, system, held>>

deliver_timed_message(i) ==
    /\ i \in DOMAIN timer
    /\ timer[i] = 0
    /\ timer' = [j \in DOMAIN timer \ {i} |-> timer[j]]
    /\ sched' = Append(sched, "run")
    /\ UNCHANGED <<now, queue, delivered, cur, closed, system, pending, run_timer, held, latest>>

Tick ==
    /\ \A m \in Elements(queue) : m.left > -MaxAge
    /\ now' = (now + 1) % Wrap
    /\ queue' = [i \in DOMAIN queue |-> [queue[i] EXCEPT !.left = @ - 1]]
    /\ timer' = [i \in DOMAIN timer |-> IF timer[i] = 0 THEN 0 ELSE timer[i] - 1]
    /\ UNCHANGED <<delivered, cur, closed, system, sched, pending, run_timer, held, latest>>

-----------------------------------------------------------------------------

Init ==
    /\ now = 0
    /\ queue = <<>> /\ delivered = <<>>
    /\ cur = Idle
    /\ closed = {}
    /\ system \in Task
    /\ sched = <<>> /\ pending = FALSE
    /\ timer = <<>> /\ run_timer = None
    /\ held = [p \in Ptr |-> 0]
    /\ latest = [t \in Task |-> None]

\* To cancel a message that is not in the queue changes nothing.
Handler ==
    \/ \E to \in (SUBSET Task) \ {{}}, id \in AppId :
          \/ \E d \in Delays : MessageSendLater(to, id, d)
          \/ \E c \in Cond : MessageSendConditionally(to, id, c)
    \/ \E t \in Task, id \in {m.id : m \in Elements(queue)} :
          CancelFirst(t, id) \/ CancelAll(t, id)
    \/ \E t \in Task : MessageFlushTask(t) \/ MessageSystemTask(t)
    \/ \E c \in Cond : SetCondition(c)
    \/ MessageRetain
    \/ \E p \in Ptr : MessageFree(p)

trap_api_sched_msg_handler ==
    \/ WaitForMessage
    \/ vm_message_next
    \/ \E t \in Task : CallHandler(t)
    \/ HandlerReturns
    \/ DeliveryEnds

TimerExpires == \E i \in TimerId : deliver_timed_message(i)

Next ==
    \/ Handler
    \/ trap_api_sched_msg_handler
    \/ \E id \in SystemId, dup \in BOOLEAN : trap_api_send_message_filtered(id, dup)
    \/ TimerExpires
    \/ Tick

Spec == Init /\ [][Next]_vars

-----------------------------------------------------------------------------
(* Properties *)

TypeOK ==
    /\ now \in 0 .. Wrap - 1
    /\ \A m \in Elements(queue) : m \in AppMessage /\ m.left >= -MaxAge
    /\ \A d \in Elements(delivered) : d.ptr \in Ptr /\ d.ref \in Nat \ {0}
    /\ cur.todo \subseteq Task /\ cur.task \in Task \cup {None}
    /\ closed \subseteq Cond
    /\ system \in Task \cup {None}
    /\ \A s \in Elements(sched) : s \in {"run", "event"}
    /\ pending \in BOOLEAN
    /\ DOMAIN timer \subseteq TimerId /\ run_timer \in TimerId \cup {None}
    /\ held \in [Ptr -> Nat]
    /\ latest \in [Task -> ReplaceId \cup {None}]

\* trap_api_sched_msg_handler: a message that nothing blocks is never
\* forgotten.  Between two deliveries the scheduler holds a message for the
\* task, or a timer is armed that expires by the time the message is due,
\* whatever was cancelled, opened or expired in the meantime.
NoLostWakeup ==
    /\ TypeOK
    /\ ~cur.busy /\ FirstOpen(queue) # 0 =>
          \/ sched # <<>>
          \/ \E i \in DOMAIN timer :
                timer[i] <= IF queue[FirstOpen(queue)].left > 0
                            THEN queue[FirstOpen(queue)].left ELSE 0

\* A message is taken for delivery when it is due in truth and no message
\* that is due earlier could be delivered instead, even when the clock wraps
\* between the two (VM_DIFF, insert).
NeverEarly ==
    [][\A i \in DOMAIN queue :
          Len(delivered') > Len(delivered) /\ delivered'[1].ptr = queue[i].ptr
            => /\ queue[i].left <= 0
               /\ \A j \in DOMAIN queue :
                     queue[j].cond \notin closed => queue[i].left <= queue[j].left]_vars

\* A payload that handlers retain stays on the list of delivered messages
\* until it has been freed as often as it was retained, by one recipient or by
\* several of a multicast, in whatever order messages are delivered, retained
\* and freed; then it is gone (MessageRetain, app_message_release).
RetainedStaysDelivered ==
    /\ \A p \in Ptr : held[p] > 0 => \E d \in Elements(delivered) : d.ptr = p
    /\ \A i \in DOMAIN delivered :
          delivered[i].ref = held[delivered[i].ptr] + IF i = 1 /\ cur.busy THEN 1 ELSE 0

\* already(), replace(): a task has at most one message of a group of system
\* messages in its queue, and it is the latest one that was posted to it.
\* Nothing is claimed from the time the other processor posts a duplicate
\* (allow_duplicates) beside a message of the group until both have gone: the
\* next message that is filtered replaces the first of them, and the task is
\* told the older news last.
LatestSystemMessage ==
    \A i \in DOMAIN queue : queue[i].id \in ReplaceId =>
        \A t \in queue[i].to : latest[t] # None =>
            /\ latest[t] = queue[i].id
            /\ \A j \in DOMAIN queue : replaces(queue[i], queue[j]) => i = j

=============================================================================
