----------------------------- MODULE GoalsEngine -----------------------------
(***************************************************************************)
(* The goals engine of adk/src/topologies/common/goals_engine: it starts   *)
(* the procedure of a goal that the rules of a topology decided upon, or   *)
(* keeps the decision as a message that is delivered again once the goals  *)
(* in its way have ended.                                                  *)
(*                                                                         *)
(* Its operations are functions of the record gs, for the topology that    *)
(* uses the engine.  The specification of this module puts the engine      *)
(* between rules that may decide on any goal at any time and procedures    *)
(* that complete, or confirm their cancellation, at any later time.        *)
(***************************************************************************)
EXTENDS Naturals, FiniteSets, FiniteSetsExt

CONSTANTS
    Goals,        \* the goals of the table
    None,         \* GOAL_ID_NONE
    Contention,   \* goal -> "wait", "cancel" or "concurrent"
    Exclusive,    \* goal -> exclusive_goal, or None
    Concurrent,   \* goal -> concurrent_goals
    Slots,        \* INITIAL_GOAL_QUEUE_COUNT
    MaxQueued,    \* bound: decisions that wait
    MaxIgnored    \* bound: decisions ignored since queue_msg_count was reset

ASSUME GoalsAssumption ==
    /\ IsFiniteSet(Goals)
    /\ None \notin Goals
    /\ Contention \in [Goals -> {"wait", "cancel", "concurrent"}]
    /\ Exclusive \in [Goals -> Goals \cup {None}]
    /\ Concurrent \in [Goals -> SUBSET Goals]

ASSUME SlotsAssumption ==
    /\ Slots \in Nat
    /\ Cardinality(Goals) <= Slots
    /\ MaxQueued \in Nat
    /\ MaxIgnored \in Nat

\* A goal is not declared concurrent with the goal it excludes.
ASSUME TableAssumption == \A g \in Goals : Exclusive[g] \notin Concurrent[g]

VARIABLES gs, proc

vars == <<gs, proc>>

SlotIds == 1 .. Slots

(***************************************************************************)
(* active is active_goals_mask, count queue_msg_count, and id and lock the *)
(* members of the pending_goals array (lock is lock_mask: the lock of a    *)
(* slot is open when it is empty).  The messages that wait in the queue    *)
(* task are counted per goal: msgs[g] of them wait, on the lock of slot    *)
(* on[g].  stray is set when messages of one goal wait on different slots, *)
(* panic when the code calls Panic().                                      *)
(*                                                                         *)
(* started, cancelled, flushed and queued are the calls of the last        *)
(* operation: the procedures started and cancelled, the goals whose        *)
(* messages were cancelled and the goals a message was sent for.           *)
(***************************************************************************)
GoalSet ==
    [active    : SUBSET Goals,
     id        : [SlotIds -> Goals \cup {None}],
     lock      : [SlotIds -> SUBSET Goals],
     count     : Nat,
     msgs      : [Goals -> Nat],
     on        : [Goals -> SlotIds],
     stray     : BOOLEAN,
     panic     : BOOLEAN,
     started   : SUBSET Goals,
     cancelled : SUBSET Goals,
     flushed   : SUBSET Goals,
     queued    : SUBSET Goals]

GoalsEngine_CreateGoalSet ==
    [active    |-> {},
     id        |-> [s \in SlotIds |-> None],
     lock      |-> [s \in SlotIds |-> {}],
     count     |-> 0,
     msgs      |-> [g \in Goals |-> 0],
     on        |-> [g \in Goals |-> 1],
     stray     |-> FALSE,
     panic     |-> FALSE,
     started   |-> {},
     cancelled |-> {},
     flushed   |-> {},
     queued    |-> {}]

\* The record an operation starts from: it has made no calls yet.
NoCalls(e) ==
    [e EXCEPT !.started = {}, !.cancelled = {}, !.flushed = {}, !.queued = {}]

-----------------------------------------------------------------------------
(* The queue of pending goals *)

\* Active goals that goal g has to wait for.
WaitMask(e, g) ==
    IF Contention[g] = "concurrent" THEN e.active \ Concurrent[g] ELSE e.active

\* Variant: an entry of the same goal is not looked for.
FreshSlot(e, g) ==
    LET free == {s \in SlotIds : e.id[s] = None}
    IN  IF free = {} THEN 0 ELSE CHOOSE s \in free : \A t \in free : s <= t

\* The slot for goal g: its own if it has one, else the first unused one.
\* 0 stands for -1.
QueueIndex(e, g) ==
    LET own  == {s \in SlotIds : e.id[s] = g}
        free == {s \in SlotIds : e.id[s] = None}
        pick == IF own # {} THEN own ELSE free
    IN  IF pick = {} THEN 0 ELSE CHOOSE s \in pick : \A t \in pick : s <= t

QueueGoal(e, g, wait) ==
    LET s == QueueIndex(e, g)
    IN  IF s = 0 THEN [e EXCEPT !.panic = TRUE]
        ELSE [e EXCEPT !.id[s]    = g,
                       !.lock[s]  = wait,
                       !.msgs[g]  = @ + 1,
                       !.on[g]    = s,
                       !.stray    = @ \/ (e.msgs[g] > 0 /\ e.on[g] # s),
                       !.count    = @ + 1,
                       !.queued   = @ \cup {g}]

DequeGoal(e, g) ==
    IF \A s \in SlotIds : e.id[s] # g THEN e
    ELSE [e EXCEPT !.id      = [s \in SlotIds |-> IF @[s] = g THEN None ELSE @[s]],
                   !.lock    = [s \in SlotIds |-> IF e.id[s] = g THEN {} ELSE @[s]],
                   !.count   = @ - e.msgs[g],
                   !.msgs[g] = 0,
                   !.flushed = @ \cup {g}]

ResetPendingQueueIfEmpty(e) ==
    IF e.count # 0 THEN e
    ELSE [e EXCEPT !.id   = [s \in SlotIds |-> None],
                   !.lock = [s \in SlotIds |-> {}]]

ClearPendingGoalsQueue(e) ==
    ResetPendingQueueIfEmpty(
        [e EXCEPT !.msgs = [g \in Goals |-> 0], !.count = 0, !.flushed = Goals])

\* Variant: the locks of goals that still wait are left as they are.
UpdateQueueMasksClearOnly(e) ==
    IF e.count = 0 THEN e
    ELSE LET kept == {s \in SlotIds : e.id[s] # None /\ e.msgs[e.id[s]] > 0}
         IN  [e EXCEPT
                !.id   = [s \in SlotIds |-> IF s \in kept THEN @[s] ELSE None],
                !.lock = [s \in SlotIds |-> IF s \in kept THEN @[s] ELSE {}]]

\* Entries without a message are cleared; the others wait for what is active.
UpdateQueueMasks(e) ==
    IF e.count = 0 THEN e
    ELSE LET kept == {s \in SlotIds : e.id[s] # None /\ e.msgs[e.id[s]] > 0}
         IN  [e EXCEPT
                !.id   = [s \in SlotIds |-> IF s \in kept THEN @[s] ELSE None],
                !.lock = [s \in SlotIds |->
                            IF s \in kept THEN WaitMask(e, e.id[s]) ELSE {}]]

-----------------------------------------------------------------------------
(* Goals *)

GoalsEngine_IsGoalActive(e, g) == g \in e.active

GoalCanRunNow(e, isNew) == e.active = {} /\ (e.count = 0 \/ ~isNew)

StartGoal(e, g) ==
    UpdateQueueMasks([e EXCEPT !.active = @ \cup {g}, !.started = @ \cup {g}])

GoalsEngine_ClearGoal(e, g) ==
    [e EXCEPT !.active = @ \ {g},
              !.lock   = [s \in SlotIds |->
                            IF e.id[s] # None THEN @[s] \ {g} ELSE @[s]]]

\* Cancel the procedures of the goals in set; those in sync confirm before
\* the call returns.
CancelGoals(e, set, sync) ==
    LET c == [e EXCEPT !.cancelled = @ \cup set]
    IN  [c EXCEPT !.active = @ \ (set \cap sync),
                  !.lock   = [s \in SlotIds |->
                       IF c.id[s] # None THEN @[s] \ (set \cap sync) ELSE @[s]]]

StartOrQueue(e, g, wait, start) ==
    IF start THEN StartGoal(e, g) ELSE QueueGoal(e, g, wait)

\* A goal that cancels everything.
ActivateCancelling(e, g, isNew, sync) ==
    LET c    == ClearPendingGoalsQueue(e)
        d    == CancelGoals(c, c.active, sync)
        wait == d.active
    IN  StartOrQueue(d, g, wait, wait = {} /\ GoalCanRunNow(d, isNew))

\* Variant: decisions for the exclusive goal are dropped even if it only waits.
HandleExclusiveGoalsWaiting(e, g, sync) ==
    IF Exclusive[g] = None THEN e
    ELSE CancelGoals(DequeGoal(e, Exclusive[g]), {Exclusive[g]} \cap e.active, sync)

HandleExclusiveGoals(e, g, sync) ==
    IF Exclusive[g] \in e.active
    THEN CancelGoals(DequeGoal(e, Exclusive[g]), {Exclusive[g]}, sync)
    ELSE e

\* A goal that waits, beside the goals it may run with.
ActivateOther(e, g, isNew, sync) ==
    LET d    == HandleExclusiveGoals(e, g, sync)
        wait == WaitMask(e, g) \cap d.active
    IN  StartOrQueue(d, g, wait,
            (Contention[g] = "concurrent" /\ wait = {}) \/ GoalCanRunNow(d, isNew))

\* A decision for goal g was delivered: from the rules if it is new, else
\* from the queue.
GoalsEngine_ActivateGoal(old, g, isNew, sync) ==
    LET e == IF isNew THEN NoCalls(old) ELSE [NoCalls(old) EXCEPT !.count = @ - 1]
    IN  IF Contention[g] = "cancel" /\ g \in e.active
        THEN ClearPendingGoalsQueue(e)
        ELSE ResetPendingQueueIfEmpty(
               IF GoalCanRunNow(e, isNew) THEN StartGoal(e, g)
               ELSE IF Contention[g] = "cancel"
                    THEN ActivateCancelling(e, g, isNew, sync)
                    ELSE ActivateOther(e, g, isNew, sync))

-----------------------------------------------------------------------------
(* The engine between rules and procedures *)

Init ==
    /\ gs = GoalsEngine_CreateGoalSet
    /\ proc = [g \in Goals |-> "idle"]

\* What the procedures make of the calls of an operation.
ProceduresCalled(e, sync) ==
    proc' = [g \in Goals |->
        IF g \in e.started THEN "running"
        ELSE IF g \in e.cancelled THEN IF g \in sync THEN "idle" ELSE "cancelling"
        ELSE proc[g]]

\* How many messages wait in the queue task.
Waiting == MapThenSumSet(LAMBDA g : gs.msgs[g], Goals)

\* The rules decide on goal g.
Decide(g) ==
    \E sync \in SUBSET gs.active :
        /\ Waiting < MaxQueued
        /\ gs' = GoalsEngine_ActivateGoal(gs, g, TRUE, sync)
        /\ ProceduresCalled(gs', sync)

Deliverable(e, g) == e.msgs[g] > 0 /\ e.lock[e.on[g]] = {}

\* The message that is delivered has left the queue.
Taken(e, g) == [e EXCEPT !.msgs[g] = @ - 1]

\* A decision is delivered from the queue.
Redeliver(g) ==
    \E sync \in SUBSET gs.active :
        /\ Deliverable(gs, g)
        /\ gs' = GoalsEngine_ActivateGoal(Taken(gs, g), g, FALSE, sync)
        /\ ProceduresCalled(gs', sync)

\* A decision is delivered from the queue and the topology, which is in
\* another state by now, does not activate the goal.
Ignore(g) ==
    /\ Deliverable(gs, g)
    /\ gs.count < Waiting + MaxIgnored
    /\ gs' = NoCalls(Taken(gs, g))
    /\ UNCHANGED proc

\* The procedure of g completes, or confirms that it was cancelled.
ProcedureEnds(g) ==
    /\ proc[g] # "idle"
    /\ gs' = GoalsEngine_ClearGoal(NoCalls(gs), g)
    /\ proc' = [proc EXCEPT ![g] = "idle"]

Next ==
    \E g \in Goals : Decide(g) \/ Redeliver(g) \/ Ignore(g) \/ ProcedureEnds(g)

Redelivery == \E g \in Goals : Redeliver(g) \/ Ignore(g)

\* The scheduler delivers a message that is not held back; a procedure ends.
Fairness ==
    /\ WF_vars(Redelivery)
    /\ \A g \in Goals : WF_vars(ProcedureEnds(g))

Spec == Init /\ [][Next]_vars

FairSpec == Spec /\ Fairness

-----------------------------------------------------------------------------
(* Properties *)

TypeOK ==
    /\ gs \in GoalSet
    /\ proc \in [Goals -> {"idle", "running", "cancelling"}]

\* The decisions of a goal wait on one slot, which belongs to the goal and
\* is locked by exactly the active goals that it may not run beside: it is
\* neither forgotten behind a goal that has ended nor let in too early.
LocksFollowActiveGoals ==
    /\ ~gs.stray
    /\ \A g \in Goals : gs.msgs[g] > 0 =>
           /\ gs.id[gs.on[g]] = g
           /\ gs.lock[gs.on[g]] = WaitMask(gs, g)

\* goals_engine.c:334: a goal that has to wait always finds a slot, since a
\* goal never holds two.
SlotForEveryGoal ==
    /\ TypeOK
    /\ ~gs.panic
    /\ \A s, t \in SlotIds : gs.id[s] = gs.id[t] /\ gs.id[s] # None => s = t

\* The goals engine implements the schedule it promises, including that a
\* goal that waits while no other goal is active is let in.
Schedule == INSTANCE GoalSchedule WITH running <- gs.active, waiting <- gs.msgs

ImplementsSchedule == Schedule!Spec

=============================================================================
