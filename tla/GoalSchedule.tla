---------------------------- MODULE GoalSchedule ----------------------------
(***************************************************************************)
(* What the goals engine of a topology promises, without its queue slots,  *)
(* locks and counters: a goal runs beside others only if it was declared   *)
(* concurrent with them, a goal that cannot run yet waits, and it is       *)
(* dropped only by the topology, by a goal that cancels everything, or by  *)
(* a goal it excludes.  A goal that waits while nothing runs is let in.    *)
(***************************************************************************)
EXTENDS Naturals

CONSTANTS
    Goals,          \* the goals of the topology's table
    Contention,     \* what a goal does when others are active
    Exclusive,      \* the goal it cancels, or a value outside Goals
    Concurrent      \* the goals it may run beside

VARIABLES
    running,        \* the goals whose procedure is running
    waiting         \* how many decisions to run a goal are waiting

vars == <<running, waiting>>

Init ==
    /\ running = {}
    /\ waiting = [g \in Goals |-> 0]

MayRunBeside(g, others) ==
    \/ others = {}
    \/ Contention[g] = "concurrent" /\ others \subseteq Concurrent[g]

\* A decision is put off.
Put(g) ==
    /\ waiting' = [waiting EXCEPT ![g] = @ + 1]
    /\ UNCHANGED running

\* The goals that a decision for g cancels, waiting decisions included.
Displaced(g) ==
    IF Contention[g] = "cancel" THEN Goals ELSE {Exclusive[g]} \cap running

\* A new decision is carried out at once.  Goals that confirm their
\* cancellation at once make room for it.
RunNew(g) ==
    \E gone \in SUBSET (running \cap Displaced(g)) :
        /\ MayRunBeside(g, running \ gone)
        /\ running' = (running \ gone) \cup {g}
        /\ waiting' = [h \in Goals |-> IF h \in Displaced(g) THEN 0 ELSE waiting[h]]

\* A waiting decision is carried out.
RunWaiting(g) ==
    /\ waiting[g] > 0
    /\ MayRunBeside(g, running)
    /\ running' = running \cup {g}
    /\ waiting' = [waiting EXCEPT ![g] = @ - 1]

\* The topology is no longer in a state in which it wants the goal.
Discard(g) ==
    /\ waiting[g] > 0
    /\ waiting' = [waiting EXCEPT ![g] = @ - 1]
    /\ UNCHANGED running

\* A goal that cancels everything empties the queue; it waits itself unless
\* it is running already.
CancelAll(g) ==
    /\ Contention[g] = "cancel"
    /\ running' \subseteq running
    /\ waiting' = [h \in Goals |-> IF h = g /\ g \notin running THEN 1 ELSE 0]

\* A goal waits for the one it excludes, whose other decisions are dropped.
Exclude(g) ==
    /\ Exclusive[g] \in running
    /\ running' \in {running, running \ {Exclusive[g]}}
    /\ waiting' = [[waiting EXCEPT ![Exclusive[g]] = 0] EXCEPT ![g] = @ + 1]

Finish(g) ==
    /\ running' = running \ {g}
    /\ UNCHANGED waiting

Next ==
    \E g \in Goals :
        \/ Put(g) \/ RunNew(g) \/ RunWaiting(g) \/ Discard(g)
        \/ CancelAll(g) \/ Exclude(g) \/ Finish(g)

\* Something that waits while nothing runs is run or discarded.
LetIn == running = {} /\ \E g \in Goals : RunWaiting(g) \/ Discard(g)

Spec == Init /\ [][Next]_vars /\ WF_vars(LetIn)

=============================================================================
