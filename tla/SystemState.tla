---------------------------- MODULE SystemState ----------------------------
(***************************************************************************)
(* The transition engine of adk/src/domains/power/system_state.            *)
(*                                                                         *)
(* The engine walks a table of steps.  A synchronous step runs to its end  *)
(* when it is called; an asynchronous one asks some other component to     *)
(* send a confirmation to the transition task, and the walk pauses until   *)
(* it comes.  One transition may be replaced by another before its         *)
(* confirmation has come, and the confirmation is then delivered to the    *)
(* new transition.                                                         *)
(*                                                                         *)
(* The whole context is one record, and every operation is a function from *)
(* records to records, because other components call these operations in   *)
(* the middle of their own handlers.                                       *)
(***************************************************************************)
EXTENDS Integers, Sequences, FiniteSetsExt

CONSTANTS
    MsgIds,     \* ids of the confirmations that steps wait for
    NoMsg,      \* async_message_id of a synchronous step
    Table,      \* transition name -> sequence of async_message_id, one a step
    MaxPosted   \* bound: confirmations in flight for one id

Transitions == {"init", "startup", "power_on", "power_off", "sleep",
                "shutdown", "emergency_shutdown"}

ASSUME TableAssumption ==
    /\ NoMsg \notin MsgIds
    /\ Table \in [Transitions -> Seq(MsgIds \cup {NoMsg})]

ASSUME MaxPostedAssumption == MaxPosted \in Nat \ {0}

Stable == {"powered_off", "initialised", "limbo", "active", "sleeping"}
Transitional == {"initialisation", "starting_up", "powering_on", "powering_off",
                 "going_to_sleep", "shutting_down", "shutting_down_promptly"}
States == Stable \cup Transitional

\* A transition pointer that has not been set yet (the context is zeroed).
NoTransition == "none"

VARIABLE ss

(***************************************************************************)
(* state, transition, index, onCompletion and limboRemoved are the fields  *)
(* of system_state_ctx_t.  posted counts the confirmations that steps have *)
(* asked for and that are still to be delivered.  changes holds the        *)
(* SYSTEM_STATE_STATE_CHANGE messages the last operation sent, in order.   *)
(* ran counts the steps that the current transition has run.               *)
(***************************************************************************)
Contexts ==
    [state        : States,
     transition   : Transitions \cup {NoTransition},
     index        : Nat,
     onCompletion : States,
     limboRemoved : BOOLEAN,
     ran          : Nat,
     posted       : [MsgIds -> Nat],
     changes      : Seq(States \X States)]

-----------------------------------------------------------------------------
Count(t) == Len(Table[t])

\* async_message_id of step i; the tables are indexed from 0.
AsyncId(t, i) == Table[t][i + 1]

\* The steps from i on at which the walk of table t pauses.
PausesFrom(t, i) == {j \in i .. Count(t) - 1 : AsyncId(t, j) # NoMsg}

SetState(s, new) ==
    [s EXCEPT !.state = new, !.changes = Append(@, <<s.state, new>>)]

CompleteTransition(s) == SetState(s, s.onCompletion)

\* Variant: the walk increments the index before it leaves the loop.
WalkFromIncrementsLate(s, i) ==
    LET t == s.transition
        pauses == PausesFrom(t, i)
    IN  IF pauses = {}
        THEN CompleteTransition([s EXCEPT !.index = Count(t)])
        ELSE [s EXCEPT !.index = Min(pauses) + 1,
                       !.ran = @ + Min(pauses) - i + 1,
                       !.posted[AsyncId(t, Min(pauses))] = @ + 1]

\* The walk from step i: it runs the steps up to and including the first
\* asynchronous one, which asks for its confirmation, or runs off the table.
WalkFrom(s, i) ==
    LET t == s.transition
        pauses == PausesFrom(t, i)
    IN  IF pauses = {}
        THEN CompleteTransition(
                 IF i < Count(t)
                 THEN [s EXCEPT !.index = Count(t), !.ran = @ + Count(t) - i]
                 ELSE [s EXCEPT !.index = i])
        ELSE [s EXCEPT !.index = Min(pauses),
                       !.ran = @ + Min(pauses) - i + 1,
                       !.posted[AsyncId(t, Min(pauses))] = @ + 1]

\* index is unsigned and set to -1 by SetupCurrentTransition, so that the
\* increment at the head of systemState_DoTransition makes it 0.
DoTransition(s) == WalkFrom(s, s.index + 1)

\* Variant: the index of the transition that is replaced is kept.
SetupKeepsIndex(s, t, end) ==
    WalkFrom([s EXCEPT !.transition = t, !.onCompletion = end, !.ran = 0],
             s.index + 1)

SetupAndRun(s, t, end) ==
    WalkFrom([s EXCEPT !.transition = t, !.onCompletion = end, !.ran = 0], 0)

\* Variant: the current transition is set up before the state is checked.
InitiateSetsUpFirst(s, start, via, end, t) ==
    IF s.state \in start
    THEN SetupAndRun(SetState(s, via), t, end)
    ELSE [s EXCEPT !.transition = t, !.index = 0, !.onCompletion = end]

\* Variant: the state is not checked at all.
InitiateUnchecked(s, start, via, end, t) ==
    SetupAndRun(SetState(s, via), t, end)

InitiateTransition(s, start, via, end, t) ==
    IF s.state \in start
    THEN SetupAndRun(SetState(s, via), t, end)
    ELSE s

\* Stable state that the application rests in after start-up.
Base(s) == IF s.limboRemoved THEN "active" ELSE "limbo"

Initialise(s) ==
    InitiateTransition(s, {"powered_off"}, "initialisation", "initialised", "init")

StartUp(s) ==
    InitiateTransition(s, {"initialised"}, "starting_up", Base(s), "startup")

PowerOn(s) ==
    IF s.limboRemoved THEN s
    ELSE InitiateTransition(s, {"powering_off", "limbo"}, "powering_on",
                            "active", "power_on")

PowerOff(s) ==
    IF s.limboRemoved THEN s
    ELSE InitiateTransition(s, {"powering_on", "active"}, "powering_off",
                            "limbo", "power_off")

Sleep(s) ==
    InitiateTransition(s, {Base(s)}, "going_to_sleep", "sleeping", "sleep")

Shutdown(s) ==
    InitiateTransition(s, {Base(s)}, "shutting_down", "powered_off", "shutdown")

EmergencyShutdown(s) ==
    SetupAndRun(SetState(s, "shutting_down_promptly"), "emergency_shutdown",
                "powered_off")

(***************************************************************************)
(* The contexts in which systemState_MessageHandler can leave s when it is *)
(* given confirmation id.  A late confirmation can find the walk past the  *)
(* end of its table: the entry that is read is then whatever lies behind   *)
(* the table (for constant tables, possibly the first entry of the next    *)
(* table), so the id may or may not match; a match completes again.        *)
(***************************************************************************)
MessageHandler(s, id) ==
    LET t == s.transition
    IN  IF t = NoTransition \/ Table[t] = << >> THEN {s}
        ELSE IF s.index >= Count(t) THEN {s, DoTransition(s)}
        ELSE IF id # AsyncId(t, s.index) THEN {s}
        ELSE {DoTransition(s)}

-----------------------------------------------------------------------------
\* Variant: the context is zeroed and the state is not set: no state is 0.
ContextLeftZero ==
    [state |-> "0", transition |-> NoTransition, index |-> 0,
     onCompletion |-> "powered_off", limboRemoved |-> FALSE, ran |-> 0,
     posted |-> [m \in MsgIds |-> 0], changes |-> << >>]

InitialContext ==
    [state |-> "powered_off", transition |-> NoTransition, index |-> 0,
     onCompletion |-> "powered_off", limboRemoved |-> FALSE, ran |-> 0,
     posted |-> [m \in MsgIds |-> 0], changes |-> << >>]

\* Every operation starts with an empty list of messages sent.
Fresh == [ss EXCEPT !.changes = << >>]

\* Bound: a call is made only while few confirmations are in flight.
Room == \A m \in MsgIds : ss.posted[m] < MaxPosted

Init == ss = InitialContext

\* An application may take the limbo state out before it starts the system.
SystemState_RemoveLimboState ==
    /\ ss.state = "powered_off" /\ ss.transition = NoTransition
    /\ ss' = [Fresh EXCEPT !.limboRemoved = TRUE]

SystemState_Initialise        == Room /\ ss' = Initialise(Fresh)
SystemState_StartUp           == Room /\ ss' = StartUp(Fresh)
SystemState_PowerOn           == Room /\ ss' = PowerOn(Fresh)
SystemState_PowerOff          == Room /\ ss' = PowerOff(Fresh)
SystemState_Sleep             == Room /\ ss' = Sleep(Fresh)
SystemState_Shutdown          == Room /\ ss' = Shutdown(Fresh)
SystemState_EmergencyShutdown == Room /\ ss' = EmergencyShutdown(Fresh)

\* A confirmation reaches the transition task.
Deliver(id) ==
    /\ ss.posted[id] > 0
    /\ ss' \in MessageHandler([Fresh EXCEPT !.posted[id] = @ - 1], id)

Next ==
    \/ SystemState_RemoveLimboState
    \/ SystemState_Initialise
    \/ SystemState_StartUp
    \/ SystemState_PowerOn
    \/ SystemState_PowerOff
    \/ SystemState_Sleep
    \/ SystemState_Shutdown
    \/ SystemState_EmergencyShutdown
    \/ \E id \in MsgIds : Deliver(id)

Spec == Init /\ [][Next]_ss

\* Whoever was asked for a confirmation sends it in the end, and the message
\* loop delivers it.  Nothing obliges anyone to call an operation.
Fairness == \A id \in MsgIds : WF_ss(Deliver(id))

FairSpec == Spec /\ Fairness

-----------------------------------------------------------------------------
\* The context has the types of system_state_ctx_t.
TypeOK == ss \in Contexts

\* The table that a transitional state walks, and the state it ends in.
WalkOf(s) ==
    CASE s.state = "initialisation"         -> <<"init", "initialised">>
      [] s.state = "starting_up"            -> <<"startup", Base(s)>>
      [] s.state = "powering_on"            -> <<"power_on", "active">>
      [] s.state = "powering_off"           -> <<"power_off", "limbo">>
      [] s.state = "going_to_sleep"         -> <<"sleep", "sleeping">>
      [] s.state = "shutting_down"          -> <<"shutdown", "powered_off">>
      [] s.state = "shutting_down_promptly" -> <<"emergency_shutdown", "powered_off">>

Paused(s) ==
    /\ s.index < Count(s.transition)
    /\ AsyncId(s.transition, s.index) # NoMsg
    /\ s.posted[AsyncId(s.transition, s.index)] > 0

\* However transitions replace each other and however late confirmations
\* are, a transitional state always walks its own table towards its own end
\* state, is paused at an asynchronous step, and a confirmation that will
\* wake it is on its way: no transition can wait for ever.
NoLostWakeup ==
    ss.state \in Transitional =>
        <<ss.transition, ss.onCompletion>> = WalkOf(ss) /\ Paused(ss)

\* A stable state is the end state of the last transition, reached only by
\* running every step of its table once: a confirmation left over from a
\* transition that was replaced neither skips a step nor repeats one.
StableIsFinished ==
    ss.state \in Stable /\ ss.transition # NoTransition =>
        /\ ss.state = ss.onCompletion
        /\ ss.ran = Count(ss.transition)

\* The state changes that system_state.h allows ("enforces which state can
\* transition to which state with exception of Emergency Shutdown").
Allowed(old, new) ==
    \/ new = "shutting_down_promptly"
    \/ old = new /\ new \in Stable
    \/ <<old, new>> \in
         {<<"powered_off", "initialisation">>, <<"initialisation", "initialised">>,
          <<"initialised", "starting_up">>, <<"starting_up", Base(ss)>>,
          <<Base(ss), "going_to_sleep">>, <<"going_to_sleep", "sleeping">>,
          <<Base(ss), "shutting_down">>, <<"shutting_down", "powered_off">>,
          <<"shutting_down_promptly", "powered_off">>}
    \/ /\ ~ss.limboRemoved
       /\ <<old, new>> \in
            {<<"limbo", "powering_on">>, <<"powering_off", "powering_on">>,
             <<"powering_on", "active">>, <<"active", "powering_off">>,
             <<"powering_on", "powering_off">>, <<"powering_off", "limbo">>}

\* Listeners are told of every change of state, in order and without a gap,
\* and every change they are told of is an allowed one.
ChangesFollowGraph ==
    LET told == ss'.changes
    IN  /\ \A k \in 1 .. Len(told) : Allowed(told[k][1], told[k][2])
        /\ \A k \in 1 .. Len(told) - 1 : told[k][2] = told[k + 1][1]
        /\ IF told = << >> THEN ss'.state = ss.state
           ELSE told[1][1] = ss.state /\ told[Len(told)][2] = ss'.state

TransitionGraph == [][ChangesFollowGraph]_ss

\* Once nobody starts transitions any more, the confirmations that are in
\* flight bring the system to a stable state for good.
QuietMeansStable ==
    <>[][\E id \in MsgIds : Deliver(id)]_ss => <>[](ss.state \in Stable)
=============================================================================
