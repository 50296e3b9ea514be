---------------------------- MODULE RulesEngine ----------------------------
(***************************************************************************)
(* The rules engine of adk/src/common/rules_engine: events are served by   *)
(* the rules of a table, one rule of an event at a time and in the order   *)
(* of the table.  A rule that decides to run sends its message and is in   *)
(* progress until the receiver reports the message as complete; rules of   *)
(* different events may send the same message.                             *)
(*                                                                         *)
(* The operations are functions of the record rs, for the topology that    *)
(* uses the engine.  The specification of this module puts the engine      *)
(* between clients that raise and reset events and a task that reports     *)
(* every decision as complete when it is delivered.                        *)
(*                                                                         *)
(* rule_flag_always_evaluate and the tasks that wait for a NOP are left    *)
(* out: no table of the headset uses them.                                 *)
(***************************************************************************)
EXTENDS Naturals, Sequences

CONSTANTS
    Events,       \* the bits of rule_events_t
    Count,        \* rules_count
    EventsOf,     \* rule -> the events it needs
    MessageOf,    \* rule -> the message of its decision
    Actions,      \* what rule functions return
    MaxSent       \* bound: decisions that wait to be delivered

ASSUME RulesAssumption ==
    /\ Count \in Nat
    /\ EventsOf \in [1 .. Count -> (SUBSET Events) \ {{}}]
    /\ Actions \subseteq {"run", "ignore", "defer"}
    /\ MaxSent \in Nat

VARIABLES rs, inbox

vars == <<rs, inbox>>

Rules == 1 .. Count

(***************************************************************************)
(* sent is the messages of the last operation, in the order they were sent.*)
(***************************************************************************)
RuleSet ==
    [events : SUBSET Events,
     status : [Rules -> {"not_done", "deferred", "in_progress", "complete"}],
     sent   : Seq({MessageOf[r] : r \in Rules})]

RulesEngine_CreateRuleSet ==
    [events |-> {}, status |-> [r \in Rules |-> "not_done"], sent |-> <<>>]

RulesEngine_ResetEvent(e, set) ==
    [e EXCEPT !.events = @ \ set,
              !.status = [r \in Rules |->
                             IF EventsOf[r] \cap set # {} THEN "not_done" ELSE @[r]]]

\* The rules of message that have status from are complete now, and with
\* them the events that have no other rule left.
RulesEngine_UpdateRuleStatus(e, message, from, set) ==
    LET hit  == {r \in Rules : /\ MessageOf[r] = message
                               /\ e.status[r] = from
                               /\ EventsOf[r] \cap set # {}}
        n    == [e EXCEPT !.status = [r \in Rules |->
                                          IF r \in hit THEN "complete" ELSE @[r]]]
        open == {r \in Rules : EventsOf[r] \cap set # {} /\ n.status[r] # "complete"}
        over == (UNION {EventsOf[r] : r \in hit}) \ (UNION {EventsOf[r] : r \in open})
    IN  IF over = {} THEN n ELSE RulesEngine_ResetEvent(n, over)

\* One turn of the loop over the rules: x.left is the copy of the events that
\* the loop still serves, act what the rule functions return.
RunRule(x, r, act) ==
    IF ~(EventsOf[r] \subseteq x.left) \/ x.e.status[r] = "complete" THEN x
    ELSE IF x.e.status[r] = "in_progress" THEN [x EXCEPT !.left = @ \ EventsOf[r]]
    ELSE CASE act[r] = "run" ->
                [x EXCEPT !.e.status[r] = "in_progress",
                          !.e.sent = Append(@, MessageOf[r]),
                          !.left = @ \ EventsOf[r]]
           [] act[r] = "ignore" ->
                [x EXCEPT !.e = RulesEngine_UpdateRuleStatus(
                                    @, MessageOf[r], @.status[r], EventsOf[r])]
           [] OTHER -> [x EXCEPT !.e.status[r] = "deferred"]

RulesEngine_Check(e, act) ==
    LET run[n \in 0 .. Count] ==
            IF n = 0 THEN [e |-> e, left |-> e.events] ELSE RunRule(run[n - 1], n, act)
    IN  run[Count].e

RulesEngine_SetEvent(e, set, act) ==
    RulesEngine_Check([e EXCEPT !.events = @ \cup set, !.sent = <<>>], act)

\* Variant: the next rules are not looked at.
SetRuleCompleteOnly(e, message, act) ==
    RulesEngine_UpdateRuleStatus([e EXCEPT !.sent = <<>>], message, "in_progress", Events)

RulesEngine_SetRuleComplete(e, message, act) ==
    RulesEngine_Check(
        RulesEngine_UpdateRuleStatus([e EXCEPT !.sent = <<>>],
                                     message, "in_progress", Events), act)

-----------------------------------------------------------------------------
(* The engine between its clients and the task that takes the decisions *)

Init ==
    /\ rs = RulesEngine_CreateRuleSet
    /\ inbox = <<>>

SetEvent(v, act) ==
    /\ rs' = RulesEngine_SetEvent(rs, {v}, act)
    /\ inbox' = inbox \o rs'.sent
    /\ Len(inbox') <= MaxSent

\* StereoTopologyRules_ResetEvent of every event, when a topology starts.
ResetEvents ==
    /\ rs' = [RulesEngine_ResetEvent(rs, Events) EXCEPT !.sent = <<>>]
    /\ UNCHANGED inbox

\* Variant: a decision the task does not take is not reported.
DeliverUnreported(act) ==
    /\ inbox # <<>>
    /\ inbox' = Tail(inbox)
    /\ UNCHANGED rs

\* A decision is delivered; the task takes it and reports it as complete.
Deliver(act) ==
    /\ inbox # <<>>
    /\ rs' = RulesEngine_SetRuleComplete(rs, Head(inbox), act)
    /\ inbox' = Tail(inbox) \o rs'.sent

Next ==
    \/ ResetEvents
    \/ \E act \in [Rules -> Actions] :
         \/ Deliver(act)
         \/ \E v \in Events : SetEvent(v, act)

Spec == Init /\ [][Next]_vars

-----------------------------------------------------------------------------
(* Properties *)

TypeOK ==
    /\ rs \in RuleSet
    /\ inbox \in Seq({MessageOf[r] : r \in Rules})

\* A rule is in progress only as long as a decision with its message is on
\* its way: no rule waits for a report that nobody will make, even though
\* one report ends the rules of several events and a reset forgets decisions
\* that are delivered later (RulesEngine_SetRuleComplete).
InProgressIsOnItsWay ==
    /\ TypeOK
    /\ \A r \in Rules : rs.status[r] = "in_progress" =>
           \E i \in 1 .. Len(inbox) : inbox[i] = MessageOf[r]

\* What the tables of the headset have in common.
OneEventPerRule ==
    /\ \A r \in Rules : \E v \in Events : EventsOf[r] = {v}
    /\ \A v \in Events : \E r \in Rules : v \in EventsOf[r]

\* Between two calls every event that is set has a rule that is in progress
\* or was deferred: none stays set with nobody to serve it, which would
\* swallow its next occurrence (RulesEngine_RunRules).
SetEventIsServed ==
    \A v \in rs.events : \E r \in Rules :
        v \in EventsOf[r] /\ rs.status[r] \in {"in_progress", "deferred"}

=============================================================================
