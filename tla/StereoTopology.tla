--------------------------- MODULE StereoTopology ---------------------------
(***************************************************************************)
(* The stereo topology of adk/src/topologies/stereo_topology: it decides,  *)
(* from the calls of the application and what happens to the handsets,     *)
(* which goals to pursue, and brings the headset's connections into a      *)
(* known state when it is started or stopped.                              *)
(*                                                                         *)
(* It is composed of the rules engine (RulesEngine), the goals engine      *)
(* (GoalsEngine), the script engine, which runs the procedures of          *)
(* system_stop one after the other, the procedures, and the message queue  *)
(* they talk through.  The handset service, the connection manager and the *)
(* LE advertising manager answer requests at any later time.               *)
(***************************************************************************)
EXTENDS Naturals, Sequences, FiniteSets

CONSTANTS
    Handsets,     \* the handsets that are paired with the headset
    NoGoal,       \* stereo_topology_goal_none
    Calls,        \* the calls the application makes
    MaxEvents     \* bound: calls, and links that come up or are lost by themselves

ASSUME HandsetsAssumption == Handsets # {}

VARIABLES
    t,            \* the topology with its engines, procedures and services
    owed,         \* a call of StereoTopology_Stop waits for STOP_CFM
    events        \* calls made and links that came up or were lost

vars == <<t, owed, events>>

Goals == {"connect", "disconnect", "connectable", "allow_handset", "allow_le",
          "stop", "lru"}

ASSUME NoGoalAssumption == NoGoal \notin Goals

Procs == Goals \cup {"start_script", "disconnect_le", "send_message"}

-----------------------------------------------------------------------------
(* Tables *)

\* stereotop_rules_set: the event, and the goal its decision is for.
RuleTable ==
    <<<<"stop", "stop">>,
      <<"linkloss", "connect">>,
      <<"start", "allow_le">>,
      <<"start", "connectable">>,
      <<"start", "allow_handset">>,
      <<"start", "connect">>,
      <<"prohibit", "disconnect">>,
      <<"user_connect", "connect">>,
      <<"user_disconnect", "disconnect">>,
      <<"user_lru", "lru">>>>

RuleEvents == {RuleTable[r][1] : r \in 1 .. Len(RuleTable)}

\* stereogoals
Contention ==
    [g \in Goals |-> CASE g = "stop" -> "cancel"
                       [] g \in {"connectable", "allow_handset", "allow_le"} -> "concurrent"
                       [] OTHER -> "wait"]

ExclusiveGoal ==
    [g \in Goals |-> CASE g = "connect" -> "disconnect"
                       [] g \in {"disconnect", "lru"} -> "connect"
                       [] OTHER -> NoGoal]

\* Variant: what is allowed at the start runs beside every other goal.
ConcurrentWithAll ==
    [g \in Goals |-> IF Contention[g] = "concurrent" THEN Goals \ {g} ELSE {}]

ConcurrentGoals ==
    [g \in Goals |-> IF Contention[g] = "concurrent"
                     THEN {"connectable", "allow_handset", "allow_le"} \ {g} ELSE {}]

\* Variant: the handsets are disconnected before connections are disallowed.
StopScriptDisconnectFirst ==
    <<"start_script", "disconnect", "allow_handset", "connectable", "allow_le",
      "disconnect_le", "send_message">>

\* stereo_system_stop_script
StopScript ==
    <<"start_script", "allow_handset", "connectable", "allow_le", "disconnect",
      "disconnect_le", "send_message">>

\* The order in which goals are cancelled.
GoalOrder ==
    <<"connectable", "allow_handset", "connect", "disconnect", "allow_le", "stop", "lru">>

RE == INSTANCE RulesEngine WITH
          Events    <- RuleEvents,
          Count     <- Len(RuleTable),
          EventsOf  <- [r \in 1 .. Len(RuleTable) |-> {RuleTable[r][1]}],
          MessageOf <- [r \in 1 .. Len(RuleTable) |-> RuleTable[r][2]],
          Actions   <- {"run", "ignore"},
          MaxSent   <- 0,
          rs        <- t.rs,
          inbox     <- t.mq

GE == INSTANCE GoalsEngine WITH
          None       <- NoGoal,
          Exclusive  <- ExclusiveGoal,
          Concurrent <- ConcurrentGoals,
          Slots      <- 8,
          MaxQueued  <- 0,
          MaxIgnored <- 0,
          gs         <- t.gs,
          proc       <- t.fn

-----------------------------------------------------------------------------
(* State *)

\* The messages: decisions of rules, decisions that wait in the goal queue,
\* delayed confirmations of procedures, answers of the services and
\* indications to the topology.
Message ==
    [k : {"decision", "queued"}, a : Goals, b : {""}] \cup
    [k : {"done"}, a : Procs, b : {"goal", "script"}] \cup
    [k : {"cancelled"}, a : Goals, b : {""}] \cup
    [k : {"connect_cfm"}, a : {"success", "failed", "cancelled"}, b : {""}] \cup
    [k : {"connect_stop_cfm", "disconnect_all_cfm", "disconnect_cfm", "le_cfm",
          "disconnect_le_cfm", "linkloss", "stop_finished"}, a : {""}, b : {""}]

Msg(k) == [k |-> k, a |-> "", b |-> ""]

(***************************************************************************)
(* state, prohibit and shutdown are the members of the topology's task     *)
(* data, timer its stop timeout and cfm how the last stop was confirmed.   *)
(* script is the step of the stop script that runs, 0 when the script      *)
(* engine is idle.  fn holds the callbacks that the procedures with an     *)
(* asynchronous answer remember: whose complete_fn, or that of a           *)
(* cancellation.  radio is what the procedures allow.  hs is the handset   *)
(* service: the handsets that are linked, the most recently used one, the  *)
(* reconnection (and that it is to stop), the requests to disconnect, and  *)
(* the answers that LE advertising and LE disconnection still owe.         *)
(***************************************************************************)
Topology ==
    [state    : {"stopped", "starting", "started", "stopping"},
     prohibit : BOOLEAN,
     shutdown : BOOLEAN,
     timer    : BOOLEAN,
     cfm      : {"none", "finished", "already", "timeout"},
     rs       : RE!RuleSet,
     gs       : GE!GoalSet,
     script   : 0 .. Len(StopScript),
     fn       : [connect    : {"none", "complete", "cancel"},
                 disconnect : {"none", "goal", "script"},
                 le         : {"none", "goal", "script"},
                 leDown     : {"none", "script"}],
     radio    : [handset : BOOLEAN, connectable : BOOLEAN, le : BOOLEAN],
     hs       : [links    : SUBSET Handsets,
                 mru      : Handsets,
                 busy     : BOOLEAN,
                 stopping : BOOLEAN,
                 all      : BOOLEAN,
                 lru      : SUBSET Handsets,
                 le       : SUBSET {"advertising", "connectable"},
                 leDown   : BOOLEAN],
     panic    : BOOLEAN,
     mq       : Seq(Message)]

Init ==
    /\ t = [state    |-> "stopped",
            prohibit |-> FALSE,
            shutdown |-> FALSE,
            timer    |-> FALSE,
            cfm      |-> "none",
            rs       |-> RE!RulesEngine_CreateRuleSet,
            gs       |-> GE!GoalsEngine_CreateGoalSet,
            script   |-> 0,
            fn       |-> [connect |-> "none", disconnect |-> "none",
                          le |-> "none", leDown |-> "none"],
            radio    |-> [handset |-> FALSE, connectable |-> FALSE, le |-> FALSE],
            hs       |-> [links |-> {}, mru |-> CHOOSE h \in Handsets : TRUE,
                          busy |-> FALSE, stopping |-> FALSE, all |-> FALSE,
                          lru |-> {}, le |-> {}, leDown |-> FALSE],
            panic    |-> FALSE,
            mq       |-> <<>>]
    /\ owed = FALSE
    /\ events = 0

Send(x, m) == [x EXCEPT !.mq = Append(@, m)]

\* MessageCancelAll: the queue without the messages in dropped.
Without(x, dropped) ==
    LET kept[n \in 0 .. Len(x.mq)] ==
            IF n = 0 THEN << >>
            ELSE IF x.mq[n] \in dropped THEN kept[n - 1]
            ELSE Append(kept[n - 1], x.mq[n])
    IN  [x EXCEPT !.mq = kept[Len(x.mq)]]

-----------------------------------------------------------------------------
(* The handset service, the connection manager and LE advertising *)

HandsetService_ReconnectRequest(x) ==
    IF x.hs.links = Handsets
    THEN Send(x, [k |-> "connect_cfm", a |-> "success", b |-> ""])
    ELSE [x EXCEPT !.hs.busy = TRUE]

HandsetService_StopReconnect(x) ==
    IF x.hs.busy THEN [x EXCEPT !.hs.stopping = TRUE]
    ELSE Send(x, Msg("connect_stop_cfm"))

HandsetService_DisconnectAll(x) ==
    IF x.hs.links = {} /\ ~x.hs.all THEN Send(x, Msg("disconnect_all_cfm"))
    ELSE [x EXCEPT !.hs.all = TRUE]

LruHandset(hs) ==
    CHOOSE h \in hs.links : h # hs.mru \/ hs.links = {hs.mru}

\* Without a handset to disconnect nothing is requested and nothing answered.
HandsetService_DisconnectLruHandsetRequest(x) ==
    IF x.hs.links = {} THEN x
    ELSE [x EXCEPT !.hs.lru = @ \cup {LruHandset(x.hs)}]

-----------------------------------------------------------------------------
(* Procedures *)

\* Procedures_DelayedCompleteCfmCallback
DelayedComplete(x, p, who) == Send(x, [k |-> "done", a |-> p, b |-> who])

Completions(p) == [k : {"done"}, a : {p}, b : {"goal", "script"}]

\* Variant: the confirmation of the cancellation is withdrawn as well.
DelayedCancelUnconfirmed(x, p) == Without(x, Completions(p))

\* Procedures_DelayedCancelCfmCallback
DelayedCancel(x, p) ==
    Send(Without(x, Completions(p)), [k |-> "cancelled", a |-> p, b |-> ""])

\* Start procedure p for its goal, which enables something, or as a step of
\* the stop script, which disables it.
ProcedureStart(x, p, who) ==
    LET on == who = "goal"
    IN  CASE p = "connect" ->
               HandsetService_ReconnectRequest([x EXCEPT !.fn.connect = "complete"])
          [] p = "disconnect" ->
               HandsetService_DisconnectAll([x EXCEPT !.fn.disconnect = who])
          [] p = "lru" ->
               HandsetService_DisconnectLruHandsetRequest([x EXCEPT !.fn.disconnect = who])
          [] p = "connectable" ->
               DelayedComplete([x EXCEPT !.radio.connectable = on], p, who)
          [] p = "allow_handset" ->
               DelayedComplete([x EXCEPT !.radio.handset = on], p, who)
          [] p = "allow_le" ->
               [x EXCEPT !.radio.le = on, !.fn.le = who,
                         !.hs.le = {"advertising", "connectable"}]
          [] p = "disconnect_le" ->
               [x EXCEPT !.fn.leDown = who, !.hs.leDown = TRUE,
                         !.panic = @ \/ x.hs.leDown]
          [] p = "send_message" ->
               DelayedComplete(Send(x, Msg("stop_finished")), p, who)
          [] OTHER -> DelayedComplete(x, p, who)

\* Cancel the procedure of goal g.  The script of system_stop has steps that
\* panic when they are cancelled.
ProcedureCancel(x, g) ==
    CASE g = "connect" ->
           HandsetService_StopReconnect([x EXCEPT !.fn.connect = "cancel"])
      [] g \in {"disconnect", "lru"} ->
           DelayedCancel([x EXCEPT !.fn.disconnect = "none"], g)
      [] g = "connectable" ->
           DelayedCancel([x EXCEPT !.radio.connectable = FALSE], g)
      [] g = "allow_le" ->
           DelayedCancel([x EXCEPT !.fn.le = "none"], g)
      [] g = "stop" -> [x EXCEPT !.panic = TRUE]
      [] OTHER -> DelayedCancel(x, g)

ScriptEngine_StartScript(x) ==
    [ProcedureStart([x EXCEPT !.script = 1], StopScript[1], "script")
        EXCEPT !.panic = @ \/ x.script # 0]

GoalStart(x, g) ==
    IF g = "stop" THEN ScriptEngine_StartScript(x) ELSE ProcedureStart(x, g, "goal")

-----------------------------------------------------------------------------
(* Rules *)

ConnectHandset(x) == IF x.prohibit THEN "ignore" ELSE "run"

RuleAction(x) ==
    [r \in 1 .. Len(RuleTable) |->
        CASE RuleTable[r][2] = "connect" -> ConnectHandset(x)
          [] RuleTable[r][2] = "connectable" ->
               IF x.hs.mru \in x.hs.links \/ x.shutdown THEN "ignore" ELSE "run"
          [] RuleTable[r][2] = "allow_handset" ->
               IF x.shutdown THEN "ignore" ELSE "run"
          [] RuleTable[r][2] = "lru" ->
               IF x.gs.active \cap {"disconnect", "connect"} # {} \/ x.hs.links = {}
               THEN "ignore" ELSE "run"
          [] OTHER -> "run"]

\* The rules engine did something: its decisions are sent.
Decided(x, rs) ==
    [x EXCEPT !.rs = rs,
              !.mq = @ \o [i \in 1 .. Len(rs.sent) |->
                             [k |-> "decision", a |-> rs.sent[i], b |-> ""]]]

StereoTopologyRules_SetEvent(x, v) ==
    Decided(x, RE!RulesEngine_SetEvent(x.rs, {v}, RuleAction(x)))

StereoTopologyRules_SetRuleComplete(x, g) ==
    Decided(x, RE!RulesEngine_SetRuleComplete(x.rs, g, RuleAction(x)))

-----------------------------------------------------------------------------
(* States *)

EnterStarting(x) ==
    LET y == [x EXCEPT !.state = "starting", !.prohibit = FALSE, !.shutdown = FALSE,
                       !.cfm = "none",
                       !.rs = RE!RulesEngine_ResetEvent(@, RuleEvents)]
    IN  StereoTopologyRules_SetEvent(y, "start")

\* Variant: a stop without a timeout.
EnterStoppingUntimed(x) ==
    StereoTopologyRules_SetEvent([x EXCEPT !.state = "stopping"], "stop")

EnterStopping(x) ==
    StereoTopologyRules_SetEvent([x EXCEPT !.state = "stopping", !.timer = TRUE], "stop")

StereoTopology_SendStopCfm(x, how) == [x EXCEPT !.timer = FALSE, !.cfm = how]

\* Variant: a procedure of the stop script is forgotten with it.
EnterStoppedForget(x) == [x EXCEPT !.state = "stopped", !.fn.disconnect = "none"]

EnterStopped(x) == [x EXCEPT !.state = "stopped"]

-----------------------------------------------------------------------------
(* Goals *)

ClearGoal(x, g) ==
    [x EXCEPT !.gs = GE!GoalsEngine_ClearGoal(GE!NoCalls(@), g)]

GoalProcComplete(x, g) ==
    ClearGoal(IF x.state = "starting" /\ g = "allow_handset"
              THEN [x EXCEPT !.state = "started"] ELSE x, g)

\* Variant: the script engine stays busy after the last step.
ScriptCompleteStaysBusy(x) ==
    IF x.script = 0 THEN x
    ELSE IF x.script < Len(StopScript)
    THEN ProcedureStart([x EXCEPT !.script = @ + 1], StopScript[x.script + 1], "script")
    ELSE GoalProcComplete(x, "stop")

\* scriptEngine_ProcCompleteCfm: on to the next step, or the script is done.
ScriptComplete(x) ==
    IF x.script = 0 THEN x
    ELSE IF x.script < Len(StopScript)
    THEN ProcedureStart([x EXCEPT !.script = @ + 1], StopScript[x.script + 1], "script")
    ELSE GoalProcComplete([x EXCEPT !.script = 0], "stop")

\* The complete_fn that was given to a procedure.
Complete(x, p, who) ==
    IF who = "script" THEN ScriptComplete(x) ELSE GoalProcComplete(x, p)

\* The calls that the goals engine made: decisions of the queue that were
\* cancelled, procedures that were cancelled or started, and the decision
\* that was queued.
CallsMade(x, gs) ==
    LET flushed == Without(x, [k : {"queued"}, a : gs.flushed, b : {""}])
        cancel[n \in 0 .. Len(GoalOrder)] ==
            IF n = 0 THEN flushed
            ELSE IF GoalOrder[n] \in gs.cancelled
            THEN ProcedureCancel(cancel[n - 1], GoalOrder[n])
            ELSE cancel[n - 1]
        y       == [cancel[Len(GoalOrder)] EXCEPT !.gs = gs, !.panic = @ \/ gs.panic]
    IN  IF gs.started # {} THEN GoalStart(y, CHOOSE g \in gs.started : TRUE)
        ELSE IF gs.queued # {}
        THEN Send(y, [k |-> "queued", a |-> CHOOSE g \in gs.queued : TRUE, b |-> ""])
        ELSE y

\* The states in which the topology takes a decision for goal g.
Accepts(x, g) ==
    CASE g = "stop" -> TRUE
      [] g \in {"connectable", "allow_handset", "allow_le"} -> x.state = "starting"
      [] OTHER -> x.state = "started"

StereoTopology_HandleGoalDecision(x, g, isNew) ==
    LET y == IF isNew THEN x ELSE [x EXCEPT !.gs = GE!Taken(@, g)]
        z == IF Accepts(x, g)
             THEN CallsMade(y, GE!GoalsEngine_ActivateGoal(y.gs, g, isNew, {}))
             ELSE y
    IN  StereoTopologyRules_SetRuleComplete(z, g)

-----------------------------------------------------------------------------
(* Messages *)

\* stereoTopology_ProcConnectHandsetHandleMessage
HandleConnectCfm(x, status) ==
    IF status = "cancelled" \/ x.fn.connect = "none" THEN x
    ELSE IF x.fn.connect = "complete"
    THEN [GoalProcComplete(x, "connect") EXCEPT !.fn.connect = "none"]
    ELSE [ClearGoal(x, "connect") EXCEPT
             !.fn.connect = IF status = "success" THEN "cancel" ELSE "none"]

HandleConnectStopCfm(x) ==
    IF x.fn.connect # "cancel" THEN x
    ELSE [ClearGoal(x, "connect") EXCEPT !.fn.connect = "none"]

\* stereoTopology_ProcDisconnectHandsetHandleMessage: both answers use the
\* one complete_fn, whichever request it belongs to.
HandleDisconnectCfm(x, p) ==
    IF x.fn.disconnect = "none" THEN x
    ELSE [Complete(x, p, x.fn.disconnect) EXCEPT !.fn.disconnect = "none"]

\* stereoTopology_ProcAllowLEConnectionHandleMessage: the first answer
\* completes the procedure.
HandleLeCfm(x) ==
    IF x.fn.le = "none" THEN x
    ELSE [Complete(x, "allow_le", x.fn.le) EXCEPT !.fn.le = "none"]

HandleDisconnectLeCfm(x) ==
    IF x.fn.leDown = "none" THEN x
    ELSE [Complete(x, "disconnect_le", x.fn.leDown) EXCEPT !.fn.leDown = "none"]

HandleStopCompletion(x) ==
    IF x.state # "stopping" THEN x
    ELSE EnterStopped(StereoTopology_SendStopCfm(x, "finished"))

Handle(x, m) ==
    CASE m.k = "decision" -> StereoTopology_HandleGoalDecision(x, m.a, TRUE)
      [] m.k = "queued" -> StereoTopology_HandleGoalDecision(x, m.a, FALSE)
      [] m.k = "done" -> Complete(x, m.a, m.b)
      [] m.k = "cancelled" -> ClearGoal(x, m.a)
      [] m.k = "connect_cfm" -> HandleConnectCfm(x, m.a)
      [] m.k = "connect_stop_cfm" -> HandleConnectStopCfm(x)
      [] m.k = "disconnect_all_cfm" -> HandleDisconnectCfm(x, "disconnect")
      [] m.k = "disconnect_cfm" -> HandleDisconnectCfm(x, "lru")
      [] m.k = "le_cfm" -> HandleLeCfm(x)
      [] m.k = "disconnect_le_cfm" -> HandleDisconnectLeCfm(x)
      [] m.k = "linkloss" -> StereoTopologyRules_SetEvent(x, "linkloss")
      [] OTHER -> HandleStopCompletion(x)

\* A decision that waits in the goal queue is delivered once its lock opens.
Deliverable(i) == t.mq[i].k = "queued" => GE!Deliverable(t.gs, t.mq[i].a)

Due == {i \in 1 .. Len(t.mq) : Deliverable(i)}

\* The message queue delivers the first message that is not held back.
Deliver ==
    /\ Due # {}
    /\ LET i == CHOOSE i \in Due : \A j \in Due : i <= j
           x == [t EXCEPT !.mq = SubSeq(@, 1, i - 1) \o SubSeq(@, i + 1, Len(@))]
       IN  t' = Handle(x, t.mq[i])
    /\ owed' = (owed /\ t'.cfm = t.cfm)
    /\ UNCHANGED events

\* The timeout of a stop: far longer than it takes to deliver the messages
\* that are not held back.
HandleStopTimeout ==
    /\ t.timer
    /\ Due = {}
    /\ t' = EnterStopped(StereoTopology_SendStopCfm(t, "timeout"))
    /\ owed' = FALSE
    /\ UNCHANGED events

-----------------------------------------------------------------------------
(* The application *)

\* Something happens that nobody asked for.
Event == events < MaxEvents /\ events' = events + 1

StereoTopology_Start ==
    /\ t' = IF t.state = "stopped" THEN EnterStarting(t) ELSE t
    /\ UNCHANGED owed

\* A topology that is starting or stopping takes note of the caller only.
StereoTopology_Stop ==
    /\ t' = CASE t.state = "started" -> EnterStopping(t)
              [] t.state = "stopped" -> StereoTopology_SendStopCfm(t, "already")
              [] OTHER -> t
    /\ owed' = (t.state # "stopped")

StereoTopology_ProhibitHandsetConnection(prohibit) ==
    LET x == [t EXCEPT !.prohibit = prohibit]
    IN  /\ t' = IF prohibit THEN StereoTopologyRules_SetEvent(x, "prohibit") ELSE x
        /\ UNCHANGED owed

\* StereoTopology_ConnectMruHandset, StereoTopology_DisconnectLruHandset and
\* StereoTopology_DisconnectAllHandsets
UserRequest(v) ==
    /\ t' = StereoTopologyRules_SetEvent(t, v)
    /\ UNCHANGED owed

HandlePowerShutdownPrepareInd ==
    /\ t' = [t EXCEPT !.shutdown = TRUE]
    /\ UNCHANGED owed

Call ==
    /\ Event
    /\ \/ "start" \in Calls /\ StereoTopology_Start
       \/ "stop" \in Calls /\ StereoTopology_Stop
       \/ "prohibit" \in Calls
            /\ \E b \in BOOLEAN : StereoTopology_ProhibitHandsetConnection(b)
       \/ \E v \in Calls \cap {"user_connect", "user_disconnect", "user_lru"} : UserRequest(v)
       \/ "shutdown" \in Calls /\ HandlePowerShutdownPrepareInd

-----------------------------------------------------------------------------
(* Answers of the services *)

\* A reconnection ends: a handset is linked, or none is.  One that was asked
\* to stop confirms that too, before or after.
ReconnectEnds ==
    /\ t.hs.busy
    /\ \E status \in {"success", "failed", "cancelled"}, h \in Handsets, first \in BOOLEAN :
         /\ status = "cancelled" => t.hs.stopping
         /\ LET cfm  == [k |-> "connect_cfm", a |-> status, b |-> ""]
                stop == Msg("connect_stop_cfm")
                up   == IF status = "success"
                        THEN [t EXCEPT !.hs.links = @ \cup {h}, !.hs.mru = h] ELSE t
                x    == [up EXCEPT !.hs.busy = FALSE, !.hs.stopping = FALSE]
            IN  t' = IF ~t.hs.stopping THEN Send(x, cfm)
                     ELSE IF first THEN Send(Send(x, cfm), stop) ELSE Send(Send(x, stop), cfm)
    /\ UNCHANGED <<owed, events>>

\* The link to h is gone; requests to disconnect it, or all, are answered.
Unlinked(x, h) ==
    LET y == [x EXCEPT !.hs.links = @ \ {h}, !.hs.lru = @ \ {h}]
        z == IF h \in x.hs.lru THEN Send(y, Msg("disconnect_cfm")) ELSE y
    IN  IF z.hs.all /\ z.hs.links = {}
        THEN Send([z EXCEPT !.hs.all = FALSE], Msg("disconnect_all_cfm")) ELSE z

\* A link that was to be disconnected is.
LinkClosed ==
    /\ \E h \in t.hs.links :
         /\ t.hs.all \/ h \in t.hs.lru
         /\ t' = Unlinked(t, h)
    /\ UNCHANGED <<owed, events>>

\* A handset connects, or a link is lost.
LinkUp ==
    /\ Event
    /\ t.radio.handset
    /\ \E h \in Handsets \ t.hs.links :
         t' = [t EXCEPT !.hs.links = @ \cup {h}, !.hs.mru = h]
    /\ UNCHANGED owed

LinkLost ==
    /\ Event
    /\ \E h \in t.hs.links : t' = Unlinked(Send(t, Msg("linkloss")), h)
    /\ UNCHANGED owed

\* LE_ADV_MGR_ALLOW_ADVERTISING_CFM or HANDSET_SERVICE_LE_CONNECTABLE_IND; the
\* latter only reaches a procedure that is registered.  The status is one of
\* success: when enabling advertising fails, the manager answers
\* le_adv_mgr_status_error_unknown and the procedure panics
\* (stereo_topology_procedure_allow_le_connection.c:152); that is left out,
\* and NoPanic does not speak of it.
LeAnswer ==
    /\ \E a \in t.hs.le :
         LET x == [t EXCEPT !.hs.le = @ \ {a}]
         IN  t' = IF a = "connectable" /\ t.fn.le = "none" THEN x ELSE Send(x, Msg("le_cfm"))
    /\ UNCHANGED <<owed, events>>

LeDisconnected ==
    /\ t.hs.leDown
    /\ t' = Send([t EXCEPT !.hs.leDown = FALSE], Msg("disconnect_le_cfm"))
    /\ UNCHANGED <<owed, events>>

Answer == ReconnectEnds \/ LinkClosed \/ LeAnswer \/ LeDisconnected

Next == Deliver \/ HandleStopTimeout \/ Call \/ Answer \/ LinkUp \/ LinkLost

Spec == Init /\ [][Next]_vars

\* Messages are delivered and the timer expires; the services need not answer.
\* (The first disjunction is weak fairness of Deliver.)
FairSpec ==
    /\ Spec
    /\ []<>(Due = {}) \/ []<><<Deliver>>_vars
    /\ WF_vars(HandleStopTimeout)

-----------------------------------------------------------------------------
(* Properties *)

TypeOK ==
    /\ t \in Topology
    /\ owed \in BOOLEAN

\* No handler panics: the script engine is idle whenever system_stop starts
\* (script_engine.c:257), no step is cancelled that must not be, the
\* disconnection of LE links is not requested twice and a goal always finds a
\* slot, also when the topology is started again after a stop that timed out.
NoPanic == TypeOK /\ ~t.panic

\* A topology that has started lets handsets and LE devices connect: the stop
\* script of the run before, which goes on after its timeout, never closes
\* the doors of the next run (stereo_topology.c:350).
StartedIsOpen == t.state = "started" => t.radio.handset /\ t.radio.le

\* stereo_topology.h:109: when a stop is confirmed the topology is in a known
\* clean state.  The headset is closed, nothing opens it before the next
\* start, and no handset is linked.
StoppedIsUnlinked ==
    t.state = "stopped" /\ t.cfm = "finished" =>
        /\ ~t.radio.handset /\ ~t.radio.connectable /\ ~t.radio.le
        /\ t.hs.links = {}

\* What ends the procedure p that runs for who is still to come.
WillEnd(p, who) ==
    LET coming(k) == \E i \in 1 .. Len(t.mq) : t.mq[i].k = k
        told(k) == \E i \in 1 .. Len(t.mq) :
                       t.mq[i].k = k /\ t.mq[i].a = p /\ t.mq[i].b \in {"", who}
    IN  \/ told("done") \/ told("cancelled")
        \/ /\ p = "connect"
           /\ \/ t.fn.connect = "complete" /\ (t.hs.busy \/ coming("connect_cfm"))
              \/ t.fn.connect = "cancel" /\ (t.hs.stopping \/ coming("connect_stop_cfm"))
        \/ /\ p = "disconnect"
           /\ t.fn.disconnect = who /\ (t.hs.all \/ coming("disconnect_all_cfm"))
        \/ /\ p = "lru"
           /\ t.fn.disconnect = who /\ (t.hs.lru # {} \/ coming("disconnect_cfm"))
        \/ /\ p = "allow_le"
           /\ t.fn.le = who /\ (t.hs.le # {} \/ coming("le_cfm"))
        \/ /\ p = "disconnect_le"
           /\ t.fn.leDown = who /\ (t.hs.leDown \/ coming("disconnect_le_cfm"))

\* A goal is active only while something is to come that ends it, or the next
\* step of its script.  Otherwise it would hold up every later goal.
ActiveGoalsEnd ==
    \A g \in t.gs.active :
        IF g = "stop" THEN t.script # 0 /\ WillEnd(StopScript[t.script], "script")
        ELSE WillEnd(g, "goal")

\* A topology that is stopping comes to a stop, whatever the services do, and
\* the caller that waits is told (stereo_topology.c:84).
StoppingEnds == (t.state = "stopping") ~> (t.state = "stopped" /\ ~owed)

\* The services answer what they are asked.
ServicesAnswer ==
    /\ WF_vars(ReconnectEnds)
    /\ WF_vars(LinkClosed)
    /\ WF_vars(LeAnswer)
    /\ WF_vars(LeDisconnected)

\* If the services answer, a topology that is starting starts, unless the
\* headset shuts down, also when goals of the run before are in its way.
StartingEnds ==
    ServicesAnswer => ((t.state = "starting") ~> (t.state = "started" \/ t.shutdown))

=============================================================================
