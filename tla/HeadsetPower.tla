---------------------------- MODULE HeadsetPower ----------------------------
(***************************************************************************)
(* Switching the headset on and off: the application's state machine       *)
(* (headset/src/headset_sm.c) together with system_state, the topology,    *)
(* the charger monitor's view of the socket and the power manager.         *)
(*                                                                         *)
(* headset_sm does not share its state with system_state: it asks for      *)
(* transitions and follows the SYSTEM_STATE_STATE_CHANGE messages, some    *)
(* time after the change.  In between it acts on the state it knows.       *)
(*                                                                         *)
(* The topology is here what StereoTopology promises of it, and the power  *)
(* manager what PowerManager promises: a request is followed by the        *)
(* clients' answers and a second look at the charger.  Sources of wired    *)
(* audio are left out (a plugged line-in jack switches the chip off).      *)
(***************************************************************************)
EXTENDS Naturals, Sequences

CONSTANT MaxEvents      \* bound: what happens outside the application

ASSUME MaxEventsAssumption == MaxEvents \in Nat

VARIABLES
    d,          \* the state of the components and the queue of messages
    events      \* how many outside events have happened

vars == <<d, events>>

\* The tables of headset_init.c: the first step of power on waits for the
\* mandatory prompt, the first one of power off for the topology.
Table ==
    [init |-> << >>, startup |-> << >>, sleep |-> << >>,
     power_on |-> <<"prompt", "none", "none">>,
     power_off |-> <<"stop_cfm", "none">>,
     shutdown |-> <<"none">>, emergency_shutdown |-> <<"none">>]

S == INSTANCE SystemState WITH MsgIds <- {"prompt", "stop_cfm"}, NoMsg <- "none",
                               MaxPosted <- 1, ss <- d.ss

\* headsetState; the ones above POWERING_ON that mean a headset in use are On.
SmStates == {"NULL", "LIMBO", "POWERING_ON", "PAIRING", "IDLE", "BUSY",
             "TERMINATING", "POWERING_OFF"}
On == {"PAIRING", "IDLE", "BUSY"}
AboveLimbo == SmStates \ {"NULL", "LIMBO"}

Messages == {"ui_on", "ui_off", "ui_pair", "power_off", "pair", "pair_cfm", "audio",
             "charger_on", "charger_off", "attached", "detached", "prompt",
             "stop_cfm", "prepare", "change"}

Message == [k : Messages, old : S!States \cup {""}, new : S!States \cup {""}]

(***************************************************************************)
(* sm, autoOn: smTaskData.  enable: g_EnablePowerOff, set by a timer that  *)
(* the first power on starts.  limboTimer, force, delayed: messages that   *)
(* headset_sm has sent itself for later.  connected is the charger         *)
(* monitor's flag, plugged the socket.  playing counts mandatory prompts.  *)
(* alone is history, read by properties only: headset_sm has last gone to  *)
(* limbo by itself, while system_state was elsewhere.                      *)
(***************************************************************************)
States ==
    [sm : SmStates, autoOn : BOOLEAN, enable : {"no", "timer", "yes"},
     limboTimer : BOOLEAN, force : BOOLEAN, delayed : BOOLEAN,
     ss : S!Contexts, topo : {"stopped", "starting", "started", "stopping"},
     audio : {"none", "a2dp", "call"}, playing : Nat,
     plugged : BOOLEAN, connected : BOOLEAN,
     pm : {"ok", "notified", "responded"}, on : BOOLEAN, alone : BOOLEAN,
     mq : Seq(Message)]

Send(x, k) == [x EXCEPT !.mq = Append(@, [k |-> k, old |-> "", new |-> ""])]

-----------------------------------------------------------------------------
(* The topology *)

StereoTopology_Start(x) ==
    IF x.topo = "stopped" THEN [x EXCEPT !.topo = "starting"] ELSE x

\* A request while the topology is starting or stopping changes nothing.
StereoTopology_Stop(x) ==
    CASE x.topo = "started" -> [x EXCEPT !.topo = "stopping"]
      [] x.topo = "stopped" -> Send(x, "stop_cfm")
      [] OTHER -> x

-----------------------------------------------------------------------------
(* system_state *)

\* The operation has left system_state in context c: its messages are sent.
Told(x, c) ==
    [x EXCEPT !.ss = [c EXCEPT !.posted = [i \in DOMAIN @ |-> 0], !.ran = 0,
                               !.changes = << >>],
              !.mq = @ \o [i \in 1 .. Len(c.changes) |->
                             [k |-> "change", old |-> c.changes[i][1],
                              new |-> c.changes[i][2]]]]

\* A transition tells its start before it runs its first step, and its end
\* after its last one.  Both shutdown tables switch the chip off.  The prompt
\* of powering on counts as playing from the step that asks for it;
\* appKymeraIsPlayingPrompt turns true some messages later.  A power-off
\* request in that gap is held back all the same: g_EnablePowerOff is set by
\* a timer of three seconds.
SystemState(x, c) ==
    IF c = x.ss THEN x
    ELSE CASE c.state = "powering_on" -> [Told(x, c) EXCEPT !.playing = @ + 1]
           [] c.state = "powering_off" -> StereoTopology_Stop(Told(x, c))
           [] c.state = "active" /\ x.ss.state = "powering_on" ->
                Told(StereoTopology_Start(x), c)
           [] c.state = "powered_off" -> [Told(x, c) EXCEPT !.on = FALSE]
           [] OTHER -> Told(x, c)

SystemState_PowerOn(x) == SystemState(x, S!PowerOn(x.ss))
SystemState_PowerOff(x) == SystemState(x, S!PowerOff(x.ss))
SystemState_Shutdown(x) == SystemState(x, S!Shutdown(x.ss))
SystemState_EmergencyShutdown(x) == SystemState(x, S!EmergencyShutdown(x.ss))

-----------------------------------------------------------------------------
(* The power manager *)

appPowerOffRequest(x) ==
    IF ~x.connected /\ x.pm = "ok"
    THEN Send([x EXCEPT !.pm = "notified"], "prepare") ELSE x

appPowerShutdownPrepareResponse(x) ==
    IF x.pm = "notified" THEN [x EXCEPT !.pm = "responded"] ELSE x

-----------------------------------------------------------------------------
(* headset_sm *)

headsetEnterLimbo(x) ==
    LET y == [x EXCEPT !.limboTimer = TRUE, !.autoOn = FALSE]
    IN  IF x.autoOn THEN Send(y, "ui_on") ELSE y

headsetEnterTerminating(x) ==
    [appPowerShutdownPrepareResponse(x) EXCEPT !.force = TRUE]

headsetSetState(x, new) ==
    LET left == CASE x.sm = "LIMBO" -> [x EXCEPT !.limboTimer = FALSE]
                  [] x.sm = "BUSY" -> StereoTopology_Start(x)
                  [] OTHER -> x
        y == [left EXCEPT !.sm = new]
    IN  CASE new = "LIMBO" -> headsetEnterLimbo(y)
          [] new = "TERMINATING" -> headsetEnterTerminating(y)
          [] OTHER -> y

headsetSmHandlePowerOn(x) ==
    IF x.sm = "LIMBO"
    THEN [SystemState_PowerOn(x) EXCEPT !.enable = IF @ = "no" THEN "timer" ELSE @]
    ELSE x

headsetSmHandleUiInput(x, input) ==
    CASE x.connected -> x
      [] ~x.connected /\ input = "ui_on" -> headsetSmHandlePowerOn(x)
      [] ~x.connected /\ input = "ui_off" ->
           IF x.enable = "yes" THEN Send(x, "power_off") ELSE x
      [] ~x.connected /\ input = "ui_pair" -> Send(x, "pair")

\* SM_INTERNAL_POWER_OFF with a charger asks nothing of system_state.
EnterLimboWithCharger(x) ==
    headsetSetState([x EXCEPT !.alone = (x.ss.state # "limbo")], "LIMBO")

\* Variant: a power-off does not wait for the prompt.
HandlePowerOffAtOnce(x) ==
    {CASE x.connected -> EnterLimboWithCharger(x)
       [] ~x.connected /\ x.sm \in AboveLimbo -> SystemState_PowerOff(x)
       [] OTHER -> x}

\* The outcomes of SM_INTERNAL_POWER_OFF.  While a prompt plays, the message
\* is sent again; any prompt may be playing, the mandatory one is one.
HandlePowerOff(x) ==
    {[x EXCEPT !.delayed = TRUE]} \cup
    (IF x.playing > 0 THEN {}
     ELSE {CASE x.connected -> EnterLimboWithCharger(x)
             [] ~x.connected /\ x.sm \in AboveLimbo -> SystemState_PowerOff(x)
             [] OTHER -> x})

headsetSmHandleInternalPairHandset(x) ==
    IF x.sm = "IDLE" \/ x.audio = "a2dp" THEN headsetSetState(x, "PAIRING") ELSE x

headsetSmHandlePairingPairConfirm(x) ==
    IF x.sm = "PAIRING" THEN headsetSetState(x, "IDLE") ELSE x

\* With a handset in the list of paired devices or without.
headsetSmHandlePoweredOn(x) ==
    {headsetSetState(x, "IDLE"), headsetSetState(x, "PAIRING")}

headsetSmHandleSystemStateChange(x, old, new) ==
    CASE <<old, new>> = <<"starting_up", "limbo">> ->
           {headsetSetState([x EXCEPT !.autoOn = ~x.connected], "LIMBO")}
      [] <<old, new>> = <<"limbo", "powering_on">> -> {headsetSetState(x, "POWERING_ON")}
      [] <<old, new>> = <<"powering_on", "active">> -> headsetSmHandlePoweredOn(x)
      [] <<old, new>> = <<"active", "powering_off">> -> {headsetSetState(x, "POWERING_OFF")}
      [] OTHER -> {x}

headetSmHandleTopologyStopCfm(x) ==
    IF x.sm = "POWERING_OFF"
    THEN appPowerOffRequest(headsetSetState([x EXCEPT !.alone = FALSE], "LIMBO")) ELSE x

headsetSmHandlePowerShutdownPrepareInd(x) ==
    IF x.sm = "LIMBO" THEN appPowerShutdownPrepareResponse(x)
    ELSE headsetSetState(x, "TERMINATING")

headsetSmDetermineCoreState(x) == IF x.audio = "none" THEN "IDLE" ELSE "BUSY"

HandleAudio(x) ==
    IF x.sm \in {"IDLE", "BUSY"} THEN headsetSetState(x, headsetSmDetermineCoreState(x)) ELSE x

\* CHARGER_MESSAGE_ATTACHED: the headset is switched off, but not while it
\* plays music.
HandleAttached(x) ==
    IF x.audio # "a2dp" /\ x.sm \in On \cup {"LIMBO"} THEN SystemState_PowerOff(x) ELSE x

\* Variant: a headset in limbo is left to its timer.
HandleDetachedWaits(x) == IF x.sm \in On THEN SystemState_EmergencyShutdown(x) ELSE x

HandleDetached(x) ==
    CASE x.sm = "LIMBO" -> SystemState_Shutdown(x)
      [] x.sm \in On -> SystemState_EmergencyShutdown(x)
      [] OTHER -> x

-----------------------------------------------------------------------------
(* Messages *)

Charger_UpdateConnected(x, is) ==
    IF x.connected = is THEN x
    ELSE Send([x EXCEPT !.connected = is], IF is THEN "attached" ELSE "detached")

\* A confirmation for the transition task.  The step that waits for the
\* topology has headset_sm's handler, which runs before the walk goes on.
Confirm(x, id) ==
    LET Handler(y) == IF id = "stop_cfm" THEN headetSmHandleTopologyStopCfm(y) ELSE y
    IN  {IF c = x.ss THEN x ELSE SystemState(Handler(x), c) :
            c \in S!MessageHandler(x.ss, id)}

Handle(x, m) ==
    CASE m.k \in {"ui_on", "ui_off", "ui_pair"} -> {headsetSmHandleUiInput(x, m.k)}
      [] m.k = "power_off" -> HandlePowerOff(x)
      [] m.k = "pair" -> {headsetSmHandleInternalPairHandset(x)}
      [] m.k = "pair_cfm" -> {headsetSmHandlePairingPairConfirm(x)}
      [] m.k = "audio" -> {HandleAudio(x)}
      [] m.k = "charger_on" -> {Charger_UpdateConnected(x, TRUE)}
      [] m.k = "charger_off" -> {Charger_UpdateConnected(x, FALSE)}
      [] m.k = "attached" -> {HandleAttached(x)}
      [] m.k = "detached" -> {HandleDetached(x)}
      [] m.k = "prepare" -> {headsetSmHandlePowerShutdownPrepareInd(x)}
      [] m.k \in {"prompt", "stop_cfm"} -> Confirm(x, m.k)
      [] m.k = "change" -> headsetSmHandleSystemStateChange(x, m.old, m.new)

Init ==
    /\ events = 0
    /\ \E plugged \in BOOLEAN :
         d = [sm |-> "NULL", autoOn |-> FALSE, enable |-> "no", limboTimer |-> FALSE,
              force |-> FALSE, delayed |-> FALSE,
              ss |-> [S!InitialContext EXCEPT !.state = "limbo", !.transition = "startup",
                                              !.onCompletion = "limbo"],
              topo |-> "stopped", audio |-> "none", playing |-> 0, plugged |-> plugged,
              connected |-> plugged, pm |-> "ok", on |-> TRUE, alone |-> FALSE,
              mq |-> <<[k |-> "change", old |-> "starting_up", new |-> "limbo"]>>]

Deliver ==
    /\ d.on /\ d.mq # << >>
    /\ d' \in Handle([d EXCEPT !.mq = Tail(@)], Head(d.mq))
    /\ UNCHANGED events

-----------------------------------------------------------------------------
(* Timers: one that expires is queued behind what has been sent before. *)

Unread(k) == \E i \in 1 .. Len(d.mq) : d.mq[i].k = k

Idle == d.on /\ d.mq = << >>

\* The timers of minutes expire when nothing of seconds is under way.
Settled ==
    /\ Idle /\ d.playing = 0 /\ d.pm = "ok" /\ ~d.force /\ ~d.delayed
    /\ d.enable # "timer" /\ d.topo \in {"stopped", "started"}

LimboTimeout ==
    /\ Settled /\ d.limboTimer
    /\ d' = [appPowerOffRequest(d) EXCEPT !.limboTimer = FALSE]
    /\ UNCHANGED events

\* SM_INTERNAL_FORCE_POWER_OFF: the power manager has not finished in time.
ForcePowerOff ==
    /\ Idle /\ d.force
    /\ d' = IF d.sm = "TERMINATING"
            THEN SystemState_EmergencyShutdown([d EXCEPT !.force = FALSE])
            ELSE [d EXCEPT !.force = FALSE]
    /\ UNCHANGED events

PowerOffAgain ==
    /\ Idle /\ d.delayed
    /\ d' = Send([d EXCEPT !.delayed = FALSE], "power_off")
    /\ UNCHANGED events

PowerOffEnabled ==
    /\ Idle /\ d.enable = "timer"
    /\ d' = [d EXCEPT !.enable = "yes"]
    /\ UNCHANGED events

-----------------------------------------------------------------------------
(* The other components *)

TopologyStarted ==
    /\ d.on /\ d.topo = "starting"
    /\ d' = [d EXCEPT !.topo = "started"]
    /\ UNCHANGED events

TopologyStopped ==
    /\ d.on /\ d.topo = "stopping"
    /\ d' = Send([d EXCEPT !.topo = "stopped"], "stop_cfm")
    /\ UNCHANGED events

\* The completion was sent when the prompt began, on the condition that it
\* ends: it is delivered ahead of all that has been sent since.  The prompt of
\* powering off has such a completion too, left out here: system_state waits
\* for another message then and ignores it, and if it comes as late as the
\* next powering on, it ends that sooner.
PromptEnds ==
    /\ d.on /\ d.playing > 0 /\ ~Unread("change")
    /\ d' = [d EXCEPT !.playing = @ - 1,
                      !.mq = <<[k |-> "prompt", old |-> "", new |-> ""]>> \o @]
    /\ UNCHANGED events

\* The last client has answered: off, unless a charger has come meanwhile.
ClientsResponded ==
    /\ d.on /\ d.pm = "responded"
    /\ d' = IF d.connected THEN [d EXCEPT !.pm = "ok"]
            ELSE SystemState_EmergencyShutdown(d)
    /\ UNCHANGED events

Event(x) == d.on /\ events < MaxEvents /\ events' = events + 1 /\ d' = x

\* The firmware debounces the pin for longer than the queue takes to drain.
PlugOrUnplug ==
    /\ \A i \in 1 .. Len(d.mq) :
         d.mq[i].k \notin {"charger_on", "charger_off", "attached", "detached"}
    /\ Event(Send([d EXCEPT !.plugged = ~@], IF d.plugged THEN "charger_off" ELSE "charger_on"))

UserPresses == \E input \in {"ui_on", "ui_off", "ui_pair"} : Event(Send(d, input))

AudioChanges ==
    \E audio \in {"none", "a2dp", "call"} \ {d.audio} :
        d.topo = "started" /\ Event(Send([d EXCEPT !.audio = audio], "audio"))

PairingEnds == d.sm = "PAIRING" /\ Event(Send(d, "pair_cfm"))

\* SM_INTERNAL_TIMEOUT_IDLE: the timer runs in IDLE, with or without a handset.
IdleTimeout ==
    /\ Settled /\ d.sm = "IDLE" /\ d.audio # "call"
    /\ Event(Send(d, "power_off"))

\* The power manager finds the battery empty or the temperature extreme.
BatteryUnsafe == d.pm = "ok" /\ ~d.connected /\ Event(appPowerOffRequest(d))

Next ==
    \/ Deliver
    \/ LimboTimeout \/ ForcePowerOff \/ PowerOffAgain \/ PowerOffEnabled
    \/ TopologyStarted \/ TopologyStopped \/ PromptEnds \/ ClientsResponded
    \/ PlugOrUnplug \/ UserPresses \/ AudioChanges \/ PairingEnds \/ IdleTimeout
    \/ BatteryUnsafe

Spec == Init /\ [][Next]_vars

-----------------------------------------------------------------------------
TypeOK == d \in States

\* A headset that is powering on knows so for as long as the transition lasts
\* and no longer: when all messages are read, system_state is powering on and
\* its prompt still plays.  A power-off request, a charger or a prompt that
\* ends in between never leaves headset_sm in POWERING_ON for good, a state
\* in which it ignores the user and the charger.  All state keeps its types.
\* The prompt is assumed to play: one that repeats the last prompt within five
\* seconds is suppressed (uiPrompt_isNotARepeatPlay), and nothing would
\* complete it; as a rule the prompt of powering off has come in between.
PoweringOnIsUnderWay ==
    /\ TypeOK
    /\ Idle /\ d.sm = "POWERING_ON" => d.ss.state = "powering_on" /\ d.playing > 0

\* A headset that has gone to limbo after start-up or a power off, or by
\* itself while system_state was there already, and that has no charger, is
\* on its way to being switched off when all messages are read: both state
\* machines are in limbo, and the limbo timer runs or the power manager is
\* asking its clients.
LimboIsLeft ==
    Idle /\ d.sm = "LIMBO" /\ ~d.alone /\ ~d.connected =>
        d.ss.state = "limbo" /\ (d.limboTimer \/ d.pm # "ok")

\* What headset_sm.h says of limbo: with a charger the headset stays there,
\* without one it is powered off after the limbo timer, whichever way it got
\* there.  The code's second way in, SM_INTERNAL_POWER_OFF with a charger,
\* leaves system_state active, and nothing then switches the headset off.
LimboEndsInPowerOff ==
    Idle /\ d.sm = "LIMBO" /\ ~d.connected => d.limboTimer \/ d.pm # "ok"
=============================================================================
