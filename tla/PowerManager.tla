---------------------------- MODULE PowerManager ----------------------------
(***************************************************************************)
(* The power manager of adk/src/domains/power/power_manager: it decides    *)
(* when the chip is switched off or put to sleep, and first runs a         *)
(* handshake in which every registered client is asked to prepare.         *)
(*                                                                         *)
(* The chip, the charger monitor, the battery region and the temperature   *)
(* are the environment (hw); the calls into system_state return or stop    *)
(* the chip.  The operations are functions of the record pm, so that a     *)
(* module that composes components can use them inside its own handlers.   *)
(*                                                                         *)
(* POWER_ON and POWER_OFF, which the clients only show to the user, and    *)
(* the performance profile are left out.                                   *)
(***************************************************************************)
EXTENDS Naturals, Sequences, FiniteSets

CONSTANTS
    Clients,    \* tasks that register with appPowerClientRegister
    MaxEvents   \* bound: unread messages in the power manager's own queue,
                \* and changes of the charger pin that are still to be handled

ASSUME MaxEventsAssumption == MaxEvents \in Nat \ {0}

VARIABLES pm, hw

PowerStates ==
    {"INIT", "OK", "TERMINATING_CLIENTS_NOTIFIED", "TERMINATING_CLIENTS_RESPONDED",
     "SOPORIFIC_CLIENTS_NOTIFIED", "SOPORIFIC_CLIENTS_RESPONDED"}

\* The APP_POWER_ messages that clients act upon.
Indications ==
    {"SHUTDOWN_PREPARE", "SHUTDOWN_CANCELLED", "SLEEP_PREPARE", "SLEEP_CANCELLED"}

\* What a client is doing: it was told to prepare and has not answered yet
\* ("preparing_"), it has answered and is not to be disturbed any more
\* ("ready_"), or it works as usual.
Views == {"working", "preparing_shutdown", "ready_shutdown",
          "preparing_sleep", "ready_sleep"}

\* Calls into system_state made by one operation.
Calls == {"none", "Shutdown", "EmergencyShutdown", "Sleep"}

(***************************************************************************)
(* allow, shutdownPending and sleepPending are the clients with the flag   *)
(* APP_POWER_ALLOW_SLEEP, ..._SHUTDOWN_PREPARE_RESPONSE_PENDING or         *)
(* ..._SLEEP_PREPARE_RESPONSE_PENDING.  inbox and view belong to the       *)
(* clients.  initCfm is set when APP_POWER_INIT_CFM has been sent.         *)
(***************************************************************************)
PowerData ==
    [state           : PowerStates,
     clients         : SUBSET Clients,
     allow           : SUBSET Clients,
     shutdownPending : SUBSET Clients,
     sleepPending    : SUBSET Clients,
     user            : BOOLEAN,
     initComplete    : BOOLEAN,
     initCfm         : BOOLEAN,
     inbox           : [Clients -> Seq(Indications)],
     view            : [Clients -> Views],
     call            : Calls]

(***************************************************************************)
(* usb is UsbAttachedStatus(), which is pending while the kind of charger  *)
(* is being found out.  changed holds the MESSAGE_CHARGER_CHANGED messages *)
(* that the charger monitor has not handled; connected is its              *)
(* is_connected.  events counts the unread charger, battery region and     *)
(* temperature messages for the power manager.                             *)
(***************************************************************************)
Hardware ==
    [chip      : {"on", "off", "asleep"},
     usb       : {"detached", "pending", "attached"},
     changed   : Seq(BOOLEAN),
     connected : BOOLEAN,
     charging  : BOOLEAN,
     unsafe    : BOOLEAN,
     extreme   : BOOLEAN,
     events    : 0 .. MaxEvents]

vars == <<pm, hw>>

-----------------------------------------------------------------------------
(* Conditions *)

\* Charger_CanPowerOff without force_allow_power_off, which only the test
\* interface sets (Charger_ForceAllowPowerOff, called from headset_test.c).
CanPowerOff(h) == ~h.connected

CanSleep(p, h) == ~h.charging /\ p.initComplete

\* Variant: the battery is forgotten.
NeedsToPowerOffNoBattery(p, h) == CanPowerOff(h) /\ (h.extreme \/ p.user)

NeedsToPowerOff(p, h) == CanPowerOff(h) /\ (h.extreme \/ p.user \/ h.unsafe)

AllClientsAllowSleep(p) == p.clients \subseteq p.allow

-----------------------------------------------------------------------------
(* States *)

SendToClients(p, m) ==
    [p EXCEPT !.inbox = [c \in Clients |->
        IF c \in p.clients THEN Append(p.inbox[c], m) ELSE p.inbox[c]]]

\* Variant: the clients are not told that a shutdown was given up.
ExitStateSilently(p) ==
    CASE p.state = "INIT" -> [p EXCEPT !.initCfm = TRUE]
      [] p.state = "SOPORIFIC_CLIENTS_RESPONDED" -> SendToClients(p, "SLEEP_CANCELLED")
      [] OTHER -> p

\* Variant: a message of another group is sent instead.
ExitStateOtherMessage(p) ==
    CASE p.state = "INIT" -> [p EXCEPT !.initCfm = TRUE]
      [] p.state = "TERMINATING_CLIENTS_RESPONDED" -> SendToClients(p, "POWER_OFF")
      [] p.state = "SOPORIFIC_CLIENTS_RESPONDED" -> SendToClients(p, "POWER_OFF")
      [] OTHER -> p

\* What leaving a state does.
ExitState(p) ==
    CASE p.state = "INIT" -> [p EXCEPT !.initCfm = TRUE]
      [] p.state = "TERMINATING_CLIENTS_RESPONDED" ->
             SendToClients(p, "SHUTDOWN_CANCELLED")
      [] p.state = "SOPORIFIC_CLIENTS_RESPONDED" -> SendToClients(p, "SLEEP_CANCELLED")
      [] OTHER -> p

SetOk(p) == [ExitState(p) EXCEPT !.state = "OK", !.user = FALSE]

\* returns: system_state comes back from the call, because the chip goes on.
\* With ENABLE_APP_FIX_PO_NOISE every shutdown is an emergency shutdown.
SetTerminatingResponded(p, h, returns) ==
    LET q == [ExitState(p) EXCEPT !.state = "TERMINATING_CLIENTS_RESPONDED"]
        shut == [q EXCEPT !.call = "EmergencyShutdown"]
    IN  CASE ~NeedsToPowerOff(q, h) -> SetOk(q)
          [] NeedsToPowerOff(q, h) /\ returns -> SetOk(shut)
          [] NeedsToPowerOff(q, h) /\ ~returns -> shut

SetTerminatingNotified(p, h, returns) ==
    LET q == [ExitState(p) EXCEPT !.state = "TERMINATING_CLIENTS_NOTIFIED"]
    IN  IF q.clients = {} THEN SetTerminatingResponded(q, h, returns)
        ELSE [SendToClients(q, "SHUTDOWN_PREPARE")
                 EXCEPT !.shutdownPending = q.clients]

\* A call to system_state that returns leaves the state as it is.
SetSoporificResponded(p, h) ==
    LET q == [ExitState(p) EXCEPT !.state = "SOPORIFIC_CLIENTS_RESPONDED"]
    IN  IF CanSleep(q, h) THEN [q EXCEPT !.call = "Sleep"] ELSE SetOk(q)

SetSoporificNotified(p, h) ==
    LET q == [ExitState(p) EXCEPT !.state = "SOPORIFIC_CLIENTS_NOTIFIED"]
    IN  IF q.clients = {} THEN SetSoporificResponded(q, h)
        ELSE [SendToClients(q, "SLEEP_PREPARE") EXCEPT !.sleepPending = q.clients]

-----------------------------------------------------------------------------
(* Operations *)

HandlePowerEvent(p, h, returns) ==
    CASE p.state = "INIT" /\ NeedsToPowerOff(p, h) /\ ~returns ->
             [p EXCEPT !.call = "Shutdown"]
      [] p.state = "INIT" /\ NeedsToPowerOff(p, h) /\ returns ->
             SetOk([p EXCEPT !.call = "Shutdown"])
      [] p.state = "INIT" /\ ~NeedsToPowerOff(p, h) -> SetOk(p)
      [] p.state = "OK" /\ NeedsToPowerOff(p, h) ->
             SetTerminatingNotified(p, h, returns)
      [] /\ p.state = "OK" /\ ~NeedsToPowerOff(p, h)
         /\ AllClientsAllowSleep(p) /\ CanSleep(p, h) -> SetSoporificNotified(p, h)
      [] OTHER -> p

InitComplete(p, h, returns) ==
    HandlePowerEvent([p EXCEPT !.initComplete = TRUE], h, returns)

PowerOffRequest(p, h, returns) ==
    IF CanPowerOff(h) /\ p.state = "OK"
    THEN SetTerminatingNotified([p EXCEPT !.user = TRUE], h, returns)
    ELSE p

\* A task that registers twice is ignored.  Registering in POWER_STATE_INIT
\* panics; see appPowerClientRegister for when that cannot happen.
ClientRegister(p, c) ==
    LET q == [p EXCEPT !.clients = @ \cup {c}]
    IN  CASE c \in p.clients -> p
          [] c \notin p.clients /\ p.state = "TERMINATING_CLIENTS_NOTIFIED" ->
                 [q EXCEPT !.shutdownPending = @ \cup {c},
                           !.inbox[c] = Append(@, "SHUTDOWN_PREPARE")]
          [] c \notin p.clients /\ p.state = "SOPORIFIC_CLIENTS_NOTIFIED" ->
                 [q EXCEPT !.sleepPending = @ \cup {c},
                           !.inbox[c] = Append(@, "SLEEP_PREPARE")]
          [] OTHER -> q

\* The test of the other clients is made even for a task that is no client.
ClientAllowSleep(p, h, c) ==
    LET q == [p EXCEPT !.allow = @ \cup ({c} \cap p.clients)]
    IN  IF q.state = "OK" /\ AllClientsAllowSleep(q) /\ CanSleep(q, h)
        THEN SetSoporificNotified(q, h)
        ELSE q

ClientProhibitSleep(p, c) == [p EXCEPT !.allow = @ \ {c}]

\* Variant: one answer stands for all.
ShutdownPrepareResponseAny(p, h, returns, c) ==
    IF p.state = "TERMINATING_CLIENTS_NOTIFIED" /\ c \in p.clients
    THEN SetTerminatingResponded([p EXCEPT !.shutdownPending = {}], h, returns)
    ELSE p

ShutdownPrepareResponse(p, h, returns, c) ==
    LET q == [p EXCEPT !.shutdownPending = @ \ {c}]
    IN  CASE p.state # "TERMINATING_CLIENTS_NOTIFIED" \/ c \notin p.clients -> p
          [] OTHER -> IF q.shutdownPending = {}
                      THEN SetTerminatingResponded(q, h, returns) ELSE q

SleepPrepareResponse(p, h, c) ==
    LET q == [p EXCEPT !.sleepPending = @ \ {c}]
    IN  CASE p.state # "SOPORIFIC_CLIENTS_NOTIFIED" \/ c \notin p.clients -> p
          [] OTHER -> IF q.sleepPending = {} THEN SetSoporificResponded(q, h) ELSE q

\* Variant: a client is dropped without an answer on its behalf.
ClientUnregisterOnly(p, h, returns, c) ==
    [p EXCEPT !.clients = @ \ {c}, !.allow = @ \ {c},
              !.shutdownPending = @ \ {c}, !.sleepPending = @ \ {c},
              !.inbox[c] = << >>, !.view[c] = "working"]

\* The data of a client, its flags included, goes when it is removed.
ClientUnregister(p, h, returns, c) ==
    LET p1 == ClientAllowSleep(p, h, c)
        p2 == ShutdownPrepareResponse(p1, h, returns, c)
        p3 == SleepPrepareResponse(p2, h, c)
    IN  [p3 EXCEPT !.clients = @ \ {c}, !.allow = @ \ {c},
                   !.shutdownPending = @ \ {c}, !.sleepPending = @ \ {c},
                   !.inbox[c] = << >>, !.view[c] = "working"]

-----------------------------------------------------------------------------
(* The system *)

InitialPower ==
    [state |-> "INIT", clients |-> {}, allow |-> {}, shutdownPending |-> {},
     sleepPending |-> {}, user |-> FALSE, initComplete |-> FALSE,
     initCfm |-> FALSE, inbox |-> [c \in Clients |-> << >>],
     view |-> [c \in Clients |-> "working"], call |-> "none"]

\* After a start the battery region is unknown, and registration with the
\* charger monitor has sent the power manager its first message.
StartHardware ==
    {[chip |-> "on", usb |-> u, changed |-> << >>, connected |-> u # "detached",
      charging |-> FALSE, unsafe |-> FALSE, extreme |-> FALSE, events |-> 1] :
        u \in {"detached", "pending", "attached"}}

Init == pm = InitialPower /\ hw \in StartHardware

Running == hw.chip = "on"
Fresh == [pm EXCEPT !.call = "none"]

(***************************************************************************)
(* pm becomes r, and the chip may stop in the call that r has made.  The   *)
(* step of an emergency shutdown, appPowerDoPowerOff, comes back exactly   *)
(* when the kind of charger is still being found out; system_state may     *)
(* refuse the other two calls.                                             *)
(***************************************************************************)
Commit(r, h, returns) ==
    /\ r.call = "none" => returns
    /\ r.call = "EmergencyShutdown" => (returns <=> h.usb = "pending")
    /\ pm' = r
    /\ hw' = [h EXCEPT
           !.chip = IF returns THEN @ ELSE IF r.call = "Sleep" THEN "asleep" ELSE "off"]

\* appPowerHandleMessage with a charger, battery region or temperature message.
appPowerHandleMessage ==
    /\ Running /\ hw.events > 0
    /\ LET h == [hw EXCEPT !.events = @ - 1]
       IN  \E returns \in BOOLEAN :
               Commit(HandlePowerEvent(Fresh, h, returns), h, returns)

\* Called once, when the application is initialised.
appPowerInitComplete ==
    /\ Running /\ pm.initCfm /\ ~pm.initComplete
    /\ \E returns \in BOOLEAN : Commit(InitComplete(Fresh, hw, returns), hw, returns)

appPowerOffRequest ==
    /\ Running
    /\ \E returns \in BOOLEAN : Commit(PowerOffRequest(Fresh, hw, returns), hw, returns)

\* The initialisation steps that register clients come after the one that
\* waits for APP_POWER_INIT_CFM, hence not in POWER_STATE_INIT.
appPowerClientRegister(c) ==
    /\ Running /\ pm.initCfm
    /\ Commit(ClientRegister(Fresh, c), hw, TRUE)

appPowerClientUnregister(c) ==
    /\ Running /\ pm.initCfm
    /\ \E returns \in BOOLEAN :
           Commit(ClientUnregister(Fresh, hw, returns, c), hw, returns)

appPowerClientAllowSleep(c) ==
    /\ Running /\ c \in pm.clients
    /\ \E returns \in BOOLEAN :
           Commit(ClientAllowSleep(Fresh, hw, c), hw, returns)

appPowerClientProhibitSleep(c) ==
    /\ Running /\ c \in pm.clients
    /\ Commit(ClientProhibitSleep(Fresh, c), hw, TRUE)

\* A client reads its next message.
ClientReceives(c) ==
    /\ Running /\ pm.inbox[c] # << >>
    /\ pm' = [Fresh EXCEPT
           !.inbox[c] = Tail(@),
           !.view[c] = CASE Head(pm.inbox[c]) = "SHUTDOWN_PREPARE" -> "preparing_shutdown"
                         [] Head(pm.inbox[c]) = "SLEEP_PREPARE" -> "preparing_sleep"
                         [] OTHER -> "working"]
    /\ UNCHANGED hw

\* A client that has prepared says so, once.
appPowerShutdownPrepareResponse(c) ==
    /\ Running /\ pm.view[c] = "preparing_shutdown"
    /\ LET p == [Fresh EXCEPT !.view[c] = "ready_shutdown"]
       IN  \E returns \in BOOLEAN :
               Commit(ShutdownPrepareResponse(p, hw, returns, c), hw, returns)

appPowerSleepPrepareResponse(c) ==
    /\ Running /\ pm.view[c] = "preparing_sleep"
    /\ LET p == [Fresh EXCEPT !.view[c] = "ready_sleep"]
       IN  \E returns \in BOOLEAN :
               Commit(SleepPrepareResponse(p, hw, c), hw, returns)

-----------------------------------------------------------------------------
(* The environment *)

\* Plugging or unplugging changes the pin, and each change sends a message.
PinChanges(status, plugged) ==
    /\ Running /\ Len(hw.changed) < MaxEvents
    /\ hw' = [hw EXCEPT !.usb = status, !.changed = Append(@, plugged)]
    /\ UNCHANGED pm

ChargerPlugged == hw.usb = "detached" /\ PinChanges("pending", TRUE)

ChargerUnplugged == hw.usb # "detached" /\ PinChanges("detached", FALSE)

\* The kind of charger has been found out.
ChargerDetected ==
    /\ Running /\ hw.usb = "pending"
    /\ hw' = [hw EXCEPT !.usb = "attached"]
    /\ UNCHANGED pm

ChargingStarts ==
    /\ Running /\ hw.connected /\ ~hw.charging
    /\ hw' = [hw EXCEPT !.charging = TRUE]
    /\ UNCHANGED pm

\* A charger monitor, battery region or temperature message for the power
\* manager, sent with the change of state it tells of.
Notify(h) ==
    /\ Running /\ hw.events < MaxEvents
    /\ hw' = [h EXCEPT !.events = hw.events + 1]
    /\ UNCHANGED pm

\* Variant: the clients of the charger monitor are told of chargers that
\* come and not of chargers that go.
ChargerMonitorTellsAttachOnly ==
    /\ Running /\ hw.changed # << >>
    /\ LET h == [hw EXCEPT !.changed = Tail(@), !.connected = Head(hw.changed),
                           !.charging = @ /\ Head(hw.changed)]
       IN  IF h.connected = hw.connected \/ ~h.connected
           THEN hw' = h /\ UNCHANGED pm
           ELSE Notify(h)

\* The charger monitor handles a change of the pin: Charger_UpdateConnected
\* notifies its clients when is_connected changes.
ChargerMonitorHandlesChange ==
    /\ Running /\ hw.changed # << >>
    /\ LET h == [hw EXCEPT !.changed = Tail(@), !.connected = Head(hw.changed),
                           !.charging = @ /\ Head(hw.changed)]
       IN  IF h.connected = hw.connected THEN hw' = h /\ UNCHANGED pm
           ELSE Notify(h)

ChargingCompleted ==
    /\ hw.charging
    /\ Notify([hw EXCEPT !.charging = FALSE])

BatteryRegionChanges == Notify([hw EXCEPT !.unsafe = ~@])

TemperatureChanges == Notify([hw EXCEPT !.extreme = ~@])

\* The chip starts again from a wake-up source: nothing is remembered.
Boot ==
    /\ ~Running
    /\ pm' = InitialPower /\ hw' \in StartHardware

Environment ==
    \/ ChargerPlugged \/ ChargerUnplugged \/ ChargerDetected
    \/ ChargingStarts \/ ChargingCompleted \/ ChargerMonitorHandlesChange
    \/ BatteryRegionChanges \/ TemperatureChanges \/ Boot

Next ==
    \/ appPowerHandleMessage
    \/ appPowerInitComplete
    \/ appPowerOffRequest
    \/ \E c \in Clients :
          \/ appPowerClientRegister(c)
          \/ appPowerClientUnregister(c)
          \/ appPowerClientAllowSleep(c)
          \/ appPowerClientProhibitSleep(c)
          \/ ClientReceives(c)
          \/ appPowerShutdownPrepareResponse(c)
          \/ appPowerSleepPrepareResponse(c)
    \/ Environment

Spec == Init /\ [][Next]_vars

\* The scheduler delivers messages, and clients do answer.  The charger
\* monitor's handler needs strong fairness only because MaxEvents disables
\* it while the queue of the power manager is full.
Fairness ==
    /\ WF_vars(appPowerHandleMessage)
    /\ SF_vars(ChargerMonitorHandlesChange)
    /\ \A c \in Clients :
          /\ WF_vars(ClientReceives(c))
          /\ WF_vars(appPowerShutdownPrepareResponse(c))
          /\ WF_vars(appPowerSleepPrepareResponse(c))

FairSpec == Spec /\ Fairness

-----------------------------------------------------------------------------
(* Properties *)

\* The power manager's data and the hardware's view have their types.
TypeOK == pm \in PowerData /\ hw \in Hardware

\* The messages of kind m that client c has yet to read.
Unread(c, m) == Cardinality({i \in 1 .. Len(pm.inbox[c]) : pm.inbox[c][i] = m})

\* A response is pending from exactly those clients that have one prepare
\* indication to read or to answer, whoever registers, unregisters or
\* answers in the middle of a handshake; and a notified state always waits
\* for somebody.  Otherwise the handshake would hang or end early.
HandshakeWaitsForClients ==
    Running =>
        /\ \A c \in Clients :
              /\ Unread(c, "SHUTDOWN_PREPARE")
                    + (IF pm.view[c] = "preparing_shutdown" THEN 1 ELSE 0)
                 = (IF c \in pm.shutdownPending THEN 1 ELSE 0)
              /\ Unread(c, "SLEEP_PREPARE")
                    + (IF pm.view[c] = "preparing_sleep" THEN 1 ELSE 0)
                 = (IF c \in pm.sleepPending THEN 1 ELSE 0)
        /\ (pm.shutdownPending # {}) <=> (pm.state = "TERMINATING_CLIENTS_NOTIFIED")
        /\ (pm.sleepPending # {}) <=> (pm.state = "SOPORIFIC_CLIENTS_NOTIFIED")

\* A client that has made itself ready to lose power is either part of a
\* shutdown or sleep that is still going on, or about to read that it was
\* cancelled: no client stays prepared for something that was given up.  A
\* sleep that system_state refuses is not given up: its clients stay prepared
\* (SleepRefused below).
NoStrandedClient ==
    Running => \A c \in Clients :
        /\ pm.view[c] = "ready_shutdown" =>
              \/ pm.state = "TERMINATING_CLIENTS_NOTIFIED"
              \/ Unread(c, "SHUTDOWN_CANCELLED") > 0
        /\ pm.view[c] = "ready_sleep" =>
              \/ pm.state \in {"SOPORIFIC_CLIENTS_NOTIFIED", "SOPORIFIC_CLIENTS_RESPONDED"}
              \/ Unread(c, "SLEEP_CANCELLED") > 0

\* Power is taken away only for a reason that holds at that moment, without
\* a charger, and with every registered client prepared for it.
PowerOffIsAgreed ==
    /\ hw.chip = "off" /\ pm.call = "EmergencyShutdown" =>
          /\ NeedsToPowerOff(pm, hw)
          /\ \A c \in pm.clients :
                pm.view[c] = "ready_shutdown" /\ pm.inbox[c] = << >>
    /\ hw.chip = "asleep" =>
          /\ ~hw.charging
          /\ \A c \in pm.clients : pm.view[c] = "ready_sleep" /\ pm.inbox[c] = << >>

\* A reason to power off is never overlooked: while the power manager sits
\* in POWER_STATE_OK with such a reason, a message that makes it look again
\* is on its way, also after an attempt that failed because "charger
\* detection [is] ongoing. Check charger again later" (appPowerDoPowerOff).
NoMissedPowerOff ==
    Running /\ pm.state = "OK" /\ NeedsToPowerOff(pm, hw)
        => hw.events > 0 \/ hw.changed # << >>

\* From some time on no task registers or unregisters any more.
ClientsSettle == <>[][pm'.clients = pm.clients]_vars

\* Every handshake comes to an end, unless tasks come and go for ever.
HandshakeEnds ==
    ClientsSettle =>
        /\ (pm.state = "TERMINATING_CLIENTS_NOTIFIED")
              ~> (pm.state # "TERMINATING_CLIENTS_NOTIFIED")
        /\ (pm.state = "SOPORIFIC_CLIENTS_NOTIFIED")
              ~> (pm.state # "SOPORIFIC_CLIENTS_NOTIFIED")

\* system_state has refused the sleep that every client agreed to: the chip
\* is on, the state stays POWER_STATE_SOPORIFIC_CLIENTS_RESPONDED, and
\* appPowerHandlePowerEvent drops what is reported from then on.
SleepRefused == Running /\ pm.state = "SOPORIFIC_CLIENTS_RESPONDED"

\* An unsafe battery without a charger makes the chip stop, switched off or
\* asleep, or a sleep is refused; the reason may turn up in the middle of a
\* handshake for sleep or for a shutdown by the user, or while a charger is
\* plugged and pulled.  After a sleep that was refused nothing is claimed: the
\* code stays where it is with the chip on and the battery unsafe.
UnsafeBatteryPowersOff ==
    ClientsSettle =>
        (hw.unsafe /\ hw.usb = "detached") ~>
            ~hw.unsafe \/ hw.usb # "detached" \/ ~Running \/ SleepRefused
=============================================================================
