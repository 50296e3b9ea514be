# Formal model of the MH40W headset firmware: power and topology

This directory holds TLA+ models of the part of the firmware that decides
when the headset is on, when it charges, when its power is cut and which
connections it keeps, and of the message queue all of it runs on, with TLC
configurations that check them on small instances and TLAPS proofs of the
most important results.  `PROJECT.json` maps every definition to source lines.

The repository is the Qualcomm ADK with the application of the Master & Dynamic
MH40W headset (`headset/src`), built from
`headset/workspace/QCC5141-AA_DEV-BRD-R2-AA/headset.x2p`.  Conditional code is
modelled as that project file selects it (`INCLUDE_CHARGER`,
`INCLUDE_CHARGER_DETECT`, `ENABLE_APP_NTC_HANDLE`,
`ENABLE_APP_BATTERY_CHARGER_PIO_SETTING`, fast charge current 350 mA with an
external resistor, and so on).  The firmware runs on one cooperative
scheduler: a message handler runs to its end before the next one starts, so
one handler is one TLA+ action, and concurrency is the order in which messages,
timers and hardware events are delivered.  That order is itself code of the
repository (`trap_api_message.c`), and `AppMessages` models it.

## Inventory

| Component | State it keeps | Operations | Interacts with |
|---|---|---|---|
| `system_state` | state, current transition table and index, end state | seven transitions, confirmations | called by `power_manager` and `headset_sm`; its steps call other components, which confirm by message |
| `power_manager` | state of the shutdown or sleep handshake, flags of each client, reason of the user | register, unregister, allow or prohibit sleep, prepare responses, power-off request, events | `charger_monitor`, `battery_region`, `temperature` send events; calls `system_state` |
| `charger_monitor` | connection, charger kind, current limits, set of reasons to disable charging, probing of wall chargers | firmware, USB, status and timer messages, ADC results | tells `battery_region`, `power_manager`, `headset_sm`; reads the region's current |
| `battery_region` | table and row in use, charging timer and its flag | periodic update, timer, charger messages | drives `charger_monitor`, tells `power_manager` |
| `headset_sm` | application state, timers that report a full battery, pin of the external charger | UI, system state, topology, charger and timer messages | all of the above and the topology |
| message queue (`trap_api_message.c`) | messages in the order in which they are due, messages delivered and retained, event and timer of the scheduler | send now, later or on a condition, cancel, flush, retain, free, deliver | carries every message between the other components |
| `rules_engine`, `goals_engine`, `script_engine`, `stereo_topology` | events and rule statuses; active and queued goals with locks; position in a script | set and complete events, activate, cancel and complete goals | `handset_service`, `connection_manager`, `headset_sm` |
| `handset_service`, `connection_manager`, `bredr_scan_manager`, `bandwidth_manager`, `profile_manager`, `pairing` | links, requests of clients for links, scans and profiles | connect, disconnect, enable, requests that overtake each other | Bluetooth library |
| `upgrade`, `rwcp_server` | update state stored in flash; receive window | packets, timeouts, restart | GAIA |
| audio (`kymera`, `audio_router`), `ui`, `led_manager`, voice services, USB classes, profile libraries | graphs, patterns, protocol data | | |

What is hard in this code:

- messages about the charger, the battery and the USB host that arrive late
  or in an order that differs from what happened at the socket;
- handshakes in which clients join, leave or change their mind half-way;
- transitions that replace each other while confirmations of the first are
  still in flight;
- timers that race the message that should have stopped them;
- attempts to cut the power that come back, because the hardware does not
  allow it at that moment;
- decisions that wait for a goal to end while the topology is stopped, times
  out and is started again;
- state machines that mirror each other through messages (`headset_sm` and
  `system_state`) and disagree in between, or for good.

`PROJECT.json` lists these as hazards, each at its line with the properties
that watch it.  What makes the modelled components correct:

- `system_state`: no transition waits for ever, no step is skipped or repeated,
  only documented changes of state are announced;
- `power_manager`: a handshake waits for exactly the clients that still have to
  answer, no client is left prepared for a shutdown that was given up, power is
  cut only for a reason that still holds, a reason is never overlooked;
- `charger_monitor`: the current follows the charger, the host and the battery;
  charging is off exactly while a reason says so; probing ends in bounds;
- `battery_region`: the row in use fits the readings, an expired timer keeps
  charging off until the charger is unplugged, the check for a full battery
  ends with the charger;
- message queue: no message that may be delivered is forgotten, none is
  delivered before it is due, a retained payload is kept until it is freed;
- `rules_engine`, `goals_engine`: no event stays set with nobody to serve it, only
  goals declared concurrent run together, a decision that waits is let in;
- `stereo_topology`: it starts and stops, whatever the services do, and no handler
  panics on the way; after a stop the headset is closed;
- `headset_sm`: it is in `POWERING_ON` only while powering on lasts, and a
  headset in limbo without a charger is switched off.

## Modules

`SystemState` — the transition engine (`system_state.c`).  The variable `ss` is
the context (`state`, `transition`, `index`, `onCompletion`, `limboRemoved`),
plus the confirmations in flight (`posted`), the state-change messages that the
last operation sent (`changes`) and the number of steps the current transition
has run (`ran`).  The operations (`PowerOn(s)`, `MessageHandler(s, id)`, ...) are
functions of the record, so that a composing module can use them inside its own
handlers; the actions apply them.  The tables registered in
`headset_init.c` are the constant `Table`, which gives the confirmation id of
each step.  Reading behind the end of a table, which a late
confirmation makes the handler do, is a nondeterministic choice.

`PowerManager` — `power_manager*.c`.  `pm` is the task data with the flags of the
clients as sets, an inbox for each client and what the client is doing
(`view`); `hw` is what the power manager reads of charger, battery,
temperature and chip.  A call to `system_state` is recorded in `call`, and the
chip may stop in it (`Commit`): `appPowerDoPowerOff` comes back exactly while the
kind of charger is being detected, and `system_state` may refuse the other calls.

`Charger` — the data and all functions of `charger_monitor.c`, `charger_detect.c`,
`charger_detect_config.c` and `charger_vchg_monitor.c` as functions of one record.
`ChargerMonitor` — the task around them: one action for each message of
`charger_HandleMessage`, the socket, the USB host, and the other
components that set reasons or the pin of the external charger.

`BatteryRegion` — `battery_region.c` with the tables of
`headset_region_config.c` (module `HeadsetRegionConfig`) and the charger part of
`headset_sm.c`, composed with `ChargerMonitor`: the region takes the place of the
monitor's environment, and the messages of the monitor wait in an inbox
for each client.  `ImplementsMonitor` states that this composition
refines `ChargerMonitor`, so that the monitor's own invariants hold in it; it is
checked and proved.

`RulesEngine` — `rules_engine.c` as functions of the record `rs`.  Alone, it stands
between clients that raise or reset events and a task that reports each decision
as complete when it is delivered.  `rule_flag_always_evaluate` and the NOP messages
are left out; no table of the headset uses them.

`GoalsEngine` — `goals_engine.c` as functions of the record `gs`: active goals, the
slots of pending goals with their locks, the decisions that wait on a slot, and
cancellation, exclusion and concurrency.  `GoalSchedule` is the abstract
specification: only goals that are declared concurrent run together, a waiting
decision is dropped only by a goal that cancels or excludes it, and one that waits
while nothing runs is let in.  `ImplementsSchedule` states the refinement
(active goals are `running`, the decisions on a slot are `waiting`), with its liveness.

`StereoTopology` — `stereo_topology*.c` with the headset's tables of rules,
goals and the stop script, composed of the operations of `RulesEngine` and
`GoalsEngine`, the script engine, the procedures and the queue between them.  The
handset service, the connection manager and the LE advertising manager are external:
they answer a request at any later time.  Abstractions: a paired handset stays
paired; the pairing activity and the flag of the power key only keep the
connect rule from running, as a prohibition does, and are represented by it;
the indications to clients (`STEREO_TOPOLOGY_HANDSET_DISCONNECTED_IND`) are left out;
a link that is lost is reconnected like any other (`link_loss` is a parameter of the
request to the handset service, which is external here); disconnecting all handsets completes when no link is left; the
stop script's procedures always succeed, as their code does.

`AppMessages` — `trap_api_message.c`, with the scheduler's task, event and timer as
that file uses them.  A message carries the time that is left until it is really
due (`left`), beside the due time the code computes modulo `Wrap`; the properties compare
the two.  Every recipient of a message may retain it, and one may do so several times; `held`
counts what the application still has to free, up to `MaxRetained`, which is less than
255 because `refcount` is a `uint8`.  System messages come from the other processor with
either value of `allow_duplicates`.  There is one group of messages that replace each other.
`latest` is history: what was posted last to a task, or `None` from the time a duplicate is let in
beside another of its group until they have gone.

`HeadsetPower` — `headset_sm.c` composed with `SystemState`'s operations on
the headset's own tables.  The topology and the power manager are what
`StereoTopology` and `PowerManager` promise of them: a stop is confirmed once, a
power-off request is followed by the clients' answers and a second look at the
charger.  `d` is the state of these components and the queue of messages, `events` counts
what happens outside.

The theorems are in `SystemStateProofs`, `PowerManagerProofs`,
`GoalsEngineProofs`, `RulesEngineProofs`, `BatteryRegionProofs` (which also has those of
`ChargerMonitor`), `AppMessagesProofs`, `StereoTopologyProofs` and `HeadsetPowerProofs`; the modules named
`MC...` give constants their values.  Definitions marked `Variant:` are altered
forms of the one that follows them, each the way a plausible mistake in
the code would alter it; every property has one that breaks it.

## Runs

| Run | Instance | Checks |
|---|---|---|
| `system_state` | tables in which every transition waits, with ids shared between steps and tables | no lost wake-up, nothing skipped, documented changes only, a quiet engine becomes stable |
| `power_manager` | two clients, two queued messages | handshakes with clients that register or leave in the middle, reasons that come and go; handshakes end and an unsafe battery stops the chip, unless a sleep has been refused |
| `charger_host` | the headset's currents, a USB host, two queued messages per source | reasons, current, connection, suspension (current and the request to the power supply) |
| `charger_wall` | a wall charger with a fast current of 1400 mA, steps of 500 mA | probing is alive, resumes and stays in range |
| `battery_region` | the headset's tables, two voltages and three temperatures, two queued messages per client | rows, timers, currents, refinement of `ChargerMonitor` |
| `rules_engine` | four rules of two events that share a decision | no rule waits in vain, no event stays set unserved |
| `goals_engine` | five goals of all kinds of contention, five slots, two decisions waiting | slots, locks, refinement of `GoalSchedule` |
| `app_messages` | two tasks, two payloads held up to twice, a clock that wraps at 6, system messages with and without duplicates | no lost wake-up, never early, retained payloads, combined system messages |
| `stereo_topology` | two handsets, four events from outside | no panic, open when started, clean when stopped, goals, stops and starts end |
| `stereo_topology_unlinked` | two handsets, requests to disconnect one | **violated**: a stop is confirmed with a handset linked |
| `headset_power` | five events from outside | powering on ends, a limbo that `headset_sm` did not enter alone is left |
| `headset_power_limbo` | three events from outside | **violated**: limbo without a charger that nothing ends |

The two violated statements are quoted from the repository's headers in
`PROJECT.json` under `findings`.  In `stereo_topology_unlinked` the requests for one handset
and for all share a callback, and the late answer to the cancelled one completes
the step that disconnects all; `stereo_topology` leaves that request
(`user_lru`) out and checks that a stop is otherwise clean.  In
`headset_power_limbo` a power-off that finds a charger moves only `headset_sm` to
limbo; `system_state` stays active and refuses the shutdown when the charger
goes.  `LimboIsLeft` is what does hold: a headset that went to limbo any other way
shares it with `system_state` and is on its way off.  The field `alone` of `d` is
history and says which way it was; no action reads it.  That both machines are in
limbo now would not be enough: after such a lone limbo a power-on that is refused and a charger
that comes and goes can bring `system_state` to limbo behind it, in six events, and no
timer runs then either.

Bounds.  `MaxPosted = 2` lets a transition be replaced with the old
confirmation still in flight, and once more.  What is proved (below) holds for every
value of the constants.  In `power_manager`, `MaxEvents = 2` allows a message to arrive behind one that is unread,
which is where an overlooked reason would hide; two clients let one answer while
the other leaves and joins again in the same handshake (there is no symmetry
because liveness is checked).  `MaxQueue = 2` lets a charger be unplugged and
plugged in again before the first message is handled.  The voltages and temperatures of
`battery_region` select rows with full, reduced and no current and readings
that no row holds.  The currents of `charger_wall` are larger than the
product's because 350 mA is below the minimum that every wall charger delivers:
in the product probing never starts, and the run checks the code for the boards
on which it does.  Steps of 500 mA keep the number of limits small
(500, 1000 and 1500 mA) and, like the product's step of 10 mA, divide the
range between the minimum and what a dedicated charger offers.

The tables of `rules_engine` and `goals_engine` keep one example of every kind in
`stereo_topology_rules.c` and `stereo_topology_goals.c`: an event with
several rules, a decision that two events share, goals that wait, exclude each other,
run concurrently or cancel all; there are as few slots as goals.
`stereo_topology` has the complete tables; four events (272 849 states) are enough
for start, stop, the stop's timeout, a second start and a link that is lost.
`app_messages` wraps its clock at 6 so that every delay it uses can straddle the wrap,
and delivers what is due before time passes (`MaxAge = 0`); tasks and payloads are
interchangeable.  `MaxRetained = 2` lets both recipients of a multicast retain it, or one
twice, so that references reach three (2.5 million states).  `headset_power` allows five events
(3.2 million states): power on, plug, unplug, audio and a power-off in any order; three are
enough for the violated run.  The invariant of the proof was checked with six (26 million
states), and the theorems hold for every number.

`CHECK_DEADLOCK FALSE` is used where the system may really stop: in
`stereo_topology` and `headset_power` the bound on events is used up, or the chip is off, and
in `app_messages` a handler may wait with the bounds used up.

Fairness.  `SystemState`: whoever is asked for a confirmation sends it and the
scheduler delivers it (weak fairness of `Deliver`); nobody has to call an
operation.  `PowerManager`: weak fairness of message delivery and of the
clients' answers, which power_manager.h requires of them; strong fairness of the charger
monitor's handler, needed only because `MaxEvents` disables it while the
queue of the power manager is full, which a real queue never is.  Liveness is stated under
the premise that tasks do not register and unregister for ever.  `GoalsEngine`: a
message that is not held back is delivered, and procedures end.  `StereoTopology`:
messages are delivered and the stop timer expires (weak fairness of `Deliver`, written
out as "infinitely often nothing is due, or infinitely often a message is delivered",
and of `HandleStopTimeout`).  `StoppingEnds` needs no more: the services may never answer.
`StartingEnds` has their answers as its premise.  There is no fairness
in the charger modules, in `RulesEngine`, `AppMessages` and `HeadsetPower`: what must not be
lost there is stated as an invariant (who waits has something on its way), which
holds without any assumption on scheduling.

## Proofs

Every theorem holds for all values of the constants that satisfy the modules' named
assumptions.  Each rests on one inductive invariant per module, which TLC checked
on the module's run before it was proved; none of the properties is inductive alone.

| Module | Theorems | Property |
|---|---|---|
| `SystemStateProofs` | `EngineTypeOK`, `EngineNoLostWakeup`, `EngineStableIsFinished`, `EngineTransitionGraph` | `TypeOK`, `NoLostWakeup`, `StableIsFinished`, `TransitionGraph` |
| `PowerManagerProofs` | `PowerTypeOK`, `PowerNoMissedPowerOff`, `PowerHandshakeWaits`, `PowerNoStrandedClient`, `PowerOffAgreed` | `TypeOK`, `NoMissedPowerOff`, `HandshakeWaitsForClients`, `NoStrandedClient`, `PowerOffIsAgreed` |
| `GoalsEngineProofs` | `GoalsLocks`, `GoalsSlots`, `GoalsRefineSchedule` | `LocksFollowActiveGoals`, `SlotForEveryGoal`, the safety part of `ImplementsSchedule` |
| `RulesEngineProofs` | `RulesInProgress`, `RulesServe` | `InProgressIsOnItsWay`, `SetEventIsServed` |
| `BatteryRegionProofs` (the monitor alone) | `ChargerReasons`, `ChargerCurrent`, `ChargerSocket`, `ChargerSuspend`, `ChargerProbe`, `ChargerResumes`, `ChargerLimit` | `ReasonsMatchState`, `CurrentIsAllowed`, `FollowsSocket`, `SuspendIsHonoured`, `ProbeAlive`, `ProbingResumes`, `LimitInRange` |
| `BatteryRegionProofs` (the composition) | `RegionRefinesMonitor`, `RegionCurrentFits`, `RegionTimeout`, `RegionCheckEnds` | `ImplementsMonitor`, `CurrentFitsBattery`, `TimeoutHoldsUntilDetached`, `CheckEndsWithCharger` |
| `AppMessagesProofs` | `MessagesNoLostWakeup`, `MessagesNeverEarly`, `MessagesRetained`, `MessagesLatest` | `NoLostWakeup`, `NeverEarly`, `RetainedStaysDelivered`, `LatestSystemMessage` |
| `StereoTopologyProofs` | `TopologyNoPanic` | `NoPanic` |
| `HeadsetPowerProofs` | `HeadsetPoweringOn`, `HeadsetLimbo`, `HeadsetInvariant` | `PoweringOnIsUnderWay`, `LimboIsLeft` |

`SystemState`, for every set of tables and every bound (`TableAssumption`,
`MaxPostedAssumption`).  `Inv` adds how many steps have
run: `index + 1` while a transition is paused, and all of the table with
the index at or behind its end in a stable state.  Without the latter a late
confirmation could be thought to resume a finished walk in the middle.
`WalkFromResult` says what a walk from any index does; `SetupAndRunCoherent`,
`OperationsCoherent` and `MessageHandlerCoherent` lift it to the operations.
`EngineTransitionGraph` follows the messages that one operation sends: each
is the end or the beginning of a transition the table of legal changes names.

`PowerManager`, for every set of clients (finite or not) and every bound on the
queues (`MaxEventsAssumption`).
The inductive invariant `PowerInv` adds that the unread pin changes alternate and
end in what is really plugged in (so that a failed attempt to cut the power, which
happens only while a charger is being detected, implies a change still to be
handled), that nothing charges without a charger, and that in `POWER_STATE_INIT` the
first message is unread, with a second one behind it if there is already a
reason: `SystemState_Shutdown` may be refused at that time although the
comment says that it does not return.  The lemmas give for each operation what
it does to the fields the invariant speaks of; `OwnStepsKeep`,
`ClientStepsKeep` and `EnvironmentKeeps` combine them.

The handshake has its own invariant, which does not need `PowerInv`.  It says for each
client, from its flags and from the state of the power manager, what the client
is doing and what waits in its inbox: asked and not yet answered, prepared, told to go
back, or not concerned.  A client that registers, leaves or answers changes the invariant
only at itself, which is why the set of clients may be infinite.

`GoalsEngine`, for every finite set of goals, at least as many slots, and every table of
cancellation, exclusion and concurrency (`GoalsAssumption`, `SlotsAssumption`,
`TableAssumption`).  `Good(e)` says of the engine that the slots in use belong to different
goals, that the decisions of a goal wait on the goal's own slot, whose lock
names exactly the active goals they wait for, and that the number of pending goals covers the
decisions that wait.  The sum over all goals that this needs is stated as disjoint sets of tokens
(`Covers`), since a recursive sum could not be reasoned about; by the
pigeonhole principle a goal that needs a slot finds one.  For the refinement, the
`Outcome` of each operation is one of `GoalSchedule`'s steps or a stutter.  The fairness
of the abstract specification is left to TLC.

`RulesEngine`, for every table of rules (`RulesAssumption`).  A rule in progress has the
message of its decision in the inbox.  `SetEventIsServed`
holds for tables in which each rule has one event and each event a rule (`OneEventPerRule`, a
hypothesis of `RulesServe`; TLC evaluates it on the table of the run, and
every rule of `stereo_topology_rules.c` has one event).  The invariant adds that no
event has only complete rules.  What the loop over the rules
has done after some of them is shown by the least rule that would contradict it.

`ChargerMonitor`, for every set of currents, every bound on the queues and
every behaviour of socket, USB host and battery (`ChargerAssumption`,
`MonitorAssumption`).  `MonitorInv` is the conjunction of: `Consistent`, what the fields of the
record say of each other (the reasons match the state they stand for, the current
is the least of what charger, host and region allow, a step of the measurement in progress has
its next one on its way, the limit is on the grid of steps between its bounds); `SocketOk`, the unread
messages of the firmware end in what is really plugged in; `UsbOk`, the unread
messages of the host end in its real state.  One lemma for each function of `Charger`
says which parts it keeps and which it restores, since many functions
are called where the record is not consistent yet.

`BatteryRegion`, for every pair of tables in `Seq(Rows)` (`RegionAssumption`: a row that
discharges has no current, and the charging timer's reason belongs to the reasons that others may
set).  `RegionInv` is the monitor's invariant and `RegionPart`: the row in use is in its table
and fits the last readings, the current the monitor has read is the row's,
`TimeoutHolds`, and `AttachedIsFollowed`: the unread messages about the charger end in
what the monitor knows.  Every step of the composition is then a step of the
monitor: the one handler that changes the row without telling it runs when
the charger has gone, with a current of zero before and after.

`AppMessages`, for every set of tasks (finite), identifiers, payloads, conditions and timers
and every even range of the clock (`ClockAssumption`, `SetsAssumption`).  The one
restriction is that two messages in the queue are due less than half the range of the
clock apart: a delay and the time a due message may wait stay below it together.  With
2^32 milliseconds that is more than 24 days; beyond it `VM_DIFF` cannot tell the order.
`MessagesInv` says of the queue (`QueueOk`) that the code's due time of each message is its
true one modulo `Wrap` (`InTime`), from which `VM_DIFF` is the true difference
(`DueFacts`, `BetweenFacts`), that the queue is in the order of the true times, that no two messages
share a payload, and that a system message that replaces others is the latest and only
one of its task unless a duplicate was let in beside it (`latest` is then `None`); of the delivered messages (`DeliveredOk`) that the
references are those of the application and of the delivery in progress; and of the
scheduler that an event marked as pending is in its queue and that between deliveries
*every* message that nothing blocks, not only the first, has a timer in
time (`Waking`): the first may be delivered, and any other may become the
first.  What is left after messages are cancelled or flushed is described by
`Thinned`, a strictly increasing map to the places in the old queue; it is the only fact about the
walk of `MessageCancelFirst` that the invariant needs.

`StereoTopology`, for every set of paired handsets that is not empty (`HandsetsAssumption`),
every choice of calls and every number of events; `NoGoalAssumption` says that
`stereo_topology_goal_none` is no goal.  `GoalsEngineProofs` and `RulesEngineProofs` are
instantiated with the headset's tables, which are shown to satisfy their assumptions, and
their lemmas apply to the operations the topology uses once each is shown to be the same
operator (`SameActivate`, `SameCheck` and others).  `Sound` is the invariant: the engines' own
invariants; the stop goal is active exactly while the script runs; and a step of the script is
ended by one thing only.  A step that confirms itself has at most one confirmation in the
queue, a step that waits for a service has none there and is named by the one callback that is
marked `script` (`CallbacksOk`), and the answer to the disconnection of LE links is in the
queue or still owed but not both (`QueueOk`).  So nothing moves the script on but the end of its own
step, the script engine is idle when the stop goal starts, and no second
disconnection of LE links is asked for.  `CallsFit` in `GoalsEngineProofs` says which calls an
operation of the goals engine makes, in particular that the stop goal is never among the
cancelled.  The two recursive walks, over the queue (`Without`) and over the goals to cancel, are shown to have a
result and what it keeps (`WithoutFacts`, `CancelledCore`).

`HeadsetPower`, for every number of events.  `system_state` changes at once and `headset_sm`
follows when it reads the change, so the two may differ; `IInv` says how far.  Each
change that is unread constrains both machines and the queue around it (`OnUntold`,
`OffUntold`): what would contradict it, a prompt that ends or a charger, is behind it in
the queue.  `OnUnderWay` and `OffUnderWay` say the same once it is read, `ChargerKnown` that at
most one message about the charger is unread and that the monitor's flag follows the socket,
`StartUnderWay` that nothing overtakes the start-up, and `InLimbo` and `LimboEnds` that a limbo
which is not `alone` has something that ends it.  `Coherent` lists the five points where
`system_state`'s engine rests on the headset's tables.  The lemmas on queues give what sending,
and taking out the first message, does to each part.

Only model-checked:

- all liveness (`QuietMeansStable`, `HandshakeEnds`, `UnsafeBatteryPowersOff`, `StoppingEnds`,
  `StartingEnds`, the fairness of `ImplementsSchedule`): fairness and `ENABLED` are outside
  the prover's reach;
- `StartedIsOpen`, `StoppedIsUnlinked` and `ActiveGoalsEnd` of `StereoTopology`.  They depend on
  the order of the messages of one run and the next, and the last two hold
  only without `user_lru`.  Beside its run they were checked once with five events and two handsets
  and with six events and one, and `StartedIsOpen` with all calls.

## Assumptions about what is not in the repository

- The chip's firmware reports every change of the charger pin, in order, and the
  result of detection before the next change (`system_message.h`).
- A charger must be disabled while it is configured, as `ChargerConfigure` in
  the firmware's `charger.h` demands.
- The reference voltage read through the ADC is not zero.
- A client answers each prepare indication once.
- The firmware debounces the charger pin (`ChargerInsertionDebounceTime`) for longer than
  the application takes to work off its queue; without that, a charger that bounces
  and a power-on in one batch of messages leave `headset_sm` in `POWERING_ON`.
- In `HeadsetPower` the timers of minutes (idle, limbo) expire when nothing of seconds is
  under way; the idle timer may expire at any such time in `IDLE`, which is more than
  the code allows.  The completion of the mandatory prompt, a message on the
  condition that the prompt ends, comes ahead of what was sent later
  (`ui_indicator_prompts.c`).  The shutdown tables switch the chip off; that they can come
  back is `PowerManager`'s subject.

## Observations

Behaviour that the models show and that no run states as a property:

- A sleep that `system_state` refuses leaves the power manager in
  `POWER_STATE_SOPORIFIC_CLIENTS_RESPONDED` with the chip on, the clients prepared for
  sleep and later power events dropped (`power_manager_sm.c:110`, `:189`), also those about an
  unsafe battery.  `UnsafeBatteryPowersOff` and `NoStrandedClient` claim nothing from
  then on (`SleepRefused`).
- With `allow_duplicates` (`trap_api_message.c:1245`) two messages of a group are in the
  queue; the next filtered one replaces the first of them, and the task is told the older
  news last.  `LatestSystemMessage` makes no claim until the duplicates have gone.
- While a USB host is suspended `charger_monitor.c` makes the power supply use the
  battery, if that is good, but the call that forces the LEDs off is compiled out
  (`charger_monitor.c:407-409`); `SuspendIsHonoured` is about the flag and the request.
- A client that prohibits sleep after the sleep handshake has begun is put to
  sleep all the same (`power_manager.h:239` against `power_manager_sm.c:113`).
- A charger that is unplugged and plugged in again between two updates of the region is
  charged without a charging timer (`battery_region.c:183` against
  `battery_region.h:76`).
- `headset_sm` switches the external charger on for a battery that is too hot
  (`headset_sm.c:1848` against `headset_region_config.c:26`).
- A timer that expired into the scheduler's queue is not cancelled
  (`trap_api_message.c:653`), so the handler may run once for nothing; a message
  being delivered is still handed to the tasks of its list that have flushed
  (line 235); `MessageCancelFirst` strikes the task from every multicast message with the
  identifier (line 1019, `message.h:92`).
- `StereoTopology_Stop` while the topology is starting does nothing and is never confirmed
  (`stereo_topology.c:257`): a charger plugged in just after power on leaves
  `system_state` in `powering_off`.
- A request to pair is taken in every state of `headset_sm` while music streams,
  also in `POWERING_OFF` (`headset_sm.c:1157`).  Therefore neither "a headset in use has an
  active `system_state`" nor "`POWERING_OFF` means `powering_off`" holds.
- The answer to a request to disconnect the least recently used handset never
  comes when that handset is gone by then (`handset_service.c:1551`).

## Not modelled

The test mode of the charger monitor and its override `force_allow_power_off`
(`headset_test.c:1301`), whether `PsuConfigure` succeeds, UI contexts, LEDs, logging, the
run-time profile of the power manager and its wake-up sources (they decide what
wakes the chip, not whether it may stop), the filters of the battery monitor, the
percentage of charge.  In `BatteryRegion` the charger is one without USB and without
probing: `ChargerMonitor` covers those on its own.  In `HeadsetPower`: wired audio (a line-in
jack leads to `SystemState_EmergencyShutdown`, `headset_sm.c:2001`; USB audio), the factory
reset, deleting handsets, the very long press of `ui.c:205`, and the requests of
GAIA and the voice services.  A prompt counts as playing from the step that asks for it; the
code reports it some messages later, a gap that the timer of 3 seconds before
a power-off is allowed covers (`g_EnablePowerOff`, `headset_sm.c:1314`, `:2121`).  That the
`POWER_OFF` prompt must be completed (`headset_prompts_config_table.c:34-40`) and that a prompt
repeated within 5 seconds is not played (`ui_indicator_prompts.c`) are left out.  In
`StereoTopology`: the panic when the LE advertising manager answers with an unknown error
(`stereo_topology_procedure_allow_le_connection.c:152`), which `NoPanic` does not cover.  In `AppMessages`: tasks for streams and PIO.

The Bluetooth services below the topology (`handset_service`,
`connection_manager`, the managers of scans, bandwidth and profiles) are environments of
`StereoTopology`, not modules yet.  Audio graphs, protocol libraries, voice services, the
update, earbud and case code stay outside: their correctness is about streams, radio peers,
flash or other products.  The repository contains the chip's firmware, DSP code and
vendor libraries, 1.28 million lines in all; the models cover the control of the headset's
own power and topology code and a small share of the whole.

## Plan

1. Proofs.  `StartedIsOpen` of `StereoTopology` for every set of handsets, then
   `StoppedIsUnlinked` without `user_lru`.
2. `HandsetService` and `ConnectionManager` in place of the services that
   `StereoTopology` leaves open: requests for one handset that overtake each other are
   each confirmed once; a link is closed when its last user lets go and not before.
3. `BredrScanManager`: scans are on exactly when a client asks.
4. `RwcpServer`: segments are delivered once and in order over a channel that
   loses and repeats them.
