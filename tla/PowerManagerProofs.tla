------------------------- MODULE PowerManagerProofs -------------------------
(***************************************************************************)
(* The power manager, for every set of clients and every bound on the      *)
(* queues.  First: it never overlooks a reason to power off.  Then the     *)
(* handshakes: a response is pending from exactly those that will give it, *)
(* nobody stays prepared for what will not happen, and power is taken away *)
(* only with every client prepared.                                        *)
(***************************************************************************)
EXTENDS PowerManager, SequenceTheorems, FiniteSetTheorems, TLAPS

\* What sending a message to the clients leaves alone.
SameControl(r, p) ==
    /\ r.state = p.state /\ r.user = p.user /\ r.initComplete = p.initComplete
    /\ r.clients = p.clients /\ r.call = p.call

(***************************************************************************)
(* Sending an indication to all clients changes only their inboxes         *)
(* (TaskList_MessageSendId in power_manager_sm.c).                         *)
(***************************************************************************)
LEMMA SendFacts ==
    ASSUME NEW p \in PowerData, NEW m \in Indications
    PROVE  /\ SendToClients(p, m) \in PowerData
           /\ SameControl(SendToClients(p, m), p)
           /\ SendToClients(p, m).initCfm = p.initCfm
<1> DEFINE f == [c \in Clients |->
        IF c \in p.clients THEN Append(p.inbox[c], m) ELSE p.inbox[c]]
           r == [p EXCEPT !.inbox = f]
<1>1. f \in [Clients -> Seq(Indications)]
  BY DEF PowerData
<1>2. SendToClients(p, m) = r
  BY DEF SendToClients
<1> HIDE DEF f
<1>3. r \in PowerData /\ SameControl(r, p) /\ r.initCfm = p.initCfm
  BY <1>1 DEF PowerData, SameControl
<1> QED  BY <1>2, <1>3

(***************************************************************************)
(* Leaving a state tells the clients or confirms the initialisation, and   *)
(* leaves the rest alone (the Exit functions of power_manager_sm.c).       *)
(***************************************************************************)
LEMMA ExitFacts ==
    ASSUME NEW p \in PowerData
    PROVE  /\ ExitState(p) \in PowerData
           /\ SameControl(ExitState(p), p)
           /\ ExitState(p).initCfm = (p.initCfm \/ p.state = "INIT")
<1>1. CASE p.state = "INIT"
  <2>1. ExitState(p) = [p EXCEPT !.initCfm = TRUE]
    BY <1>1 DEF ExitState
  <2> QED  BY <1>1, <2>1 DEF PowerData, SameControl
<1>2. CASE p.state = "TERMINATING_CLIENTS_RESPONDED"
  <2>1. ExitState(p) = SendToClients(p, "SHUTDOWN_CANCELLED")
    BY <1>2 DEF ExitState
  <2>2. p.initCfm \in BOOLEAN
    BY DEF PowerData
  <2> QED  BY <1>2, <2>1, <2>2, SendFacts DEF Indications
<1>3. CASE p.state = "SOPORIFIC_CLIENTS_RESPONDED"
  <2>1. ExitState(p) = SendToClients(p, "SLEEP_CANCELLED")
    BY <1>3 DEF ExitState
  <2>2. p.initCfm \in BOOLEAN
    BY DEF PowerData
  <2> QED  BY <1>3, <2>1, <2>2, SendFacts DEF Indications
<1>4. CASE p.state \notin {"INIT", "TERMINATING_CLIENTS_RESPONDED",
                           "SOPORIFIC_CLIENTS_RESPONDED"}
  <2>1. ExitState(p) = p
    BY <1>4 DEF ExitState
  <2> QED  BY <1>4, <2>1 DEF PowerData, SameControl
<1> QED  BY <1>1, <1>2, <1>3, <1>4

\* Entering a state after the exit of another.
LEMMA EnterFacts ==
    ASSUME NEW p \in PowerData, NEW s \in PowerStates
    PROVE  LET r == [ExitState(p) EXCEPT !.state = s]
           IN  /\ r \in PowerData
               /\ r.state = s /\ r.user = p.user /\ r.clients = p.clients
               /\ r.initComplete = p.initComplete /\ r.call = p.call
               /\ r.initCfm = (p.initCfm \/ p.state = "INIT")
  BY ExitFacts DEF PowerData, SameControl

\* Back in POWER_STATE_OK the user's request is forgotten.
LEMMA OkFacts ==
    ASSUME NEW p \in PowerData
    PROVE  /\ SetOk(p) \in PowerData
           /\ SetOk(p).state = "OK" /\ SetOk(p).user = FALSE
           /\ SetOk(p).call = p.call /\ SetOk(p).initComplete = p.initComplete
           /\ SetOk(p).initCfm = (p.initCfm \/ p.state = "INIT")
  BY ExitFacts DEF SetOk, PowerData, SameControl, PowerStates

(***************************************************************************)
(* When all clients have answered: the manager stops the chip, or is back  *)
(* in POWER_STATE_OK with nothing left to do unless an emergency shutdown  *)
(* has come back.                                                          *)
(***************************************************************************)
LEMMA TerminatingRespondedFacts ==
    ASSUME NEW p \in PowerData, NEW h \in Hardware, NEW returns \in BOOLEAN
    PROVE  LET r == SetTerminatingResponded(p, h, returns)
           IN  /\ r \in PowerData
               /\ r.state \in {"OK", "TERMINATING_CLIENTS_RESPONDED"}
               /\ r.state = "OK" /\ NeedsToPowerOff(r, h)
                     => r.call = "EmergencyShutdown" /\ returns
<1> DEFINE q == [ExitState(p) EXCEPT !.state = "TERMINATING_CLIENTS_RESPONDED"]
           shut == [q EXCEPT !.call = "EmergencyShutdown"]
           r == SetTerminatingResponded(p, h, returns)
<1>1. q \in PowerData /\ q.state = "TERMINATING_CLIENTS_RESPONDED"
  <2>1. "TERMINATING_CLIENTS_RESPONDED" \in PowerStates
    BY DEF PowerStates
  <2> QED  BY <2>1, EnterFacts, Zenon
<1>2. r = CASE ~NeedsToPowerOff(q, h) -> SetOk(q)
            [] NeedsToPowerOff(q, h) /\ returns -> SetOk(shut)
            [] NeedsToPowerOff(q, h) /\ ~returns -> shut
  BY DEF SetTerminatingResponded
<1> HIDE DEF q
<1>3. /\ shut \in PowerData /\ shut.state = "TERMINATING_CLIENTS_RESPONDED"
      /\ shut.call = "EmergencyShutdown"
  BY <1>1 DEF PowerData, Calls
<1> HIDE DEF shut, r
<1>4. CASE ~NeedsToPowerOff(q, h)
  <2>1. r = SetOk(q)
    BY <1>2, <1>4
  <2>2. ~NeedsToPowerOff(SetOk(q), h)
    BY <1>1, <1>4, OkFacts DEF NeedsToPowerOff
  <2> QED  BY <1>1, <2>1, <2>2, OkFacts DEF r
<1>5. CASE NeedsToPowerOff(q, h) /\ returns
  <2>1. r = SetOk(shut)
    BY <1>2, <1>5
  <2> QED  BY <1>3, <1>5, <2>1, OkFacts DEF r
<1>6. CASE NeedsToPowerOff(q, h) /\ ~returns
  <2>1. r = shut
    BY <1>2, <1>6
  <2> QED  BY <1>3, <1>6, <2>1 DEF r
<1> QED  BY <1>4, <1>5, <1>6

\* The same for the start of the handshake, which may find no client.
LEMMA TerminatingNotifiedFacts ==
    ASSUME NEW p \in PowerData, NEW h \in Hardware, NEW returns \in BOOLEAN
    PROVE  LET r == SetTerminatingNotified(p, h, returns)
           IN  /\ r \in PowerData
               /\ r.state \in {"OK", "TERMINATING_CLIENTS_RESPONDED",
                               "TERMINATING_CLIENTS_NOTIFIED"}
               /\ r.state = "OK" /\ NeedsToPowerOff(r, h)
                     => r.call = "EmergencyShutdown" /\ returns
<1> DEFINE q == [ExitState(p) EXCEPT !.state = "TERMINATING_CLIENTS_NOTIFIED"]
           n == SendToClients(q, "SHUTDOWN_PREPARE")
           w == [n EXCEPT !.shutdownPending = q.clients]
           r == SetTerminatingNotified(p, h, returns)
<1>1. q \in PowerData /\ q.state = "TERMINATING_CLIENTS_NOTIFIED"
  <2>1. "TERMINATING_CLIENTS_NOTIFIED" \in PowerStates
    BY DEF PowerStates
  <2> QED  BY <2>1, EnterFacts, Zenon
<1>2. r = IF q.clients = {} THEN SetTerminatingResponded(q, h, returns) ELSE w
  BY DEF SetTerminatingNotified
<1> HIDE DEF q
<1>3. n \in PowerData /\ n.state = "TERMINATING_CLIENTS_NOTIFIED"
  BY <1>1, SendFacts DEF Indications, SameControl
<1> HIDE DEF n
<1>4. w \in PowerData /\ w.state = "TERMINATING_CLIENTS_NOTIFIED"
  BY <1>1, <1>3 DEF PowerData
<1> HIDE DEF w, r
<1>5. CASE q.clients = {}
  <2>1. r = SetTerminatingResponded(q, h, returns)
    BY <1>2, <1>5
  <2> QED  BY <1>1, <2>1, TerminatingRespondedFacts DEF r
<1>6. CASE q.clients # {}
  <2>1. r = w
    BY <1>2, <1>6
  <2> QED  BY <1>4, <2>1 DEF r
<1> QED  BY <1>5, <1>6

(***************************************************************************)
(* When all clients have answered a sleep request of an initialised        *)
(* system, POWER_STATE_OK is entered only because the battery is being     *)
(* charged, and then nothing calls for power off.                          *)
(***************************************************************************)
LEMMA SoporificRespondedFacts ==
    ASSUME NEW p \in PowerData, NEW h \in Hardware,
           p.initComplete, h.charging => h.connected
    PROVE  LET r == SetSoporificResponded(p, h)
           IN  /\ r \in PowerData /\ r.initComplete
               /\ r.state \in {"OK", "SOPORIFIC_CLIENTS_RESPONDED"}
               /\ r.state = "OK" => ~NeedsToPowerOff(r, h)
<1> DEFINE q == [ExitState(p) EXCEPT !.state = "SOPORIFIC_CLIENTS_RESPONDED"]
           z == [q EXCEPT !.call = "Sleep"]
           r == SetSoporificResponded(p, h)
<1>1. /\ q \in PowerData /\ q.state = "SOPORIFIC_CLIENTS_RESPONDED"
      /\ q.initComplete
  <2>1. "SOPORIFIC_CLIENTS_RESPONDED" \in PowerStates
    BY DEF PowerStates
  <2>2. /\ q \in PowerData /\ q.state = "SOPORIFIC_CLIENTS_RESPONDED"
        /\ q.initComplete = p.initComplete
    BY <2>1, EnterFacts, Zenon
  <2> QED  BY <2>2
<1>2. r = IF CanSleep(q, h) THEN z ELSE SetOk(q)
  BY DEF SetSoporificResponded
<1> HIDE DEF q
<1>3. /\ z \in PowerData /\ z.state = "SOPORIFIC_CLIENTS_RESPONDED"
      /\ z.initComplete
  BY <1>1 DEF PowerData, Calls
<1> HIDE DEF z, r
<1>4. CASE CanSleep(q, h)
  <2>1. r = z
    BY <1>2, <1>4
  <2> QED  BY <1>3, <2>1 DEF r
<1>5. CASE ~CanSleep(q, h)
  <2>1. r = SetOk(q)
    BY <1>2, <1>5
  <2>2. h.connected
    BY <1>1, <1>5 DEF CanSleep
  <2>3. ~NeedsToPowerOff(r, h)
    BY <2>2 DEF NeedsToPowerOff, CanPowerOff
  <2> QED  BY <1>1, <2>1, <2>3, OkFacts, ZenonT(30) DEF r
<1> QED  BY <1>4, <1>5

\* The same for the start of the handshake for sleep.
LEMMA SoporificNotifiedFacts ==
    ASSUME NEW p \in PowerData, NEW h \in Hardware,
           p.initComplete, h.charging => h.connected
    PROVE  LET r == SetSoporificNotified(p, h)
           IN  /\ r \in PowerData /\ r.initComplete
               /\ r.state \in {"OK", "SOPORIFIC_CLIENTS_RESPONDED",
                               "SOPORIFIC_CLIENTS_NOTIFIED"}
               /\ r.state = "OK" => ~NeedsToPowerOff(r, h)
<1> DEFINE q == [ExitState(p) EXCEPT !.state = "SOPORIFIC_CLIENTS_NOTIFIED"]
           n == SendToClients(q, "SLEEP_PREPARE")
           w == [n EXCEPT !.sleepPending = q.clients]
           r == SetSoporificNotified(p, h)
<1>1. /\ q \in PowerData /\ q.state = "SOPORIFIC_CLIENTS_NOTIFIED"
      /\ q.initComplete
  <2>1. "SOPORIFIC_CLIENTS_NOTIFIED" \in PowerStates
    BY DEF PowerStates
  <2>2. /\ q \in PowerData /\ q.state = "SOPORIFIC_CLIENTS_NOTIFIED"
        /\ q.initComplete = p.initComplete
    BY <2>1, EnterFacts, Zenon
  <2> QED  BY <2>2
<1>2. r = IF q.clients = {} THEN SetSoporificResponded(q, h) ELSE w
  BY DEF SetSoporificNotified
<1> HIDE DEF q
<1>3. /\ n \in PowerData /\ n.state = "SOPORIFIC_CLIENTS_NOTIFIED"
      /\ n.initComplete
  BY <1>1, SendFacts DEF Indications, SameControl
<1> HIDE DEF n
<1>4. /\ w \in PowerData /\ w.state = "SOPORIFIC_CLIENTS_NOTIFIED"
      /\ w.initComplete
  BY <1>1, <1>3 DEF PowerData
<1> HIDE DEF w, r
<1>5. CASE q.clients = {}
  <2>1. r = SetSoporificResponded(q, h)
    BY <1>2, <1>5
  <2> QED  BY <1>1, <2>1, SoporificRespondedFacts DEF r
<1>6. CASE q.clients # {}
  <2>1. r = w
    BY <1>2, <1>6
  <2> QED  BY <1>4, <2>1 DEF r
<1> QED  BY <1>5, <1>6

-----------------------------------------------------------------------------
(***************************************************************************)
(* The inductive invariant.  NoMissedPowerOff needs to know what a message *)
(* about the charger that is still on its way says, because an emergency   *)
(* shutdown that comes back counts on one, and that a sleep is only begun  *)
(* by an initialised system, because that is why it can be given up only   *)
(* while charging.                                                         *)
(***************************************************************************)
\* The pending changes of the pin alternate and end in what is plugged now.
PlugTracked(h) ==
    /\ h.changed = << >> => (h.connected <=> h.usb # "detached")
    /\ h.changed # << >> =>
          /\ h.changed[1] # h.connected
          /\ h.changed[Len(h.changed)] <=> h.usb # "detached"
    /\ \A i \in 1 .. Len(h.changed) - 1 : h.changed[i + 1] # h.changed[i]

\* In POWER_STATE_INIT the first message is unread, and a second one if there
\* is already a reason to power off.
Starting(p, h) ==
    p.state = "INIT" =>
        /\ ~p.initCfm
        /\ h.events >= 1
        /\ h.unsafe \/ h.extreme => h.events >= 2

SleepInitialised(p) ==
    p.state \in {"SOPORIFIC_CLIENTS_NOTIFIED", "SOPORIFIC_CLIENTS_RESPONDED"}
        => p.initComplete

WorkKnown(p, h) ==
    p.state = "OK" /\ NeedsToPowerOff(p, h) => h.events > 0 \/ h.changed # << >>

PowerInv ==
    /\ TypeOK
    /\ Running =>
          /\ PlugTracked(hw)
          /\ hw.charging => hw.connected
          /\ Starting(pm, hw)
          /\ SleepInitialised(pm)
          /\ WorkKnown(pm, hw)

(***************************************************************************)
(* A message handled (appPowerHandlePowerEvent): if the chip goes on, the  *)
(* manager has left POWER_STATE_INIT, and it sits in POWER_STATE_OK with a *)
(* reason to power off only at the very start or when the emergency        *)
(* shutdown came back.                                                     *)
(***************************************************************************)
LEMMA HandleFacts ==
    ASSUME NEW p \in PowerData, NEW h \in Hardware, NEW returns \in BOOLEAN,
           h.charging => h.connected, SleepInitialised(p)
    PROVE  LET r == HandlePowerEvent(p, h, returns)
           IN  /\ r \in PowerData
               /\ returns =>
                     /\ SleepInitialised(r) /\ r.state # "INIT"
                     /\ r.state = "OK" /\ NeedsToPowerOff(r, h)
                           => p.state = "INIT" \/ r.call = "EmergencyShutdown"
<1> DEFINE r == HandlePowerEvent(p, h, returns)
           s == [p EXCEPT !.call = "Shutdown"]
<1>0. s \in PowerData /\ s.state = p.state /\ p.state \in PowerStates
  BY DEF PowerData, Calls
<1> HIDE DEF s
<1>1. CASE p.state = "INIT" /\ NeedsToPowerOff(p, h) /\ ~returns
  <2>1. r = s
    BY <1>1 DEF HandlePowerEvent, s
  <2> QED  BY <1>0, <1>1, <2>1
<1>2. CASE p.state = "INIT" /\ NeedsToPowerOff(p, h) /\ returns
  <2>1. r = SetOk(s)
    BY <1>2 DEF HandlePowerEvent, s
  <2> HIDE DEF r
  <2>2. SetOk(s) \in PowerData /\ SetOk(s).state = "OK"
    BY <1>0, OkFacts
  <2> QED  BY <1>2, <2>1, <2>2 DEF SleepInitialised, r
<1>3. CASE p.state = "INIT" /\ ~NeedsToPowerOff(p, h)
  <2>1. r = SetOk(p)
    BY <1>3 DEF HandlePowerEvent
  <2> QED  BY <1>3, <2>1, OkFacts DEF SleepInitialised
<1>4. CASE p.state = "OK" /\ NeedsToPowerOff(p, h)
  <2>1. r = SetTerminatingNotified(p, h, returns)
    BY <1>4 DEF HandlePowerEvent
  <2> HIDE DEF r
  <2>2. /\ r \in PowerData
        /\ r.state \in {"OK", "TERMINATING_CLIENTS_RESPONDED",
                        "TERMINATING_CLIENTS_NOTIFIED"}
        /\ r.state = "OK" /\ NeedsToPowerOff(r, h)
              => r.call = "EmergencyShutdown" /\ returns
    BY <2>1, TerminatingNotifiedFacts
  <2> QED  BY <2>2 DEF SleepInitialised, r
<1>5. CASE /\ p.state = "OK" /\ ~NeedsToPowerOff(p, h)
           /\ AllClientsAllowSleep(p) /\ CanSleep(p, h)
  <2>1. r = SetSoporificNotified(p, h)
    BY <1>5 DEF HandlePowerEvent
  <2>2. p.initComplete
    BY <1>5 DEF CanSleep
  <2> HIDE DEF r
  <2>3. /\ r \in PowerData /\ r.initComplete
        /\ r.state \in {"OK", "SOPORIFIC_CLIENTS_RESPONDED",
                        "SOPORIFIC_CLIENTS_NOTIFIED"}
        /\ r.state = "OK" => ~NeedsToPowerOff(r, h)
    BY <2>1, <2>2, SoporificNotifiedFacts
  <2> QED  BY <2>3 DEF SleepInitialised, r
<1>6. CASE /\ p.state # "INIT"
           /\ ~(p.state = "OK" /\ NeedsToPowerOff(p, h))
           /\ ~(/\ p.state = "OK" /\ ~NeedsToPowerOff(p, h)
                /\ AllClientsAllowSleep(p) /\ CanSleep(p, h))
  <2>1. r = p
    BY <1>6 DEF HandlePowerEvent
  <2> QED  BY <1>6, <2>1
<1> QED  BY <1>1, <1>2, <1>3, <1>4, <1>5, <1>6

\* The state, the flags of the initialisation and the reasons of p and r agree.
Alike(r, p) ==
    /\ r.state = p.state /\ r.user = p.user /\ r.call = p.call
    /\ r.initComplete = p.initComplete /\ r.initCfm = p.initCfm

(***************************************************************************)
(* What every other operation of a client guarantees if the chip goes on.  *)
(***************************************************************************)
Orderly(r, p, h, returns) ==
    /\ r \in PowerData
    /\ returns =>
          /\ SleepInitialised(r)
          /\ r.state = "INIT" => p.state = "INIT" /\ r.initCfm = p.initCfm
          /\ r.state = "OK" /\ NeedsToPowerOff(r, h)
                => \/ p.state = "OK" /\ NeedsToPowerOff(p, h)
                   \/ r.call = "EmergencyShutdown"

\* An operation that leaves these alone is orderly.
LEMMA AlikeOrderly ==
    ASSUME NEW p \in PowerData, NEW r \in PowerData, NEW h \in Hardware,
           NEW returns \in BOOLEAN, Alike(r, p), SleepInitialised(p)
    PROVE  Orderly(r, p, h, returns)
<1>1. SleepInitialised(r)
  BY DEF Alike, SleepInitialised
<1>2. NeedsToPowerOff(r, h) => NeedsToPowerOff(p, h)
  BY DEF Alike, NeedsToPowerOff
<1> QED  BY <1>1, <1>2 DEF Orderly, Alike

\* A client allows sleep (appPowerClientAllowSleep).
LEMMA AllowSleepFacts ==
    ASSUME NEW p \in PowerData, NEW h \in Hardware, NEW c \in Clients,
           h.charging => h.connected, SleepInitialised(p)
    PROVE  LET r == ClientAllowSleep(p, h, c)
           IN  /\ r \in PowerData
               /\ \/ Alike(r, p)
                  \/ /\ r.initComplete
                     /\ r.state \in {"OK", "SOPORIFIC_CLIENTS_RESPONDED",
                                     "SOPORIFIC_CLIENTS_NOTIFIED"}
                     /\ r.state = "OK" => ~NeedsToPowerOff(r, h)
<1> DEFINE q == [p EXCEPT !.allow = @ \cup ({c} \cap p.clients)]
           r == ClientAllowSleep(p, h, c)
<1>1. q \in PowerData /\ Alike(q, p)
  BY DEF PowerData, Alike
<1>2. r = IF q.state = "OK" /\ AllClientsAllowSleep(q) /\ CanSleep(q, h)
          THEN SetSoporificNotified(q, h) ELSE q
  BY DEF ClientAllowSleep
<1> HIDE DEF q, r
<1>3. CASE q.state = "OK" /\ AllClientsAllowSleep(q) /\ CanSleep(q, h)
  <2>1. q.initComplete
    BY <1>3 DEF CanSleep
  <2>2. r = SetSoporificNotified(q, h)
    BY <1>2, <1>3
  <2> QED  BY <1>1, <2>1, <2>2, SoporificNotifiedFacts DEF r
<1>4. CASE ~(q.state = "OK" /\ AllClientsAllowSleep(q) /\ CanSleep(q, h))
  BY <1>1, <1>2, <1>4 DEF r
<1> QED  BY <1>3, <1>4

\* A client has answered a shutdown request.
LEMMA ShutdownResponseFacts ==
    ASSUME NEW p \in PowerData, NEW h \in Hardware, NEW returns \in BOOLEAN,
           NEW c \in Clients
    PROVE  LET r == ShutdownPrepareResponse(p, h, returns, c)
           IN  /\ r \in PowerData
               /\ \/ Alike(r, p)
                  \/ /\ r.state \in {"OK", "TERMINATING_CLIENTS_RESPONDED"}
                     /\ r.state = "OK" /\ NeedsToPowerOff(r, h)
                           => r.call = "EmergencyShutdown" /\ returns
<1> DEFINE q == [p EXCEPT !.shutdownPending = @ \ {c}]
           r == ShutdownPrepareResponse(p, h, returns, c)
<1>1. q \in PowerData /\ Alike(q, p) /\ Alike(p, p)
  BY DEF PowerData, Alike
<1>2. r = CASE p.state # "TERMINATING_CLIENTS_NOTIFIED" \/ c \notin p.clients -> p
            [] OTHER -> IF q.shutdownPending = {}
                        THEN SetTerminatingResponded(q, h, returns) ELSE q
  BY DEF ShutdownPrepareResponse
<1> HIDE DEF q, r
<1>3. CASE p.state # "TERMINATING_CLIENTS_NOTIFIED" \/ c \notin p.clients
  <2>1. r = p
    BY <1>2, <1>3
  <2> QED  BY <1>1, <2>1 DEF r
<1>4. CASE /\ ~(p.state # "TERMINATING_CLIENTS_NOTIFIED" \/ c \notin p.clients)
           /\ q.shutdownPending = {}
  <2>1. r = SetTerminatingResponded(q, h, returns)
    BY <1>2, <1>4
  <2> QED  BY <1>1, <2>1, TerminatingRespondedFacts DEF r
<1>5. CASE /\ ~(p.state # "TERMINATING_CLIENTS_NOTIFIED" \/ c \notin p.clients)
           /\ q.shutdownPending # {}
  <2>1. r = q
    BY <1>2, <1>5
  <2> QED  BY <1>1, <2>1 DEF r
<1> QED  BY <1>3, <1>4, <1>5

\* A client has answered a sleep request.
LEMMA SleepResponseFacts ==
    ASSUME NEW p \in PowerData, NEW h \in Hardware, NEW c \in Clients,
           h.charging => h.connected, SleepInitialised(p)
    PROVE  LET r == SleepPrepareResponse(p, h, c)
           IN  /\ r \in PowerData
               /\ \/ Alike(r, p)
                  \/ /\ r.initComplete
                     /\ r.state \in {"OK", "SOPORIFIC_CLIENTS_RESPONDED"}
                     /\ r.state = "OK" => ~NeedsToPowerOff(r, h)
<1> DEFINE q == [p EXCEPT !.sleepPending = @ \ {c}]
           r == SleepPrepareResponse(p, h, c)
<1>1. q \in PowerData /\ Alike(q, p) /\ Alike(p, p)
  BY DEF PowerData, Alike
<1>2. r = CASE p.state # "SOPORIFIC_CLIENTS_NOTIFIED" \/ c \notin p.clients -> p
            [] OTHER -> IF q.sleepPending = {}
                        THEN SetSoporificResponded(q, h) ELSE q
  BY DEF SleepPrepareResponse
<1> HIDE DEF q, r
<1>3. CASE p.state # "SOPORIFIC_CLIENTS_NOTIFIED" \/ c \notin p.clients
  <2>1. r = p
    BY <1>2, <1>3
  <2> QED  BY <1>1, <2>1 DEF r
<1>4. CASE /\ ~(p.state # "SOPORIFIC_CLIENTS_NOTIFIED" \/ c \notin p.clients)
           /\ q.sleepPending = {}
  <2>1. r = SetSoporificResponded(q, h)
    BY <1>2, <1>4
  <2>2. q.initComplete
    BY <1>1, <1>4 DEF Alike, SleepInitialised
  <2> QED  BY <1>1, <2>1, <2>2, SoporificRespondedFacts DEF r
<1>5. CASE /\ ~(p.state # "SOPORIFIC_CLIENTS_NOTIFIED" \/ c \notin p.clients)
           /\ q.sleepPending # {}
  <2>1. r = q
    BY <1>2, <1>5
  <2> QED  BY <1>1, <2>1 DEF r
<1> QED  BY <1>3, <1>4, <1>5

(***************************************************************************)
(* Unregistering answers on the client's behalf before it is removed       *)
(* (appPowerClientUnregister).                                             *)
(***************************************************************************)
LEMMA UnregisterFacts ==
    ASSUME NEW p \in PowerData, NEW h \in Hardware, NEW returns \in BOOLEAN,
           NEW c \in Clients, h.charging => h.connected, SleepInitialised(p)
    PROVE  Orderly(ClientUnregister(p, h, returns, c), p, h, returns)
<1> DEFINE p1 == ClientAllowSleep(p, h, c)
           p2 == ShutdownPrepareResponse(p1, h, returns, c)
           p3 == SleepPrepareResponse(p2, h, c)
           r == ClientUnregister(p, h, returns, c)
<1>1. r = [p3 EXCEPT !.clients = @ \ {c}, !.allow = @ \ {c},
                     !.shutdownPending = @ \ {c}, !.sleepPending = @ \ {c},
                     !.inbox[c] = << >>, !.view[c] = "working"]
  BY DEF ClientUnregister
<1>2. /\ p1 \in PowerData
      /\ \/ Alike(p1, p)
         \/ /\ p1.initComplete
            /\ p1.state \in {"OK", "SOPORIFIC_CLIENTS_RESPONDED",
                             "SOPORIFIC_CLIENTS_NOTIFIED"}
            /\ p1.state = "OK" => ~NeedsToPowerOff(p1, h)
  BY AllowSleepFacts
<1> HIDE DEF p1
<1>3. /\ p2 \in PowerData
      /\ \/ Alike(p2, p1)
         \/ /\ p2.state \in {"OK", "TERMINATING_CLIENTS_RESPONDED"}
            /\ p2.state = "OK" /\ NeedsToPowerOff(p2, h)
                  => p2.call = "EmergencyShutdown" /\ returns
  BY <1>2, ShutdownResponseFacts
<1> HIDE DEF p2
<1>4. SleepInitialised(p1)
  BY <1>2 DEF Alike, SleepInitialised
<1>5. SleepInitialised(p2)
  BY <1>3, <1>4 DEF Alike, SleepInitialised
<1>6. /\ p3 \in PowerData
      /\ \/ Alike(p3, p2)
         \/ /\ p3.initComplete
            /\ p3.state \in {"OK", "SOPORIFIC_CLIENTS_RESPONDED"}
            /\ p3.state = "OK" => ~NeedsToPowerOff(p3, h)
  BY <1>3, <1>5, SleepResponseFacts
<1> HIDE DEF p3, r
<1>7. r \in PowerData /\ Alike(r, p3)
  <2> DEFINE i == [p3.inbox EXCEPT ![c] = << >>]
             v == [p3.view EXCEPT ![c] = "working"]
  <2>1. i \in [Clients -> Seq(Indications)] /\ v \in [Clients -> Views]
    BY <1>6 DEF PowerData, Views
  <2>2. r = [p3 EXCEPT !.clients = @ \ {c}, !.allow = @ \ {c},
                       !.shutdownPending = @ \ {c}, !.sleepPending = @ \ {c},
                       !.inbox = i, !.view = v]
    BY <1>1, <1>6 DEF PowerData
  <2> HIDE DEF i, v
  <2> QED  BY <1>6, <2>1, <2>2 DEF PowerData, Alike
<1>8. Orderly(p1, p, h, returns)
  BY <1>2, <1>4 DEF Orderly, Alike, NeedsToPowerOff
<1>9. Orderly(p2, p, h, returns)
  BY <1>3, <1>5, <1>8 DEF Orderly, Alike, NeedsToPowerOff
<1>10. SleepInitialised(p3)
  BY <1>5, <1>6 DEF Alike, SleepInitialised
<1>11. Orderly(p3, p, h, returns)
  BY <1>6, <1>9, <1>10 DEF Orderly, Alike, NeedsToPowerOff
<1>12. SleepInitialised(r)
  BY <1>7, <1>10 DEF Alike, SleepInitialised
<1>13. Orderly(r, p, h, returns)
  BY <1>7, <1>11, <1>12 DEF Orderly, Alike, NeedsToPowerOff
<1> QED  BY <1>13 DEF r

\* Registering in the middle of a handshake joins it and changes nothing else.
LEMMA RegisterFacts ==
    ASSUME NEW p \in PowerData, NEW c \in Clients
    PROVE  ClientRegister(p, c) \in PowerData /\ Alike(ClientRegister(p, c), p)
<1> DEFINE q == [p EXCEPT !.clients = @ \cup {c}]
           r == ClientRegister(p, c)
           i(m) == [q.inbox EXCEPT ![c] = Append(@, m)]
<1>1. q \in PowerData /\ Alike(q, p) /\ Alike(p, p) /\ q.inbox = p.inbox
  BY DEF PowerData, Alike
<1>2. \A m \in Indications : i(m) \in [Clients -> Seq(Indications)]
  BY <1>1 DEF PowerData
<1>3. CASE c \in p.clients
  BY <1>1, <1>3 DEF ClientRegister
<1>4. CASE c \notin p.clients /\ p.state = "TERMINATING_CLIENTS_NOTIFIED"
  <2>1. r = [q EXCEPT !.shutdownPending = @ \cup {c},
                      !.inbox[c] = Append(@, "SHUTDOWN_PREPARE")]
    BY <1>4 DEF ClientRegister
  <2> HIDE DEF q, r
  <2>2. r = [q EXCEPT !.shutdownPending = @ \cup {c}, !.inbox = i("SHUTDOWN_PREPARE")]
    BY <1>1, <2>1 DEF PowerData
  <2>3. i("SHUTDOWN_PREPARE") \in [Clients -> Seq(Indications)]
    BY <1>2 DEF Indications
  <2> HIDE DEF i
  <2>4. r \in PowerData /\ Alike(r, q)
    BY <1>1, <2>2, <2>3 DEF PowerData, Alike
  <2> QED  BY <1>1, <2>4 DEF Alike, r
<1>5. CASE c \notin p.clients /\ p.state = "SOPORIFIC_CLIENTS_NOTIFIED"
  <2>1. r = [q EXCEPT !.sleepPending = @ \cup {c},
                      !.inbox[c] = Append(@, "SLEEP_PREPARE")]
    BY <1>5 DEF ClientRegister
  <2> HIDE DEF q, r
  <2>2. r = [q EXCEPT !.sleepPending = @ \cup {c}, !.inbox = i("SLEEP_PREPARE")]
    BY <1>1, <2>1 DEF PowerData
  <2>3. i("SLEEP_PREPARE") \in [Clients -> Seq(Indications)]
    BY <1>2 DEF Indications
  <2> HIDE DEF i
  <2>4. r \in PowerData /\ Alike(r, q)
    BY <1>1, <2>2, <2>3 DEF PowerData, Alike
  <2> QED  BY <1>1, <2>4 DEF Alike, r
<1>6. CASE /\ c \notin p.clients
           /\ p.state \notin {"TERMINATING_CLIENTS_NOTIFIED", "SOPORIFIC_CLIENTS_NOTIFIED"}
  <2>1. r = q
    BY <1>6 DEF ClientRegister
  <2> QED  BY <1>1, <2>1
<1> QED  BY <1>3, <1>4, <1>5, <1>6

\* The record of the call is fresh in every operation.
LEMMA FreshFacts ==
    ASSUME TypeOK
    PROVE  /\ Fresh \in PowerData /\ Fresh.state = pm.state /\ Fresh.user = pm.user
           /\ Fresh.initComplete = pm.initComplete /\ Fresh.initCfm = pm.initCfm
           /\ Fresh.call = "none"
  BY DEF TypeOK, Fresh, PowerData, Calls

\* Only the number of unread messages may differ.
SameWorld(h) ==
    /\ h \in Hardware /\ h.chip = "on"
    /\ h.usb = hw.usb /\ h.changed = hw.changed /\ h.connected = hw.connected
    /\ h.charging = hw.charging /\ h.unsafe = hw.unsafe /\ h.extreme = hw.extreme

(***************************************************************************)
(* A step of the power manager preserves the invariant if its result is as *)
(* the lemmas above say: an emergency shutdown that came back means that   *)
(* the kind of charger is still being found out, and then a message about  *)
(* that charger is unread.                                                 *)
(***************************************************************************)
LEMMA CommitKeeps ==
    ASSUME PowerInv, Running, NEW h, SameWorld(h),
           NEW r \in PowerData, NEW returns \in BOOLEAN,
           returns =>
              /\ SleepInitialised(r) /\ Starting(r, h)
              /\ r.state = "OK" /\ NeedsToPowerOff(r, h) =>
                    \/ h.events > 0
                    \/ h.changed # << >>
                    \/ r.call = "EmergencyShutdown",
           Commit(r, h, returns)
    PROVE  PowerInv'
<1>1. /\ pm' = r
      /\ hw' = [h EXCEPT !.chip = IF returns THEN @
                                  ELSE IF r.call = "Sleep" THEN "asleep" ELSE "off"]
      /\ r.call = "EmergencyShutdown" => (returns <=> h.usb = "pending")
  BY DEF Commit
<1>2. TypeOK'
  BY <1>1 DEF TypeOK, SameWorld, Hardware
<1>3. CASE ~returns
  <2>1. ~Running'
    BY <1>1, <1>3 DEF Running, SameWorld, Hardware
  <2> QED  BY <1>2, <2>1 DEF PowerInv
<1>4. CASE returns
  <2>1. hw' = h
    BY <1>1, <1>4 DEF SameWorld, Hardware
  <2>2. PlugTracked(hw) /\ (hw.charging => hw.connected)
    BY DEF PowerInv
  <2>3. PlugTracked(h)
    BY <2>2 DEF PlugTracked, SameWorld
  <2>4. WorkKnown(r, h)
    <3> SUFFICES ASSUME r.state = "OK", NeedsToPowerOff(r, h),
                        r.call = "EmergencyShutdown"
                 PROVE  h.changed # << >>
      BY <1>4 DEF WorkKnown
    <3>1. h.usb = "pending"
      BY <1>1, <1>4
    <3>2. ~h.connected
      BY DEF NeedsToPowerOff, CanPowerOff
    <3> QED  BY <2>3, <3>1, <3>2 DEF PlugTracked
  <2>5. PlugTracked(h)' /\ WorkKnown(pm, hw)' /\ Starting(pm, hw)' /\ SleepInitialised(pm)'
    BY <1>1, <1>4, <2>1, <2>3, <2>4
       DEF PlugTracked, WorkKnown, Starting, SleepInitialised, NeedsToPowerOff, CanPowerOff
  <2> QED  BY <1>2, <2>1, <2>2, <2>5 DEF PowerInv, SameWorld, PlugTracked
<1> QED  BY <1>3, <1>4

\* A step that is orderly and reads no message preserves the invariant.
LEMMA OrderlyKeeps ==
    ASSUME PowerInv, Running, NEW p \in PowerData, NEW r, NEW returns \in BOOLEAN,
           NEW h, h = hw, Alike([p EXCEPT !.call = "none"], Fresh),
           Orderly(r, p, h, returns), Commit(r, h, returns)
    PROVE  PowerInv'
<1>1. TypeOK /\ Starting(pm, hw) /\ WorkKnown(pm, hw)
  BY DEF PowerInv
<1>2. SameWorld(h)
  BY <1>1 DEF SameWorld, TypeOK, Running
<1>3. p.state = pm.state /\ p.user = pm.user /\ p.initCfm = pm.initCfm
  BY <1>1, FreshFacts DEF Alike, PowerData
<1>4. NeedsToPowerOff(p, h) => NeedsToPowerOff(pm, hw)
  BY <1>3 DEF NeedsToPowerOff
<1>5. returns =>
         /\ SleepInitialised(r) /\ Starting(r, h)
         /\ r.state = "OK" /\ NeedsToPowerOff(r, h) =>
               \/ h.events > 0
               \/ h.changed # << >>
               \/ r.call = "EmergencyShutdown"
  BY <1>1, <1>3, <1>4 DEF Orderly, Starting, WorkKnown
<1>6. r \in PowerData
  BY DEF Orderly
<1> QED  BY <1>2, <1>5, <1>6, CommitKeeps

\* The messages and calls that the power manager handles.
LEMMA OwnStepsKeep ==
    ASSUME PowerInv,
           appPowerHandleMessage \/ appPowerInitComplete \/ appPowerOffRequest
    PROVE  PowerInv'
<1>1. /\ TypeOK /\ Running
      /\ hw \in Hardware /\ hw.events \in 0 .. MaxEvents
      /\ hw.charging => hw.connected
      /\ Starting(pm, hw) /\ SleepInitialised(pm) /\ WorkKnown(pm, hw)
  BY DEF PowerInv, TypeOK, Hardware, appPowerHandleMessage, appPowerInitComplete,
         appPowerOffRequest
<1>2. PICK f : f = Fresh
  OBVIOUS
<1>3. /\ f \in PowerData /\ f.state = pm.state /\ f.user = pm.user
      /\ f.initComplete = pm.initComplete /\ f.initCfm = pm.initCfm
      /\ f.call = "none"
  BY <1>1, <1>2, FreshFacts
<1>4. SleepInitialised(f)
  BY <1>1, <1>3 DEF SleepInitialised
<1>5. CASE appPowerHandleMessage
  <2>0. PICK h : h = [hw EXCEPT !.events = @ - 1]
    OBVIOUS
  <2>1. PICK returns \in BOOLEAN :
           hw.events > 0 /\ Commit(HandlePowerEvent(f, h, returns), h, returns)
    BY <1>2, <1>5, <2>0 DEF appPowerHandleMessage, Commit
  <2>2. SameWorld(h) /\ h.events = hw.events - 1 /\ h \in Hardware
    <3>1. PICK e : e = hw.events - 1
      OBVIOUS
    <3>2. e \in 0 .. MaxEvents
      BY <1>1, <2>1, <3>1, MaxEventsAssumption
    <3>3. h = [hw EXCEPT !.events = e]
      BY <2>0, <3>1
    <3>4. h \in Hardware /\ h.events = e
      BY <1>1, <3>2, <3>3 DEF Hardware
    <3>5. SameWorld(h)
      BY <1>1, <3>3, <3>4 DEF SameWorld, Hardware, Running
    <3> QED  BY <3>1, <3>4, <3>5
  <2>3. h.charging => h.connected
    BY <1>1, <2>2 DEF SameWorld
  <2>4. PICK r : r = HandlePowerEvent(f, h, returns)
    OBVIOUS
  <2>5. /\ r \in PowerData
        /\ returns =>
              /\ SleepInitialised(r) /\ r.state # "INIT"
              /\ r.state = "OK" /\ NeedsToPowerOff(r, h)
                    => f.state = "INIT" \/ r.call = "EmergencyShutdown"
    BY <1>3, <1>4, <2>2, <2>3, <2>4, HandleFacts
  <2>6. ASSUME returns, r.state = "OK", NeedsToPowerOff(r, h), f.state = "INIT"
        PROVE  h.events > 0
    <3>1. r = SetOk(f) \/ r = SetOk([f EXCEPT !.call = "Shutdown"])
      BY <2>4, <2>6 DEF HandlePowerEvent
    <3>2. [f EXCEPT !.call = "Shutdown"] \in PowerData
      BY <1>3 DEF PowerData, Calls
    <3>3. r.user = FALSE
      BY <1>3, <3>1, <3>2, OkFacts
    <3>4. h.unsafe \/ h.extreme
      BY <2>6, <3>3 DEF NeedsToPowerOff
    <3>5. hw.events >= 2
      BY <1>1, <1>3, <2>2, <2>6, <3>4 DEF Starting, SameWorld
    <3> QED  BY <1>1, <2>2, <3>5
  <2>7. Commit(r, h, returns)
    BY <2>1, <2>4
  <2>8. returns => Starting(r, h)
    BY <2>5 DEF Starting
  <2> QED  BY <1>1, <2>2, <2>5, <2>6, <2>7, <2>8, CommitKeeps
<1>6. CASE appPowerInitComplete
  <2>0. PICK h : h = hw
    OBVIOUS
  <2>1. PICK returns \in BOOLEAN :
           pm.initCfm /\ Commit(InitComplete(f, h, returns), h, returns)
    BY <1>2, <1>6, <2>0 DEF appPowerInitComplete, Commit
  <2>2. PICK p : p = [f EXCEPT !.initComplete = TRUE]
    OBVIOUS
  <2>3. p \in PowerData /\ p.state = f.state /\ p.user = f.user /\ SleepInitialised(p)
    BY <1>3, <2>2 DEF PowerData, SleepInitialised
  <2>4. PICK r : r = HandlePowerEvent(p, h, returns)
    OBVIOUS
  <2>5. SameWorld(h) /\ h \in Hardware /\ (h.charging => h.connected)
    BY <1>1, <2>0 DEF SameWorld, Running
  <2>6. /\ r \in PowerData
        /\ returns =>
              /\ SleepInitialised(r) /\ r.state # "INIT"
              /\ r.state = "OK" /\ NeedsToPowerOff(r, h)
                    => p.state = "INIT" \/ r.call = "EmergencyShutdown"
    BY <2>3, <2>4, <2>5, HandleFacts
  <2>7. p.state # "INIT"
    BY <1>1, <1>3, <2>1, <2>3 DEF Starting
  <2>8. Commit(r, h, returns)
    BY <2>1, <2>2, <2>4 DEF InitComplete
  <2>9. returns => Starting(r, h)
    BY <2>6 DEF Starting
  <2> QED  BY <1>1, <2>5, <2>6, <2>7, <2>8, <2>9, CommitKeeps
<1>7. CASE appPowerOffRequest
  <2>0. PICK h : h = hw
    OBVIOUS
  <2>1. PICK returns \in BOOLEAN :
           Commit(PowerOffRequest(f, h, returns), h, returns)
    BY <1>2, <1>7, <2>0 DEF appPowerOffRequest, Commit
  <2>2. SameWorld(h) /\ h \in Hardware
    BY <1>1, <2>0 DEF SameWorld, Running
  <2>3. PICK r : r = PowerOffRequest(f, h, returns)
    OBVIOUS
  <2>4. Commit(r, h, returns)
    BY <2>1, <2>3
  <2>5. CASE CanPowerOff(h) /\ f.state = "OK"
    <3>1. PICK p : p = [f EXCEPT !.user = TRUE]
      OBVIOUS
    <3>2. p \in PowerData
      BY <1>3, <3>1 DEF PowerData
    <3>3. r = SetTerminatingNotified(p, h, returns)
      BY <2>3, <2>5, <3>1 DEF PowerOffRequest
    <3>4. /\ r \in PowerData
          /\ r.state \in {"OK", "TERMINATING_CLIENTS_RESPONDED",
                          "TERMINATING_CLIENTS_NOTIFIED"}
          /\ r.state = "OK" /\ NeedsToPowerOff(r, h)
                => r.call = "EmergencyShutdown" /\ returns
      BY <2>2, <3>2, <3>3, TerminatingNotifiedFacts
    <3>5. SleepInitialised(r) /\ Starting(r, h)
      BY <3>4 DEF SleepInitialised, Starting
    <3> QED  BY <1>1, <2>2, <2>4, <3>4, <3>5, CommitKeeps
  <2>6. CASE ~(CanPowerOff(h) /\ f.state = "OK")
    <3>1. r = f
      BY <2>3, <2>6 DEF PowerOffRequest
    <3>2. Starting(r, h)
      BY <1>1, <1>3, <2>0, <3>1 DEF Starting
    <3>3. r.state = "OK" /\ NeedsToPowerOff(r, h) => h.events > 0 \/ h.changed # << >>
      BY <1>1, <1>3, <2>0, <3>1 DEF WorkKnown, NeedsToPowerOff
    <3> QED  BY <1>1, <1>3, <1>4, <2>2, <2>4, <3>1, <3>2, <3>3, CommitKeeps
  <2> QED  BY <2>5, <2>6
<1> QED  BY <1>5, <1>6, <1>7

\* A client that changes what it is doing stays a client.
LEMMA ViewFacts ==
    ASSUME NEW p \in PowerData, NEW c \in Clients, NEW v \in Views
    PROVE  [p EXCEPT !.view[c] = v] \in PowerData /\ Alike([p EXCEPT !.view[c] = v], p)
<1> DEFINE w == [p.view EXCEPT ![c] = v]
<1>1. w \in [Clients -> Views] /\ [p EXCEPT !.view[c] = v] = [p EXCEPT !.view = w]
  BY DEF PowerData
<1> HIDE DEF w
<1>2. [p EXCEPT !.view = w] \in PowerData /\ Alike([p EXCEPT !.view = w], p)
  BY <1>1 DEF PowerData, Alike
<1> QED  BY <1>1, <1>2

\* The calls of the clients.
LEMMA ClientStepsKeep ==
    ASSUME PowerInv, NEW c \in Clients,
           \/ appPowerClientRegister(c)
           \/ appPowerClientUnregister(c)
           \/ appPowerClientAllowSleep(c)
           \/ appPowerClientProhibitSleep(c)
           \/ appPowerShutdownPrepareResponse(c)
           \/ appPowerSleepPrepareResponse(c)
    PROVE  PowerInv'
<1>1. /\ TypeOK /\ Running /\ hw \in Hardware
      /\ hw.charging => hw.connected
      /\ Starting(pm, hw) /\ SleepInitialised(pm) /\ WorkKnown(pm, hw)
  BY DEF PowerInv, TypeOK, appPowerClientRegister, appPowerClientUnregister,
         appPowerClientAllowSleep, appPowerClientProhibitSleep,
         appPowerShutdownPrepareResponse, appPowerSleepPrepareResponse
<1>2. PICK f, h : f = Fresh /\ h = hw
  OBVIOUS
<1>3. /\ f \in PowerData /\ Alike(f, Fresh) /\ f.call = "none"
      /\ f.state = pm.state /\ f.initComplete = pm.initComplete
  BY <1>1, <1>2, FreshFacts DEF Alike
<1>4. SleepInitialised(f) /\ h \in Hardware /\ (h.charging => h.connected)
  BY <1>1, <1>2, <1>3 DEF SleepInitialised
<1>5. \A p \in PowerData : Alike(p, f) =>
          SleepInitialised(p) /\ Alike([p EXCEPT !.call = "none"], Fresh)
  BY <1>2, <1>3, <1>4 DEF Alike, PowerData, SleepInitialised
<1>6. Alike(f, f)
  BY DEF Alike
<1>7. CASE appPowerClientRegister(c)
  <2>1. PICK r : r = ClientRegister(f, c)
    OBVIOUS
  <2>2. Commit(r, h, TRUE)
    BY <1>2, <1>7, <2>1 DEF appPowerClientRegister, Commit
  <2>3. Orderly(r, f, h, TRUE)
    BY <1>3, <1>4, <2>1, RegisterFacts, AlikeOrderly
  <2> QED  BY <1>1, <1>2, <1>3, <1>5, <1>6, <2>2, <2>3, OrderlyKeeps
<1>8. CASE appPowerClientUnregister(c)
  <2>1. PICK returns \in BOOLEAN : Commit(ClientUnregister(f, h, returns, c), h, returns)
    BY <1>2, <1>8 DEF appPowerClientUnregister, Commit
  <2>2. PICK r : r = ClientUnregister(f, h, returns, c)
    OBVIOUS
  <2>3. Orderly(r, f, h, returns)
    BY <1>3, <1>4, <2>2, UnregisterFacts
  <2>4. Commit(r, h, returns)
    BY <2>1, <2>2
  <2> QED  BY <1>1, <1>2, <1>3, <1>5, <1>6, <2>3, <2>4, OrderlyKeeps
<1>9. CASE appPowerClientAllowSleep(c)
  <2>1. PICK returns \in BOOLEAN : Commit(ClientAllowSleep(f, h, c), h, returns)
    BY <1>2, <1>9 DEF appPowerClientAllowSleep, Commit
  <2>2. PICK r : r = ClientAllowSleep(f, h, c)
    OBVIOUS
  <2>3. /\ r \in PowerData
        /\ \/ Alike(r, f)
           \/ /\ r.initComplete
              /\ r.state \in {"OK", "SOPORIFIC_CLIENTS_RESPONDED",
                              "SOPORIFIC_CLIENTS_NOTIFIED"}
              /\ r.state = "OK" => ~NeedsToPowerOff(r, h)
    BY <1>3, <1>4, <2>2, AllowSleepFacts
  <2>4. Orderly(r, f, h, returns)
    <3>1. CASE Alike(r, f)
      BY <1>3, <1>4, <2>3, <3>1, AlikeOrderly
    <3>2. CASE ~Alike(r, f)
      BY <2>3, <3>2 DEF Orderly, SleepInitialised
    <3> QED  BY <3>1, <3>2
  <2>5. Commit(r, h, returns)
    BY <2>1, <2>2
  <2> QED  BY <1>1, <1>2, <1>3, <1>5, <1>6, <2>4, <2>5, OrderlyKeeps
<1>10. CASE appPowerClientProhibitSleep(c)
  <2>1. PICK r : r = ClientProhibitSleep(f, c)
    OBVIOUS
  <2>2. Commit(r, h, TRUE)
    BY <1>2, <1>10, <2>1 DEF appPowerClientProhibitSleep, Commit
  <2>3. r \in PowerData /\ Alike(r, f)
    BY <1>3, <2>1 DEF ClientProhibitSleep, PowerData, Alike
  <2>4. Orderly(r, f, h, TRUE)
    BY <1>3, <1>4, <2>3, AlikeOrderly
  <2> QED  BY <1>1, <1>2, <1>3, <1>5, <1>6, <2>2, <2>4, OrderlyKeeps
<1>11. CASE appPowerShutdownPrepareResponse(c)
  <2>1. PICK p : p = [f EXCEPT !.view[c] = "ready_shutdown"]
    OBVIOUS
  <2>2. p \in PowerData /\ Alike(p, f)
    BY <1>3, <2>1, ViewFacts DEF Views
  <2>3. PICK returns \in BOOLEAN :
           Commit(ShutdownPrepareResponse(p, h, returns, c), h, returns)
    BY <1>2, <1>11, <2>1 DEF appPowerShutdownPrepareResponse, Commit
  <2>4. PICK r : r = ShutdownPrepareResponse(p, h, returns, c)
    OBVIOUS
  <2>5. /\ r \in PowerData
        /\ \/ Alike(r, p)
           \/ /\ r.state \in {"OK", "TERMINATING_CLIENTS_RESPONDED"}
              /\ r.state = "OK" /\ NeedsToPowerOff(r, h)
                    => r.call = "EmergencyShutdown" /\ returns
    BY <1>4, <2>2, <2>4, ShutdownResponseFacts
  <2>6. Orderly(r, p, h, returns)
    <3>1. CASE Alike(r, p)
      BY <1>4, <1>5, <2>2, <2>5, <3>1, AlikeOrderly
    <3>2. CASE ~Alike(r, p)
      BY <2>5, <3>2 DEF Orderly, SleepInitialised
    <3> QED  BY <3>1, <3>2
  <2>7. Commit(r, h, returns)
    BY <2>3, <2>4
  <2> QED  BY <1>1, <1>2, <1>5, <2>2, <2>6, <2>7, OrderlyKeeps
<1>12. CASE appPowerSleepPrepareResponse(c)
  <2>1. PICK p : p = [f EXCEPT !.view[c] = "ready_sleep"]
    OBVIOUS
  <2>2. p \in PowerData /\ Alike(p, f)
    BY <1>3, <2>1, ViewFacts DEF Views
  <2>3. PICK returns \in BOOLEAN : Commit(SleepPrepareResponse(p, h, c), h, returns)
    BY <1>2, <1>12, <2>1 DEF appPowerSleepPrepareResponse, Commit
  <2>4. PICK r : r = SleepPrepareResponse(p, h, c)
    OBVIOUS
  <2>5. /\ r \in PowerData
        /\ \/ Alike(r, p)
           \/ /\ r.initComplete
              /\ r.state \in {"OK", "SOPORIFIC_CLIENTS_RESPONDED"}
              /\ r.state = "OK" => ~NeedsToPowerOff(r, h)
    BY <1>4, <1>5, <2>2, <2>4, SleepResponseFacts
  <2>6. Orderly(r, p, h, returns)
    <3>1. CASE Alike(r, p)
      BY <1>4, <1>5, <2>2, <2>5, <3>1, AlikeOrderly
    <3>2. CASE ~Alike(r, p)
      BY <2>5, <3>2 DEF Orderly, SleepInitialised
    <3> QED  BY <3>1, <3>2
  <2>7. Commit(r, h, returns)
    BY <2>3, <2>4
  <2> QED  BY <1>1, <1>2, <1>5, <2>2, <2>6, <2>7, OrderlyKeeps
<1> QED  BY <1>7, <1>8, <1>9, <1>10, <1>11, <1>12

\* A step of the environment that keeps its own part of the invariant.
LEMMA WorldKeeps ==
    ASSUME PowerInv, Running, NEW h \in Hardware, hw' = h, pm' = pm,
           PlugTracked(h), h.charging => h.connected,
           Starting(pm, h), WorkKnown(pm, h)
    PROVE  PowerInv'
  BY DEF PowerInv, TypeOK, Running, PlugTracked, Starting, WorkKnown,
         SleepInitialised, NeedsToPowerOff, CanPowerOff

\* Plugging and unplugging: the new change differs from the one before it.
LEMMA PinKeeps ==
    ASSUME PowerInv, NEW status \in {"pending", "detached"}, NEW plugged \in BOOLEAN,
           plugged <=> status # "detached",
           hw.usb = "detached" <=> status # "detached",
           PinChanges(status, plugged)
    PROVE  PowerInv'
<1>1. /\ TypeOK /\ Running /\ hw \in Hardware /\ PlugTracked(hw)
      /\ hw.changed \in Seq(BOOLEAN) /\ hw.connected \in BOOLEAN
      /\ hw.charging => hw.connected
      /\ Starting(pm, hw)
      /\ hw' = [hw EXCEPT !.usb = status, !.changed = Append(@, plugged)]
      /\ pm' = pm
  BY DEF PowerInv, TypeOK, PinChanges, Hardware
<1>2. PICK s : s = Append(hw.changed, plugged)
  OBVIOUS
<1>3. PICK h : h = [hw EXCEPT !.usb = status, !.changed = s]
  OBVIOUS
<1>4. /\ s \in Seq(BOOLEAN) /\ s # << >> /\ Len(s) = Len(hw.changed) + 1
      /\ s[Len(s)] = plugged
      /\ \A i \in 1 .. Len(hw.changed) : s[i] = hw.changed[i]
      /\ Len(hw.changed) \in Nat
  BY <1>1, <1>2
<1>5. /\ h \in Hardware /\ h.usb = status /\ h.changed = s
      /\ h.connected = hw.connected /\ h.charging = hw.charging
      /\ h.unsafe = hw.unsafe /\ h.extreme = hw.extreme /\ h.events = hw.events
  BY <1>1, <1>3, <1>4 DEF Hardware
<1>6. PlugTracked(h)
  <2>1. CASE hw.changed = << >>
    <3>1. Len(hw.changed) = 0 /\ s[1] = plugged /\ Len(s) = 1
      BY <1>4, <2>1
    <3>2. hw.connected <=> ~plugged
      BY <1>1, <2>1 DEF PlugTracked
    <3>3. s[1] # h.connected
      BY <1>1, <1>5, <3>1, <3>2
    <3>4. s[Len(s)] <=> status # "detached"
      BY <1>4
    <3>5. \A i \in 1 .. Len(s) - 1 : s[i + 1] # s[i]
      BY <3>1
    <3> QED  BY <1>4, <1>5, <3>3, <3>4, <3>5 DEF PlugTracked
  <2>2. CASE hw.changed # << >>
    <3>1. Len(hw.changed) >= 1
      BY <1>1, <1>4, <2>2
    <3>2. hw.changed[1] # hw.connected /\ (hw.changed[Len(hw.changed)] <=> ~plugged)
      BY <1>1, <2>2 DEF PlugTracked
    <3>3. s[1] # h.connected
      BY <1>4, <1>5, <3>1, <3>2
    <3>4. ASSUME NEW i \in 1 .. Len(s) - 1
          PROVE  s[i + 1] # s[i]
      <4>1. CASE i = Len(hw.changed)
        <5>1. s[i + 1] = plugged /\ s[i] = hw.changed[Len(hw.changed)]
          BY <1>4, <3>1, <4>1
        <5> QED  BY <3>2, <5>1
      <4>2. CASE i < Len(hw.changed)
        <5>1. s[i + 1] = hw.changed[i + 1] /\ s[i] = hw.changed[i]
          BY <1>4, <3>4, <4>2
        <5>2. i \in 1 .. Len(hw.changed) - 1
          BY <1>4, <3>4, <4>2
        <5> QED  BY <1>1, <5>1, <5>2 DEF PlugTracked
      <4> QED  BY <1>4, <3>4, <4>1, <4>2
    <3> QED  BY <1>4, <1>5, <3>3, <3>4 DEF PlugTracked
  <2> QED  BY <2>1, <2>2
<1>7. Starting(pm, h) /\ WorkKnown(pm, h)
  BY <1>1, <1>4, <1>5 DEF Starting, WorkKnown
<1>8. hw' = h
  BY <1>1, <1>2, <1>3
<1> QED  BY <1>1, <1>5, <1>6, <1>7, <1>8, WorldKeeps

(***************************************************************************)
(* The charger monitor handles a change: because the changes alternate, it *)
(* always finds a new connection and tells its clients.                    *)
(***************************************************************************)
LEMMA MonitorKeeps ==
    ASSUME PowerInv, ChargerMonitorHandlesChange
    PROVE  PowerInv'
<1>1. /\ TypeOK /\ Running /\ hw \in Hardware /\ PlugTracked(hw)
      /\ hw.changed \in Seq(BOOLEAN) /\ hw.changed # << >> /\ hw.connected \in BOOLEAN
      /\ hw.charging \in BOOLEAN /\ hw.events \in 0 .. MaxEvents
      /\ Starting(pm, hw)
  BY DEF PowerInv, TypeOK, ChargerMonitorHandlesChange, Hardware
<1>2. PICK s, x : s = Tail(hw.changed) /\ x = Head(hw.changed)
  OBVIOUS
<1>3. /\ s \in Seq(BOOLEAN) /\ x \in BOOLEAN /\ x = hw.changed[1]
      /\ Len(hw.changed) = Len(s) + 1 /\ Len(s) \in Nat
      /\ \A i \in 1 .. Len(s) : s[i] = hw.changed[i + 1]
  <2>1. Len(hw.changed) \in Nat /\ Len(hw.changed) # 0
    BY <1>1
  <2>2. s \in Seq(BOOLEAN) /\ Len(s) = Len(hw.changed) - 1
    BY <1>1, <1>2, HeadTailProperties
  <2>3. x = hw.changed[1] /\ x \in BOOLEAN
    BY <1>1, <1>2, <2>1
  <2>4. \A i \in 1 .. Len(s) : s[i] = hw.changed[i + 1]
    BY <1>1, <1>2, <2>2
  <2> QED  BY <2>1, <2>2, <2>3, <2>4
<1>4. x # hw.connected
  BY <1>1, <1>3 DEF PlugTracked
<1>5. PICK g : g = [hw EXCEPT !.changed = Tail(@), !.connected = Head(hw.changed),
                              !.charging = @ /\ Head(hw.changed)]
  OBVIOUS
<1>6. PICK d : d = (hw.charging /\ x)
  OBVIOUS
<1>7. d \in BOOLEAN /\ (d => x) /\ g = [hw EXCEPT !.changed = s, !.connected = x,
                                              !.charging = d]
  BY <1>1, <1>2, <1>3, <1>5, <1>6
<1>8. /\ g \in Hardware /\ g.usb = hw.usb /\ g.changed = s
      /\ g.connected = x /\ g.charging = d
      /\ g.unsafe = hw.unsafe /\ g.extreme = hw.extreme
  BY <1>1, <1>3, <1>7 DEF Hardware
<1>9. hw.events < MaxEvents /\ hw' = [g EXCEPT !.events = hw.events + 1] /\ pm' = pm
  BY <1>4, <1>5, <1>8 DEF ChargerMonitorHandlesChange, Notify
<1>10. PICK h : h = [g EXCEPT !.events = hw.events + 1]
  OBVIOUS
<1>11. hw.events + 1 \in 0 .. MaxEvents /\ hw.events + 1 > 0
  BY <1>1, <1>9, MaxEventsAssumption
<1>12. /\ h \in Hardware /\ h.usb = hw.usb /\ h.changed = s
       /\ h.connected = x /\ h.charging = d /\ h.events = hw.events + 1
       /\ h.unsafe = hw.unsafe /\ h.extreme = hw.extreme
  BY <1>8, <1>10, <1>11 DEF Hardware
<1>13. PlugTracked(h)
  <2>1. CASE s = << >>
    <3>1. Len(s) = 0 /\ Len(hw.changed) = 1
      BY <1>3, <2>1
    <3>2. x <=> hw.usb # "detached"
      BY <1>1, <1>3, <3>1 DEF PlugTracked
    <3> QED  BY <1>12, <2>1, <3>1, <3>2 DEF PlugTracked
  <2>2. CASE s # << >>
    <3>1. Len(s) >= 1
      BY <1>3, <2>2
    <3>2. s[1] # x
      BY <1>1, <1>3, <3>1 DEF PlugTracked
    <3>3. s[Len(s)] <=> hw.usb # "detached"
      BY <1>1, <1>3, <3>1 DEF PlugTracked
    <3>4. ASSUME NEW i \in 1 .. Len(s) - 1
          PROVE  s[i + 1] # s[i]
      <4>1. i + 1 \in 1 .. Len(hw.changed) - 1 /\ i \in 1 .. Len(s) /\ i + 1 \in 1 .. Len(s)
        BY <1>3, <3>4
      <4> QED  BY <1>1, <1>3, <4>1 DEF PlugTracked
    <3> QED  BY <1>12, <2>2, <3>2, <3>3, <3>4 DEF PlugTracked
  <2> QED  BY <2>1, <2>2
<1>14. Starting(pm, h) /\ WorkKnown(pm, h)
  BY <1>1, <1>11, <1>12 DEF Starting, WorkKnown
<1>15. hw' = h /\ (h.charging => h.connected)
  BY <1>7, <1>9, <1>10, <1>12
<1> QED  BY <1>1, <1>9, <1>12, <1>13, <1>14, <1>15, WorldKeeps

\* A message to the power manager about something it may have to react to.
LEMMA NotifyKeeps ==
    ASSUME PowerInv, NEW g \in Hardware, Notify(g),
           g.usb = hw.usb, g.changed = hw.changed, g.connected = hw.connected,
           g.charging => hw.charging
    PROVE  PowerInv'
<1>1. /\ TypeOK /\ Running /\ hw \in Hardware /\ PlugTracked(hw)
      /\ hw.events \in 0 .. MaxEvents /\ hw.events < MaxEvents
      /\ hw.charging => hw.connected
      /\ Starting(pm, hw)
      /\ hw' = [g EXCEPT !.events = hw.events + 1] /\ pm' = pm
  BY DEF PowerInv, TypeOK, Notify, Hardware
<1>2. PICK h : h = [g EXCEPT !.events = hw.events + 1]
  OBVIOUS
<1>3. hw.events + 1 \in 0 .. MaxEvents /\ hw.events + 1 > 0
      /\ (hw.events >= 1 => hw.events + 1 >= 2)
  BY <1>1, MaxEventsAssumption
<1>4. /\ h \in Hardware /\ h.usb = hw.usb /\ h.changed = hw.changed
      /\ h.connected = hw.connected /\ h.charging = g.charging
      /\ h.events = hw.events + 1
  BY <1>2, <1>3 DEF Hardware
<1>5. PlugTracked(h)
  BY <1>1, <1>4 DEF PlugTracked
<1>6. Starting(pm, h) /\ WorkKnown(pm, h)
  BY <1>1, <1>3, <1>4 DEF Starting, WorkKnown
<1>7. hw' = h /\ (h.charging => h.connected)
  BY <1>1, <1>2, <1>4
<1> QED  BY <1>1, <1>4, <1>5, <1>6, <1>7, WorldKeeps

\* After a start nothing is pending except the first message.
LEMMA StartHolds ==
    ASSUME NEW p, p = InitialPower, NEW h \in StartHardware
    PROVE  /\ p \in PowerData /\ h \in Hardware
           /\ PlugTracked(h) /\ (h.charging => h.connected)
           /\ Starting(p, h) /\ SleepInitialised(p) /\ WorkKnown(p, h)
<1>1. p \in PowerData /\ p.state = "INIT" /\ p.initCfm = FALSE
  BY DEF InitialPower, PowerData, PowerStates, Views, Calls
<1>2. PICK u \in {"detached", "pending", "attached"} :
         h = [chip |-> "on", usb |-> u, changed |-> << >>, connected |-> u # "detached",
              charging |-> FALSE, unsafe |-> FALSE, extreme |-> FALSE, events |-> 1]
  BY DEF StartHardware
<1>3. 1 \in 0 .. MaxEvents
  BY MaxEventsAssumption
<1>4. /\ h \in Hardware /\ h.usb = u /\ h.changed = << >>
      /\ h.connected = (u # "detached") /\ h.charging = FALSE
      /\ h.unsafe = FALSE /\ h.extreme = FALSE /\ h.events = 1
  BY <1>2, <1>3 DEF Hardware
<1>5. PlugTracked(h)
  <2>1. h.connected <=> h.usb # "detached"
    BY <1>4
  <2>2. \A i \in 1 .. Len(h.changed) - 1 : h.changed[i + 1] # h.changed[i]
    BY <1>4
  <2> QED  BY <1>4, <2>1, <2>2 DEF PlugTracked
<1> QED  BY <1>1, <1>4, <1>5 DEF Starting, SleepInitialised, WorkKnown

\* The steps of the environment, and of a client that reads its messages.
LEMMA EnvironmentKeeps ==
    ASSUME PowerInv, Environment \/ (\E c \in Clients : ClientReceives(c))
    PROVE  PowerInv'
<1>0. TypeOK /\ hw \in Hardware
  BY DEF PowerInv, TypeOK
<1>1. CASE ChargerPlugged
  BY <1>1, PinKeeps DEF ChargerPlugged
<1>2. CASE ChargerUnplugged
  BY <1>2, PinKeeps DEF ChargerUnplugged
<1>3. CASE ChargerDetected
  <2>1. PICK h : h = [hw EXCEPT !.usb = "attached"]
    OBVIOUS
  <2>2. /\ Running /\ hw.usb = "pending" /\ hw' = h /\ pm' = pm
        /\ PlugTracked(hw) /\ (hw.charging => hw.connected)
        /\ Starting(pm, hw) /\ WorkKnown(pm, hw)
    BY <1>3, <2>1 DEF ChargerDetected, PowerInv
  <2>3. /\ h \in Hardware /\ h.usb = "attached" /\ h.changed = hw.changed
        /\ h.connected = hw.connected /\ h.charging = hw.charging
        /\ h.unsafe = hw.unsafe /\ h.extreme = hw.extreme /\ h.events = hw.events
    BY <1>0, <2>1 DEF Hardware
  <2>4. PlugTracked(h)
    BY <2>2, <2>3 DEF PlugTracked
  <2>5. Starting(pm, h) /\ WorkKnown(pm, h) /\ (h.charging => h.connected)
    BY <2>2, <2>3 DEF Starting, WorkKnown, NeedsToPowerOff, CanPowerOff
  <2> QED  BY <2>2, <2>3, <2>4, <2>5, WorldKeeps
<1>4. CASE ChargingStarts
  <2>1. PICK h : h = [hw EXCEPT !.charging = TRUE]
    OBVIOUS
  <2>2. /\ Running /\ hw.connected /\ hw' = h /\ pm' = pm
        /\ PlugTracked(hw) /\ Starting(pm, hw) /\ WorkKnown(pm, hw)
    BY <1>4, <2>1 DEF ChargingStarts, PowerInv
  <2>3. /\ h \in Hardware /\ h.usb = hw.usb /\ h.changed = hw.changed
        /\ h.connected = hw.connected
        /\ h.unsafe = hw.unsafe /\ h.extreme = hw.extreme /\ h.events = hw.events
    BY <1>0, <2>1 DEF Hardware
  <2>4. PlugTracked(h)
    BY <2>2, <2>3 DEF PlugTracked
  <2>5. Starting(pm, h) /\ WorkKnown(pm, h) /\ (h.charging => h.connected)
    BY <2>2, <2>3 DEF Starting, WorkKnown, NeedsToPowerOff, CanPowerOff
  <2> QED  BY <2>2, <2>3, <2>4, <2>5, WorldKeeps
<1>5. CASE ChargingCompleted
  <2>1. PICK g : g = [hw EXCEPT !.charging = FALSE]
    OBVIOUS
  <2>2. /\ g \in Hardware /\ g.usb = hw.usb /\ g.changed = hw.changed
        /\ g.connected = hw.connected /\ g.charging = FALSE
    BY <1>0, <2>1 DEF Hardware
  <2>3. Notify(g)
    BY <1>5, <2>1 DEF ChargingCompleted, Notify
  <2> QED  BY <2>2, <2>3, NotifyKeeps
<1>6. CASE ChargerMonitorHandlesChange
  BY <1>6, MonitorKeeps
<1>7. CASE BatteryRegionChanges
  <2>1. PICK g : g = [hw EXCEPT !.unsafe = ~@]
    OBVIOUS
  <2>2. /\ g \in Hardware /\ g.usb = hw.usb /\ g.changed = hw.changed
        /\ g.connected = hw.connected /\ g.charging = hw.charging
    BY <1>0, <2>1 DEF Hardware
  <2>3. Notify(g)
    BY <1>7, <2>1 DEF BatteryRegionChanges, Notify
  <2> QED  BY <2>2, <2>3, NotifyKeeps
<1>8. CASE TemperatureChanges
  <2>1. PICK g : g = [hw EXCEPT !.extreme = ~@]
    OBVIOUS
  <2>2. /\ g \in Hardware /\ g.usb = hw.usb /\ g.changed = hw.changed
        /\ g.connected = hw.connected /\ g.charging = hw.charging
    BY <1>0, <2>1 DEF Hardware
  <2>3. Notify(g)
    BY <1>8, <2>1 DEF TemperatureChanges, Notify
  <2> QED  BY <2>2, <2>3, NotifyKeeps
<1>9. CASE Boot
  <2>1. PICK h \in StartHardware : pm' = InitialPower /\ hw' = h
    BY <1>9 DEF Boot
  <2>2. PICK p : p = InitialPower
    OBVIOUS
  <2>3. /\ p \in PowerData /\ h \in Hardware
        /\ PlugTracked(h) /\ (h.charging => h.connected)
        /\ Starting(p, h) /\ SleepInitialised(p) /\ WorkKnown(p, h)
    BY <2>1, <2>2, StartHolds
  <2>4. pm' = p /\ hw' = h
    BY <2>1, <2>2
  <2> QED
    BY <2>3, <2>4 DEF PowerInv, TypeOK, PlugTracked, Starting, SleepInitialised,
                      WorkKnown, NeedsToPowerOff, CanPowerOff
<1>10. ASSUME NEW c \in Clients, ClientReceives(c)
       PROVE  PowerInv'
  <2>1. PICK f, v : /\ f = Fresh
                    /\ v = CASE Head(pm.inbox[c]) = "SHUTDOWN_PREPARE" -> "preparing_shutdown"
                             [] Head(pm.inbox[c]) = "SLEEP_PREPARE" -> "preparing_sleep"
                             [] OTHER -> "working"
    OBVIOUS
  <2>2. /\ f \in PowerData /\ f.state = pm.state /\ f.user = pm.user
        /\ f.initComplete = pm.initComplete /\ f.initCfm = pm.initCfm
        /\ f.inbox = pm.inbox
    BY <1>0, <2>1, FreshFacts DEF Fresh, TypeOK, PowerData
  <2>3. /\ Running /\ pm.inbox[c] # << >> /\ hw' = hw
        /\ pm' = [f EXCEPT !.inbox[c] = Tail(@), !.view[c] = v]
    BY <1>10, <2>1 DEF ClientReceives
  <2>4. v \in Views
    BY <2>1 DEF Views
  <2>5. PICK i : i = [f.inbox EXCEPT ![c] = Tail(@)]
    OBVIOUS
  <2>6. f.inbox \in [Clients -> Seq(Indications)] /\ f.inbox[c] # << >>
    BY <2>2, <2>3 DEF PowerData
  <2>7. Tail(f.inbox[c]) \in Seq(Indications)
    BY <2>6, HeadTailProperties
  <2>8. i \in [Clients -> Seq(Indications)]
    BY <2>5, <2>6, <2>7
  <2>9. PICK w : w = [f.view EXCEPT ![c] = v]
    OBVIOUS
  <2>10. w \in [Clients -> Views]
    BY <2>2, <2>4, <2>9 DEF PowerData
  <2>11. pm' = [f EXCEPT !.inbox = i, !.view = w]
    BY <2>2, <2>3, <2>5, <2>9 DEF PowerData
  <2>12. /\ pm' \in PowerData /\ pm'.state = pm.state /\ pm'.user = pm.user
         /\ pm'.initComplete = pm.initComplete /\ pm'.initCfm = pm.initCfm
    BY <2>2, <2>8, <2>10, <2>11 DEF PowerData
  <2>13. TypeOK' /\ Running'
    BY <1>0, <2>3, <2>12 DEF TypeOK, Running
  <2>14. /\ PlugTracked(hw)' /\ (hw.charging => hw.connected)'
         /\ Starting(pm, hw)' /\ SleepInitialised(pm)' /\ WorkKnown(pm, hw)'
    BY <2>3, <2>12 DEF PowerInv, PlugTracked, Starting, SleepInitialised, WorkKnown,
                       NeedsToPowerOff, CanPowerOff
  <2> QED  BY <2>13, <2>14 DEF PowerInv
<1> QED
  BY <1>1, <1>2, <1>3, <1>4, <1>5, <1>6, <1>7, <1>8, <1>9, <1>10 DEF Environment

-----------------------------------------------------------------------------
(***************************************************************************)
(* The power manager's data keep their types and the invariant holds, for  *)
(* every set of clients and every bound on the queues.                     *)
(***************************************************************************)
THEOREM PowerInvariant == Spec => []PowerInv
<1>1. Init => PowerInv
  <2> SUFFICES ASSUME Init PROVE PowerInv
    OBVIOUS
  <2>1. pm = InitialPower /\ hw \in StartHardware
    BY DEF Init
  <2> QED  BY <2>1, StartHolds DEF PowerInv, TypeOK
<1>2. PowerInv /\ [Next]_vars => PowerInv'
  <2> SUFFICES ASSUME PowerInv, [Next]_vars PROVE PowerInv'
    OBVIOUS
  <2>1. CASE appPowerHandleMessage \/ appPowerInitComplete \/ appPowerOffRequest
    BY <2>1, OwnStepsKeep
  <2>2. ASSUME NEW c \in Clients,
               \/ appPowerClientRegister(c)
               \/ appPowerClientUnregister(c)
               \/ appPowerClientAllowSleep(c)
               \/ appPowerClientProhibitSleep(c)
               \/ appPowerShutdownPrepareResponse(c)
               \/ appPowerSleepPrepareResponse(c)
        PROVE  PowerInv'
    BY <2>2, ClientStepsKeep
  <2>3. CASE Environment \/ (\E c \in Clients : ClientReceives(c))
    BY <2>3, EnvironmentKeeps
  <2>4. CASE UNCHANGED vars
    BY <2>4 DEF vars, PowerInv, TypeOK, Running, PlugTracked, Starting,
                SleepInitialised, WorkKnown, NeedsToPowerOff, CanPowerOff
  <2> QED  BY <2>1, <2>2, <2>3, <2>4 DEF Next
<1> QED  BY <1>1, <1>2, PTL DEF Spec

\* The types that the runs check hold for every set of clients.
THEOREM PowerTypeOK == Spec => []TypeOK
<1>1. PowerInv => TypeOK
  BY DEF PowerInv
<1> QED  BY <1>1, PowerInvariant, PTL

(***************************************************************************)
(* A reason to power off is never overlooked, whatever the clients do and  *)
(* however the charger is plugged and unplugged while its kind is being    *)
(* found out.                                                              *)
(***************************************************************************)
THEOREM PowerNoMissedPowerOff == Spec => []NoMissedPowerOff
<1>1. PowerInv => NoMissedPowerOff
  BY DEF PowerInv, NoMissedPowerOff, WorkKnown
<1> QED  BY <1>1, PowerInvariant, PTL

-----------------------------------------------------------------------------
(* The handshakes *)

Prepares == {"SHUTDOWN_PREPARE", "SLEEP_PREPARE"}
Cancels == {"SHUTDOWN_CANCELLED", "SLEEP_CANCELLED"}
Preparing == {"preparing_shutdown", "preparing_sleep"}

\* An inbox with nothing to answer.
Quiet(b) == \A i \in 1 .. Len(b) : b[i] \in Cancels

\* An inbox whose last message, and no other, asks the client to prepare.
Asked(b, m) ==
    /\ b # << >> /\ b[Len(b)] = m
    /\ \A i \in 1 .. Len(b) - 1 : b[i] \in Cancels

Has(b, m) == \E i \in 1 .. Len(b) : b[i] = m

(***************************************************************************)
(* The inductive invariant, for the part of a client: what is in its inbox *)
(* while a response is pending, and while none is.                         *)
(***************************************************************************)
Outside(p, c) == p.view[c] = "working" /\ p.inbox[c] = << >>

Ready(p, c, v) == p.view[c] = v /\ p.inbox[c] = << >>

Awaited(p, c, m, v) ==
    \/ Asked(p.inbox[c], m) /\ p.view[c] \notin Preparing
    \/ p.inbox[c] = << >> /\ p.view[c] = v

\* A client that is ready will be told if nothing comes of it.
WillBeTold(p, c) ==
    /\ p.view[c] = "ready_shutdown" =>
          \/ p.state = "TERMINATING_CLIENTS_NOTIFIED"
          \/ Has(p.inbox[c], "SHUTDOWN_CANCELLED")
    /\ p.view[c] = "ready_sleep" =>
          \/ p.state \in {"SOPORIFIC_CLIENTS_NOTIFIED", "SOPORIFIC_CLIENTS_RESPONDED"}
          \/ Has(p.inbox[c], "SLEEP_CANCELLED")

ClientInStep(p, c) ==
    /\ c \notin p.clients => Outside(p, c)
    /\ c \in p.shutdownPending =>
          Awaited(p, c, "SHUTDOWN_PREPARE", "preparing_shutdown")
    /\ c \in p.sleepPending => Awaited(p, c, "SLEEP_PREPARE", "preparing_sleep")
    /\ c \notin p.shutdownPending \cup p.sleepPending =>
          Quiet(p.inbox[c]) /\ p.view[c] \notin Preparing
    /\ p.state = "TERMINATING_CLIENTS_NOTIFIED" /\ c \in p.clients \ p.shutdownPending
          => Ready(p, c, "ready_shutdown")
    /\ p.state = "SOPORIFIC_CLIENTS_NOTIFIED" /\ c \in p.clients \ p.sleepPending
          => Ready(p, c, "ready_sleep")
    /\ WillBeTold(p, c)

PendingInStep(p) ==
    /\ p.shutdownPending \subseteq p.clients
    /\ p.sleepPending \subseteq p.clients
    /\ (p.shutdownPending # {}) <=> (p.state = "TERMINATING_CLIENTS_NOTIFIED")
    /\ (p.sleepPending # {}) <=> (p.state = "SOPORIFIC_CLIENTS_NOTIFIED")
    /\ p.state # "TERMINATING_CLIENTS_RESPONDED"

\* D is the set of tasks that are looked at: all, or all but the one that is
\* being removed.
InStep(p, D) == PendingInStep(p) /\ \A c \in D : ClientInStep(p, c)

HandshakeInv == (Running => InStep(pm, Clients)) /\ PowerOffIsAgreed

\* Every client has given the answer v.
Settled(p, v, D) ==
    /\ p.shutdownPending = {} /\ p.sleepPending = {}
    /\ \A c \in D : /\ c \in p.clients => Ready(p, c, v)
                    /\ c \notin p.clients => Outside(p, c)

\* What an operation leaves behind, before the chip goes on or stops.
Fine(r, h, returns, D) ==
    /\ r.state # "TERMINATING_CLIENTS_RESPONDED" => InStep(r, D)
    /\ r.state = "TERMINATING_CLIENTS_RESPONDED" =>
          ~returns /\ Settled(r, "ready_shutdown", D) /\ NeedsToPowerOff(r, h)
    /\ r.call = "EmergencyShutdown" /\ ~returns =>
          r.state = "TERMINATING_CLIENTS_RESPONDED"
    /\ r.call = "Sleep" => Settled(r, "ready_sleep", D) /\ ~h.charging

-----------------------------------------------------------------------------
(* Inboxes *)

\* One more message at the end of an inbox.
LEMMA AppendFacts ==
    ASSUME NEW b \in Seq(Indications), NEW m \in Indications
    PROVE  /\ Append(b, m) \in Seq(Indications)
           /\ Len(Append(b, m)) = Len(b) + 1 /\ Len(b) \in Nat
           /\ \A i \in 1 .. Len(b) : Append(b, m)[i] = b[i]
           /\ Append(b, m)[Len(b) + 1] = m
  OBVIOUS

\* A cancellation in an inbox with nothing to answer.
LEMMA AppendCancel ==
    ASSUME NEW b \in Seq(Indications), NEW m \in Cancels, Quiet(b)
    PROVE  Quiet(Append(b, m)) /\ Has(Append(b, m), m)
<1>1. m \in Indications
  BY DEF Cancels, Indications
<1>2. PICK a : a = Append(b, m)
  OBVIOUS
<1>3. /\ Len(a) = Len(b) + 1 /\ Len(b) \in Nat /\ a[Len(b) + 1] = m
      /\ \A i \in 1 .. Len(b) : a[i] = b[i]
  BY <1>1, <1>2, AppendFacts
<1>4. Quiet(a)
  <2> SUFFICES ASSUME NEW i \in 1 .. Len(a) PROVE a[i] \in Cancels
    BY DEF Quiet
  <2>1. CASE i = Len(b) + 1
    BY <1>3, <2>1
  <2>2. CASE i \in 1 .. Len(b)
    BY <1>3, <2>2 DEF Quiet
  <2> QED  BY <1>3, <2>1, <2>2
<1>5. Has(a, m)
  BY <1>3 DEF Has
<1> QED  BY <1>2, <1>4, <1>5

\* A request in an inbox with nothing to answer.
LEMMA AppendPrepare ==
    ASSUME NEW b \in Seq(Indications), NEW m \in Prepares, Quiet(b)
    PROVE  Asked(Append(b, m), m)
<1>1. m \in Indications
  BY DEF Prepares, Indications
<1>2. PICK a : a = Append(b, m)
  OBVIOUS
<1>3. /\ Len(a) = Len(b) + 1 /\ Len(b) \in Nat /\ a[Len(b) + 1] = m
      /\ \A i \in 1 .. Len(b) : a[i] = b[i]
  BY <1>1, <1>2, AppendFacts
<1>4. a # << >>
  BY <1>3
<1>5. \A i \in 1 .. Len(a) - 1 : a[i] \in Cancels
  BY <1>3 DEF Quiet
<1> QED  BY <1>2, <1>3, <1>4, <1>5 DEF Asked

\* A message that is in an inbox stays there when others come.
LEMMA AppendKeeps ==
    ASSUME NEW b \in Seq(Indications), NEW m \in Indications, NEW k, Has(b, k)
    PROVE  Has(Append(b, m), k)
<1>1. PICK a : a = Append(b, m)
  OBVIOUS
<1>2. /\ Len(a) = Len(b) + 1 /\ Len(b) \in Nat
      /\ \A i \in 1 .. Len(b) : a[i] = b[i]
  BY <1>1, AppendFacts
<1>3. PICK i \in 1 .. Len(b) : b[i] = k
  BY DEF Has
<1>4. i \in 1 .. Len(a) /\ a[i] = k
  BY <1>2, <1>3
<1> QED  BY <1>1, <1>4 DEF Has

\* The rest of an inbox when its first message has been read.
LEMMA TailFacts ==
    ASSUME NEW b \in Seq(Indications), b # << >>
    PROVE  /\ Tail(b) \in Seq(Indications) /\ Head(b) = b[1]
           /\ Len(b) \in Nat /\ Len(b) >= 1 /\ Len(Tail(b)) = Len(b) - 1
           /\ \A i \in 1 .. Len(b) - 1 : Tail(b)[i] = b[i + 1]
<1>1. Len(b) \in Nat /\ Len(b) # 0
  OBVIOUS
<1>2. Tail(b) \in Seq(Indications) /\ Len(Tail(b)) = Len(b) - 1
  BY HeadTailProperties
<1>3. \A i \in 1 .. Len(b) - 1 : Tail(b)[i] = b[i + 1]
  BY <1>1, <1>2
<1> QED  BY <1>1, <1>2, <1>3

\* Reading from an inbox with nothing to answer.
LEMMA TailQuiet ==
    ASSUME NEW b \in Seq(Indications), b # << >>, Quiet(b)
    PROVE  Head(b) \in Cancels /\ Quiet(Tail(b))
<1>1. PICK a : a = Tail(b)
  OBVIOUS
<1>2. /\ Head(b) = b[1] /\ Len(b) \in Nat /\ Len(b) >= 1 /\ Len(a) = Len(b) - 1
      /\ \A i \in 1 .. Len(b) - 1 : a[i] = b[i + 1]
  BY <1>1, TailFacts
<1>3. Head(b) \in Cancels
  BY <1>2 DEF Quiet
<1>4. Quiet(a)
  BY <1>2 DEF Quiet
<1> QED  BY <1>1, <1>3, <1>4

\* Reading from an inbox that ends in a request.
LEMMA TailAsked ==
    ASSUME NEW b \in Seq(Indications), NEW m, Asked(b, m)
    PROVE  \/ Head(b) = m /\ Tail(b) = << >>
           \/ Head(b) \in Cancels /\ Asked(Tail(b), m)
<1>1. PICK a : a = Tail(b)
  OBVIOUS
<1>2. b # << >>
  BY DEF Asked
<1>3. /\ Head(b) = b[1] /\ Len(b) \in Nat /\ Len(b) >= 1 /\ Len(a) = Len(b) - 1
      /\ a \in Seq(Indications)
      /\ \A i \in 1 .. Len(b) - 1 : a[i] = b[i + 1]
  BY <1>1, <1>2, TailFacts
<1>4. CASE Len(b) = 1
  <2>1. Head(b) = m
    BY <1>3, <1>4 DEF Asked
  <2>2. a = << >>
    BY <1>3, <1>4
  <2> QED  BY <1>1, <2>1, <2>2
<1>5. CASE Len(b) > 1
  <2>1. Head(b) \in Cancels
    BY <1>3, <1>5 DEF Asked
  <2>2. a # << >>
    BY <1>3, <1>5
  <2>3. a[Len(a)] = m
    BY <1>3, <1>5 DEF Asked
  <2>4. \A i \in 1 .. Len(a) - 1 : a[i] \in Cancels
    <3> SUFFICES ASSUME NEW i \in 1 .. Len(a) - 1 PROVE a[i] \in Cancels
      OBVIOUS
    <3>1. i \in 1 .. Len(b) - 1 /\ i + 1 \in 1 .. Len(b) - 1
      BY <1>3
    <3> QED  BY <1>3, <3>1 DEF Asked
  <2> QED  BY <1>1, <2>1, <2>2, <2>3, <2>4 DEF Asked
<1> QED  BY <1>3, <1>4, <1>5

\* An empty inbox has nothing to answer and no message.
LEMMA EmptyFacts ==
    /\ Quiet(<< >>)
    /\ \A m : ~Asked(<< >>, m)
  BY DEF Quiet, Asked

-----------------------------------------------------------------------------
(* What the transitions do to the data of the handshake *)

\* The data of the handshake but for the state and the inboxes.
SameClients(r, p) ==
    /\ r.clients = p.clients /\ r.view = p.view
    /\ r.shutdownPending = p.shutdownPending /\ r.sleepPending = p.sleepPending

\* m is sent to all clients.
Sent(r, p, m) ==
    \A c \in Clients :
        r.inbox[c] = IF c \in p.clients THEN Append(p.inbox[c], m) ELSE p.inbox[c]

\* Sending an indication (TaskList_MessageSendId in power_manager_sm.c).
LEMMA SendEffect ==
    ASSUME NEW p \in PowerData, NEW m \in Indications
    PROVE  LET r == SendToClients(p, m)
           IN  SameClients(r, p) /\ Sent(r, p, m) /\ r.state = p.state /\ r.call = p.call
<1> DEFINE f == [c \in Clients |->
        IF c \in p.clients THEN Append(p.inbox[c], m) ELSE p.inbox[c]]
           r == [p EXCEPT !.inbox = f]
<1>1. SendToClients(p, m) = r
  BY DEF SendToClients
<1>2. \A c \in Clients :
         f[c] = IF c \in p.clients THEN Append(p.inbox[c], m) ELSE p.inbox[c]
  OBVIOUS
<1> HIDE DEF f
<1>3. r.inbox = f /\ SameClients(r, p) /\ r.state = p.state /\ r.call = p.call
  BY DEF PowerData, SameClients
<1>4. Sent(r, p, m)
  BY <1>2, <1>3 DEF Sent
<1> QED  BY <1>1, <1>3, <1>4

\* From POWER_STATE_OK and from the notified states a state is entered
\* without a message.
LEMMA EnterEffect ==
    ASSUME NEW p \in PowerData, NEW s \in PowerStates,
           p.state \in {"OK", "TERMINATING_CLIENTS_NOTIFIED",
                        "SOPORIFIC_CLIENTS_NOTIFIED"}
    PROVE  LET r == [ExitState(p) EXCEPT !.state = s]
           IN  /\ r \in PowerData /\ SameClients(r, p) /\ r.inbox = p.inbox
               /\ r.state = s /\ r.call = p.call
<1>1. ExitState(p) = p
  BY DEF ExitState
<1> QED  BY <1>1 DEF PowerData, SameClients

\* POWER_STATE_OK is entered from POWER_STATE_INIT without a message.
LEMMA OkFromInit ==
    ASSUME NEW p \in PowerData, p.state = "INIT"
    PROVE  LET r == SetOk(p)
           IN  /\ SameClients(r, p) /\ r.inbox = p.inbox
               /\ r.state = "OK" /\ r.call = p.call
<1>1. ExitState(p) = [p EXCEPT !.initCfm = TRUE]
  BY DEF ExitState
<1> QED  BY <1>1 DEF SetOk, PowerData, SameClients

\* POWER_STATE_OK is entered with a cancellation when all have answered.
LEMMA OkFromResponded ==
    ASSUME NEW p \in PowerData, NEW m,
           \/ p.state = "TERMINATING_CLIENTS_RESPONDED" /\ m = "SHUTDOWN_CANCELLED"
           \/ p.state = "SOPORIFIC_CLIENTS_RESPONDED" /\ m = "SLEEP_CANCELLED"
    PROVE  LET r == SetOk(p)
           IN  SameClients(r, p) /\ Sent(r, p, m) /\ r.state = "OK" /\ r.call = p.call
<1>1. m \in Indications /\ ExitState(p) = SendToClients(p, m)
  BY DEF ExitState, Indications
<1>2. PICK n : n = SendToClients(p, m)
  OBVIOUS
<1>3. /\ n \in PowerData /\ SameClients(n, p) /\ Sent(n, p, m) /\ n.call = p.call
  BY <1>1, <1>2, SendFacts, SendEffect, Zenon
<1>4. SetOk(p) = [n EXCEPT !.state = "OK", !.user = FALSE]
  BY <1>1, <1>2 DEF SetOk
<1>5. PICK r : r = SetOk(p)
  OBVIOUS
<1>6. SameClients(r, n) /\ r.inbox = n.inbox /\ r.state = "OK" /\ r.call = n.call
  BY <1>3, <1>4, <1>5 DEF SameClients, PowerData
<1>7. SameClients(r, p)
  BY <1>3, <1>6 DEF SameClients
<1>8. Sent(r, p, m)
  BY <1>3, <1>6 DEF Sent
<1> QED  BY <1>3, <1>5, <1>6, <1>7, <1>8

(***************************************************************************)
(* A handshake that was given up after all had answered: everybody reads   *)
(* so (the Exit functions of the two RESPONDED states).                    *)
(***************************************************************************)
LEMMA GiveUp ==
    ASSUME NEW p \in PowerData, NEW D \in SUBSET Clients,
           \/ /\ p.state = "TERMINATING_CLIENTS_RESPONDED"
              /\ Settled(p, "ready_shutdown", D)
           \/ /\ p.state = "SOPORIFIC_CLIENTS_RESPONDED"
              /\ Settled(p, "ready_sleep", D)
    PROVE  LET r == SetOk(p)
           IN  /\ r \in PowerData /\ InStep(r, D) /\ SameClients(r, p)
               /\ r.shutdownPending = {} /\ r.sleepPending = {}
               /\ r.state = "OK" /\ r.call = p.call
<1>1. PICK m, v : \/ /\ p.state = "TERMINATING_CLIENTS_RESPONDED"
                     /\ m = "SHUTDOWN_CANCELLED" /\ v = "ready_shutdown"
                  \/ /\ p.state = "SOPORIFIC_CLIENTS_RESPONDED"
                     /\ m = "SLEEP_CANCELLED" /\ v = "ready_sleep"
  OBVIOUS
<1>2. Settled(p, v, D) /\ m \in Cancels
  BY <1>1 DEF Cancels
<1>3. PICK r : r = SetOk(p)
  OBVIOUS
<1>4. /\ r \in PowerData
      /\ SameClients(r, p) /\ Sent(r, p, m) /\ r.state = "OK" /\ r.call = p.call
  BY <1>1, <1>3, OkFacts, OkFromResponded
<1>5. r.shutdownPending = {} /\ r.sleepPending = {}
  BY <1>2, <1>4 DEF SameClients, Settled
<1>6. PendingInStep(r)
  BY <1>4, <1>5 DEF PendingInStep
<1>7. ASSUME NEW c \in D
      PROVE  ClientInStep(r, c)
  <2>1. CASE c \in p.clients
    <3>1. p.inbox[c] = << >> /\ p.view[c] = v
      BY <1>2, <2>1 DEF Settled, Ready
    <3>2. << >> \in Seq(Indications) /\ Quiet(<< >>)
      BY EmptyFacts
    <3>3. r.inbox[c] = Append(<< >>, m) /\ r.view[c] = v
      BY <1>4, <2>1, <3>1 DEF Sent, SameClients
    <3>4. Quiet(r.inbox[c]) /\ Has(r.inbox[c], m)
      BY <1>2, <3>2, <3>3, AppendCancel
    <3>5. WillBeTold(r, c)
      BY <1>1, <3>3, <3>4 DEF WillBeTold
    <3> QED
      BY <1>1, <1>4, <1>5, <2>1, <3>3, <3>4, <3>5 DEF ClientInStep, Preparing, SameClients
  <2>2. CASE c \notin p.clients
    <3>1. r.inbox[c] = << >> /\ r.view[c] = "working"
      BY <1>2, <1>4, <2>2 DEF Settled, Outside, Sent, SameClients
    <3> QED
      BY <1>4, <1>5, <3>1, EmptyFacts DEF ClientInStep, Preparing, WillBeTold, Outside
  <2> QED  BY <2>1, <2>2
<1> QED  BY <1>3, <1>4, <1>5, <1>6, <1>7 DEF InStep

(***************************************************************************)
(* All have answered (appPowerEnterPowerStateTerminatingClientsResponded): *)
(* the chip stops with every client ready, or the shutdown is given up.    *)
(***************************************************************************)
LEMMA TerminatingResponded ==
    ASSUME NEW p \in PowerData, NEW h, NEW returns \in BOOLEAN, NEW D \in SUBSET Clients,
           p.state = "TERMINATING_CLIENTS_NOTIFIED", p.call = "none",
           Settled(p, "ready_shutdown", D)
    PROVE  LET r == SetTerminatingResponded(p, h, returns)
           IN  /\ r \in PowerData /\ Fine(r, h, returns, D)
               /\ r.shutdownPending = {} /\ r.sleepPending = {}
               /\ r.state \in {"OK", "TERMINATING_CLIENTS_RESPONDED"}
<1>1. PICK q : q = [ExitState(p) EXCEPT !.state = "TERMINATING_CLIENTS_RESPONDED"]
  OBVIOUS
<1>2. /\ q \in PowerData /\ SameClients(q, p) /\ q.inbox = p.inbox
      /\ q.state = "TERMINATING_CLIENTS_RESPONDED" /\ q.call = "none"
  <2>1. "TERMINATING_CLIENTS_RESPONDED" \in PowerStates
    BY DEF PowerStates
  <2> QED  BY <1>1, <2>1, EnterEffect
<1>3. Settled(q, "ready_shutdown", D)
  BY <1>2 DEF Settled, Ready, Outside, SameClients
<1>4. PICK shut : shut = [q EXCEPT !.call = "EmergencyShutdown"]
  OBVIOUS
<1>5. /\ shut \in PowerData /\ SameClients(shut, q) /\ shut.inbox = q.inbox
      /\ shut.state = "TERMINATING_CLIENTS_RESPONDED" /\ shut.call = "EmergencyShutdown"
      /\ shut.user = q.user
  BY <1>2, <1>4 DEF PowerData, SameClients, Calls
<1>6. Settled(shut, "ready_shutdown", D)
  BY <1>3, <1>5 DEF Settled, Ready, Outside, SameClients
<1>7. PICK r : r = SetTerminatingResponded(p, h, returns)
  OBVIOUS
<1>8. r = CASE ~NeedsToPowerOff(q, h) -> SetOk(q)
            [] NeedsToPowerOff(q, h) /\ returns -> SetOk(shut)
            [] NeedsToPowerOff(q, h) /\ ~returns -> shut
  BY <1>1, <1>4, <1>7 DEF SetTerminatingResponded
<1>9. CASE ~NeedsToPowerOff(q, h)
  <2>1. r = SetOk(q)
    BY <1>8, <1>9
  <2>2. /\ r \in PowerData /\ InStep(r, D)
        /\ r.shutdownPending = {} /\ r.sleepPending = {}
        /\ r.state = "OK" /\ r.call = "none"
    BY <1>2, <1>3, <2>1, GiveUp
  <2> QED  BY <1>7, <2>2 DEF Fine
<1>10. CASE NeedsToPowerOff(q, h) /\ returns
  <2>1. r = SetOk(shut)
    BY <1>8, <1>10
  <2>2. /\ r \in PowerData /\ InStep(r, D)
        /\ r.shutdownPending = {} /\ r.sleepPending = {}
        /\ r.state = "OK" /\ r.call = "EmergencyShutdown"
    BY <1>5, <1>6, <2>1, GiveUp
  <2> QED  BY <1>7, <1>10, <2>2 DEF Fine
<1>11. CASE NeedsToPowerOff(q, h) /\ ~returns
  <2>1. r = shut
    BY <1>8, <1>11
  <2>2. NeedsToPowerOff(r, h)
    BY <1>5, <1>11, <2>1 DEF NeedsToPowerOff
  <2>3. r.shutdownPending = {} /\ r.sleepPending = {}
    BY <1>6, <2>1 DEF Settled
  <2> QED  BY <1>5, <1>6, <1>7, <1>11, <2>1, <2>2, <2>3 DEF Fine
<1> QED  BY <1>9, <1>10, <1>11

\* All have answered and the system will sleep: this is in step.
LEMMA AsleepInStep ==
    ASSUME NEW p \in PowerData, NEW D \in SUBSET Clients,
           p.state = "SOPORIFIC_CLIENTS_RESPONDED", Settled(p, "ready_sleep", D)
    PROVE  InStep(p, D)
<1>1. PendingInStep(p)
  BY DEF PendingInStep, Settled
<1>2. ASSUME NEW c \in D
      PROVE  ClientInStep(p, c)
  <2>1. /\ c \notin p.shutdownPending /\ c \notin p.sleepPending
        /\ c \notin p.clients => Outside(p, c)
        /\ p.inbox[c] = << >> /\ p.view[c] \in {"ready_sleep", "working"}
    BY <1>2 DEF Settled, Ready, Outside
  <2> QED  BY <2>1, EmptyFacts DEF ClientInStep, Preparing, WillBeTold
<1> QED  BY <1>1, <1>2 DEF InStep

(***************************************************************************)
(* All have answered (appPowerEnterPowerStateSoporificClientsResponded):   *)
(* the chip is put to sleep with every client ready and nothing charging,  *)
(* or the sleep is given up.                                               *)
(***************************************************************************)
LEMMA SoporificResponded ==
    ASSUME NEW p \in PowerData, NEW h, NEW returns \in BOOLEAN, NEW D \in SUBSET Clients,
           p.state = "SOPORIFIC_CLIENTS_NOTIFIED", p.call = "none",
           Settled(p, "ready_sleep", D)
    PROVE  LET r == SetSoporificResponded(p, h)
           IN  /\ r \in PowerData /\ Fine(r, h, returns, D)
               /\ r.shutdownPending = {} /\ r.sleepPending = {}
               /\ r.state \in {"OK", "SOPORIFIC_CLIENTS_RESPONDED"}
               /\ r.call \in {"none", "Sleep"}
<1>1. PICK q : q = [ExitState(p) EXCEPT !.state = "SOPORIFIC_CLIENTS_RESPONDED"]
  OBVIOUS
<1>2. /\ q \in PowerData /\ SameClients(q, p) /\ q.inbox = p.inbox
      /\ q.state = "SOPORIFIC_CLIENTS_RESPONDED" /\ q.call = "none"
  <2>1. "SOPORIFIC_CLIENTS_RESPONDED" \in PowerStates
    BY DEF PowerStates
  <2> QED  BY <1>1, <2>1, EnterEffect
<1>3. Settled(q, "ready_sleep", D)
  BY <1>2 DEF Settled, Ready, Outside, SameClients
<1>4. PICK z : z = [q EXCEPT !.call = "Sleep"]
  OBVIOUS
<1>5. /\ z \in PowerData /\ SameClients(z, q) /\ z.inbox = q.inbox
      /\ z.state = "SOPORIFIC_CLIENTS_RESPONDED" /\ z.call = "Sleep"
  BY <1>2, <1>4 DEF PowerData, SameClients, Calls
<1>6. Settled(z, "ready_sleep", D)
  BY <1>3, <1>5 DEF Settled, Ready, Outside, SameClients
<1>7. PICK r : r = SetSoporificResponded(p, h)
  OBVIOUS
<1>8. r = IF CanSleep(q, h) THEN z ELSE SetOk(q)
  BY <1>1, <1>4, <1>7 DEF SetSoporificResponded
<1>9. CASE CanSleep(q, h)
  <2>1. r = z /\ ~h.charging
    BY <1>8, <1>9 DEF CanSleep
  <2>2. r.shutdownPending = {} /\ r.sleepPending = {}
    BY <1>6, <2>1 DEF Settled
  <2>3. InStep(r, D)
    BY <1>5, <1>6, <2>1, AsleepInStep
  <2> QED  BY <1>5, <1>6, <1>7, <2>1, <2>2, <2>3 DEF Fine
<1>10. CASE ~CanSleep(q, h)
  <2>1. r = SetOk(q)
    BY <1>8, <1>10
  <2>2. /\ r \in PowerData /\ InStep(r, D)
        /\ r.shutdownPending = {} /\ r.sleepPending = {}
        /\ r.state = "OK" /\ r.call = "none"
    BY <1>2, <1>3, <2>1, GiveUp
  <2> QED  BY <1>7, <2>2 DEF Fine
<1> QED  BY <1>9, <1>10

(***************************************************************************)
(* The start of a handshake in POWER_STATE_OK: every client is asked, also *)
(* one that has not read yet that the last handshake was cancelled.        *)
(***************************************************************************)
LEMMA AskInStep ==
    ASSUME NEW p \in PowerData, NEW w \in PowerData, NEW m, NEW D \in SUBSET Clients,
           p.state = "OK", InStep(p, D), p.clients # {},
           w.clients = p.clients, w.view = p.view, Sent(w, p, m),
           \/ /\ m = "SHUTDOWN_PREPARE" /\ w.state = "TERMINATING_CLIENTS_NOTIFIED"
              /\ w.shutdownPending = p.clients /\ w.sleepPending = p.sleepPending
           \/ /\ m = "SLEEP_PREPARE" /\ w.state = "SOPORIFIC_CLIENTS_NOTIFIED"
              /\ w.sleepPending = p.clients /\ w.shutdownPending = p.shutdownPending
    PROVE  InStep(w, D)
<1>1. p.shutdownPending = {} /\ p.sleepPending = {}
  BY DEF InStep, PendingInStep
<1>2. PendingInStep(w)
  BY <1>1 DEF PendingInStep
<1>3. ASSUME NEW c \in D
      PROVE  ClientInStep(w, c)
  <2>1. /\ ClientInStep(p, c) /\ c \in Clients /\ p.inbox[c] \in Seq(Indications)
        /\ m \in Prepares /\ m \in Indications
    BY <1>3 DEF InStep, PowerData, Prepares, Indications
  <2>2. /\ Quiet(p.inbox[c]) /\ p.view[c] \notin Preparing
        /\ c \notin p.clients => Outside(p, c)
        /\ p.view[c] = "ready_shutdown" => Has(p.inbox[c], "SHUTDOWN_CANCELLED")
        /\ p.view[c] = "ready_sleep" => Has(p.inbox[c], "SLEEP_CANCELLED")
    BY <1>1, <2>1 DEF ClientInStep, WillBeTold
  <2>3. CASE c \in p.clients
    <3>1. w.inbox[c] = Append(p.inbox[c], m)
      BY <2>1, <2>3 DEF Sent
    <3>2. Asked(w.inbox[c], m)
      BY <2>1, <2>2, <3>1, AppendPrepare
    <3>3. /\ w.view[c] = "ready_shutdown" => Has(w.inbox[c], "SHUTDOWN_CANCELLED")
          /\ w.view[c] = "ready_sleep" => Has(w.inbox[c], "SLEEP_CANCELLED")
      BY <2>1, <2>2, <3>1, AppendKeeps
    <3> QED  BY <1>1, <2>2, <2>3, <3>2, <3>3 DEF ClientInStep, WillBeTold, Awaited
  <2>4. CASE c \notin p.clients
    <3>1. w.inbox[c] = << >> /\ w.view[c] = "working"
      BY <2>1, <2>2, <2>4 DEF Sent, Outside
    <3> QED
      BY <1>1, <2>4, <3>1, EmptyFacts DEF ClientInStep, Preparing, WillBeTold, Outside
  <2> QED  BY <2>3, <2>4
<1> QED  BY <1>2, <1>3 DEF InStep

\* Without clients every handshake is settled at once.
LEMMA NobodySettled ==
    ASSUME NEW p, NEW q, NEW v, NEW D,
           p.state = "OK", InStep(p, D), p.clients = {},
           SameClients(q, p), q.inbox = p.inbox
    PROVE  Settled(q, v, D)
<1>1. q.shutdownPending = {} /\ q.sleepPending = {}
  BY DEF InStep, PendingInStep, SameClients
<1>2. ASSUME NEW c \in D
      PROVE  c \notin q.clients /\ Outside(q, c)
  BY <1>2 DEF InStep, ClientInStep, SameClients, Outside
<1> QED  BY <1>1, <1>2 DEF Settled

\* A shutdown begins (appPowerEnterPowerStateTerminatingClientsNotified).
LEMMA TerminatingNotified ==
    ASSUME NEW p \in PowerData, NEW h, NEW returns \in BOOLEAN, NEW D \in SUBSET Clients,
           p.state = "OK", p.call = "none", InStep(p, D)
    PROVE  LET r == SetTerminatingNotified(p, h, returns)
           IN  r \in PowerData /\ Fine(r, h, returns, D)
<1>1. PICK q : q = [ExitState(p) EXCEPT !.state = "TERMINATING_CLIENTS_NOTIFIED"]
  OBVIOUS
<1>2. /\ q \in PowerData /\ SameClients(q, p) /\ q.inbox = p.inbox
      /\ q.state = "TERMINATING_CLIENTS_NOTIFIED" /\ q.call = "none"
  <2>1. "TERMINATING_CLIENTS_NOTIFIED" \in PowerStates
    BY DEF PowerStates
  <2> QED  BY <1>1, <2>1, EnterEffect
<1>3. PICK n : n = SendToClients(q, "SHUTDOWN_PREPARE")
  OBVIOUS
<1>4. PICK w : w = [n EXCEPT !.shutdownPending = q.clients]
  OBVIOUS
<1>5. PICK r : r = SetTerminatingNotified(p, h, returns)
  OBVIOUS
<1>6. r = IF q.clients = {} THEN SetTerminatingResponded(q, h, returns) ELSE w
  BY <1>1, <1>3, <1>4, <1>5 DEF SetTerminatingNotified
<1>7. CASE q.clients = {}
  <2>1. r = SetTerminatingResponded(q, h, returns)
    BY <1>6, <1>7
  <2>2. p.clients = {}
    BY <1>2, <1>7 DEF SameClients
  <2>3. Settled(q, "ready_shutdown", D)
    BY <1>2, <2>2, NobodySettled
  <2> QED  BY <1>2, <1>5, <2>1, <2>3, TerminatingResponded
<1>8. CASE q.clients # {}
  <2>1. r = w
    BY <1>6, <1>8
  <2>2. /\ n \in PowerData /\ SameClients(n, q) /\ Sent(n, q, "SHUTDOWN_PREPARE")
        /\ n.state = q.state /\ n.call = q.call
    <3>1. "SHUTDOWN_PREPARE" \in Indications
      BY DEF Indications
    <3> QED  BY <1>2, <1>3, <3>1, SendFacts, SendEffect, Zenon
  <2>3. /\ w \in PowerData /\ w.clients = p.clients /\ w.view = p.view
        /\ w.shutdownPending = p.clients /\ w.sleepPending = p.sleepPending
        /\ w.inbox = n.inbox
        /\ w.state = "TERMINATING_CLIENTS_NOTIFIED" /\ w.call = "none"
    BY <1>2, <1>4, <2>2 DEF PowerData, SameClients
  <2>4. Sent(w, p, "SHUTDOWN_PREPARE") /\ p.clients # {}
    BY <1>2, <1>8, <2>2, <2>3 DEF Sent, SameClients
  <2>5. InStep(w, D)
    BY <2>3, <2>4, AskInStep
  <2> QED  BY <1>5, <2>1, <2>3, <2>5 DEF Fine
<1> QED  BY <1>7, <1>8

\* A sleep begins (appPowerEnterPowerStateSoporificClientsNotified).
LEMMA SoporificNotified ==
    ASSUME NEW p \in PowerData, NEW h, NEW returns \in BOOLEAN, NEW D \in SUBSET Clients,
           p.state = "OK", p.call = "none", InStep(p, D)
    PROVE  LET r == SetSoporificNotified(p, h)
           IN  /\ r \in PowerData /\ Fine(r, h, returns, D)
               /\ r.state # "TERMINATING_CLIENTS_RESPONDED"
               /\ r.state # "TERMINATING_CLIENTS_NOTIFIED"
               /\ r.call \in {"none", "Sleep"}
               /\ r.state = "SOPORIFIC_CLIENTS_NOTIFIED" => r.call = "none"
<1>1. PICK q : q = [ExitState(p) EXCEPT !.state = "SOPORIFIC_CLIENTS_NOTIFIED"]
  OBVIOUS
<1>2. /\ q \in PowerData /\ SameClients(q, p) /\ q.inbox = p.inbox
      /\ q.state = "SOPORIFIC_CLIENTS_NOTIFIED" /\ q.call = "none"
  <2>1. "SOPORIFIC_CLIENTS_NOTIFIED" \in PowerStates
    BY DEF PowerStates
  <2> QED  BY <1>1, <2>1, EnterEffect
<1>3. PICK n : n = SendToClients(q, "SLEEP_PREPARE")
  OBVIOUS
<1>4. PICK w : w = [n EXCEPT !.sleepPending = q.clients]
  OBVIOUS
<1>5. PICK r : r = SetSoporificNotified(p, h)
  OBVIOUS
<1>6. r = IF q.clients = {} THEN SetSoporificResponded(q, h) ELSE w
  BY <1>1, <1>3, <1>4, <1>5 DEF SetSoporificNotified
<1>7. CASE q.clients = {}
  <2>1. r = SetSoporificResponded(q, h)
    BY <1>6, <1>7
  <2>2. p.clients = {}
    BY <1>2, <1>7 DEF SameClients
  <2>3. Settled(q, "ready_sleep", D)
    BY <1>2, <2>2, NobodySettled
  <2>4. /\ r \in PowerData /\ Fine(r, h, returns, D)
        /\ r.state \in {"OK", "SOPORIFIC_CLIENTS_RESPONDED"}
        /\ r.call \in {"none", "Sleep"}
    BY <1>2, <2>1, <2>3, SoporificResponded
  <2> QED  BY <1>5, <2>4
<1>8. CASE q.clients # {}
  <2>1. r = w
    BY <1>6, <1>8
  <2>2. /\ n \in PowerData /\ SameClients(n, q) /\ Sent(n, q, "SLEEP_PREPARE")
        /\ n.state = q.state /\ n.call = q.call
    <3>1. "SLEEP_PREPARE" \in Indications
      BY DEF Indications
    <3> QED  BY <1>2, <1>3, <3>1, SendFacts, SendEffect, Zenon
  <2>3. /\ w \in PowerData /\ w.clients = p.clients /\ w.view = p.view
        /\ w.sleepPending = p.clients /\ w.shutdownPending = p.shutdownPending
        /\ w.inbox = n.inbox
        /\ w.state = "SOPORIFIC_CLIENTS_NOTIFIED" /\ w.call = "none"
    BY <1>2, <1>4, <2>2 DEF PowerData, SameClients
  <2>4. Sent(w, p, "SLEEP_PREPARE") /\ p.clients # {}
    BY <1>2, <1>8, <2>2, <2>3 DEF Sent, SameClients
  <2>5. InStep(w, D)
    BY <2>3, <2>4, AskInStep
  <2> QED  BY <1>5, <2>1, <2>3, <2>5 DEF Fine
<1> QED  BY <1>7, <1>8

-----------------------------------------------------------------------------
(* The operations *)

\* The handshake does not look at the rest of the data.
LEMMA SameInStep ==
    ASSUME NEW p, NEW r, NEW D, InStep(p, D),
           SameClients(r, p), r.inbox = p.inbox, r.state = p.state
    PROVE  InStep(r, D)
  BY DEF InStep, PendingInStep, ClientInStep, SameClients, Awaited, WillBeTold,
         Outside, Ready

\* From POWER_STATE_INIT to POWER_STATE_OK.
LEMMA InitInStep ==
    ASSUME NEW p, NEW r, NEW D, InStep(p, D),
           SameClients(r, p), r.inbox = p.inbox, p.state = "INIT", r.state = "OK"
    PROVE  InStep(r, D)
  BY DEF InStep, PendingInStep, ClientInStep, SameClients, Awaited, WillBeTold,
         Outside, Ready

\* An operation that makes no call and leaves the handshake in step.
LEMMA QuietFine ==
    ASSUME NEW r, NEW h, NEW returns, NEW D, InStep(r, D), r.call \in {"none", "Shutdown"}
    PROVE  Fine(r, h, returns, D)
  BY DEF Fine, InStep, PendingInStep

\* A charger, battery or temperature message (appPowerHandlePowerEvent).
LEMMA HandleFine ==
    ASSUME NEW p \in PowerData, NEW h, NEW returns \in BOOLEAN,
           p.call = "none", InStep(p, Clients)
    PROVE  Fine(HandlePowerEvent(p, h, returns), h, returns, Clients)
<1>1. PICK r, s : r = HandlePowerEvent(p, h, returns) /\ s = [p EXCEPT !.call = "Shutdown"]
  OBVIOUS
<1>2. /\ s \in PowerData /\ SameClients(s, p) /\ s.inbox = p.inbox
      /\ s.state = p.state /\ s.call = "Shutdown" /\ SameClients(p, p)
  BY <1>1 DEF PowerData, Calls, SameClients
<1>3. InStep(s, Clients)
  BY <1>2, SameInStep
<1>4. ASSUME NEW q \in PowerData, q.state = "INIT", InStep(q, Clients),
             q.call \in {"none", "Shutdown"}
      PROVE  Fine(SetOk(q), h, returns, Clients)
  <2>1. PICK o : o = SetOk(q)
    OBVIOUS
  <2>2. /\ SameClients(o, q) /\ o.inbox = q.inbox
        /\ o.state = "OK" /\ o.call = q.call
    BY <1>4, <2>1, OkFromInit
  <2>3. InStep(o, Clients)
    BY <1>4, <2>2, InitInStep
  <2> QED  BY <1>4, <2>1, <2>2, <2>3, QuietFine
<1>5. CASE p.state = "INIT" /\ NeedsToPowerOff(p, h) /\ ~returns
  <2>1. r = s
    BY <1>1, <1>5 DEF HandlePowerEvent
  <2> QED  BY <1>1, <1>2, <1>3, <2>1, QuietFine
<1>6. CASE p.state = "INIT" /\ NeedsToPowerOff(p, h) /\ returns
  <2>1. r = SetOk(s)
    BY <1>1, <1>6 DEF HandlePowerEvent
  <2> QED  BY <1>1, <1>2, <1>3, <1>4, <1>6, <2>1
<1>7. CASE p.state = "INIT" /\ ~NeedsToPowerOff(p, h)
  <2>1. r = SetOk(p)
    BY <1>1, <1>7 DEF HandlePowerEvent
  <2> QED  BY <1>1, <1>4, <1>7, <2>1
<1>8. CASE p.state = "OK" /\ NeedsToPowerOff(p, h)
  <2>1. r = SetTerminatingNotified(p, h, returns)
    BY <1>1, <1>8 DEF HandlePowerEvent
  <2>2. Clients \in SUBSET Clients
    OBVIOUS
  <2> QED  BY <1>1, <1>8, <2>1, <2>2, TerminatingNotified
<1>9. CASE /\ p.state = "OK" /\ ~NeedsToPowerOff(p, h)
           /\ AllClientsAllowSleep(p) /\ CanSleep(p, h)
  <2>1. r = SetSoporificNotified(p, h)
    BY <1>1, <1>9 DEF HandlePowerEvent
  <2>2. Clients \in SUBSET Clients
    OBVIOUS
  <2> QED  BY <1>1, <1>9, <2>1, <2>2, SoporificNotified
<1>10. CASE /\ p.state # "INIT"
            /\ p.state = "OK" => /\ ~NeedsToPowerOff(p, h)
                                 /\ ~(AllClientsAllowSleep(p) /\ CanSleep(p, h))
  <2>1. r = p
    BY <1>1, <1>10 DEF HandlePowerEvent
  <2> QED  BY <1>1, <2>1, QuietFine
<1> QED  BY <1>5, <1>6, <1>7, <1>8, <1>9, <1>10

\* appPowerOffRequest.
LEMMA RequestFine ==
    ASSUME NEW p \in PowerData, NEW h, NEW returns \in BOOLEAN,
           p.call = "none", InStep(p, Clients)
    PROVE  Fine(PowerOffRequest(p, h, returns), h, returns, Clients)
<1>1. PICK u : u = [p EXCEPT !.user = TRUE]
  OBVIOUS
<1>2. /\ u \in PowerData /\ SameClients(u, p) /\ u.inbox = p.inbox
      /\ u.state = p.state /\ u.call = "none"
  BY <1>1 DEF PowerData, SameClients
<1>3. InStep(u, Clients)
  BY <1>2, SameInStep
<1>4. CASE CanPowerOff(h) /\ p.state = "OK"
  <2>1. PowerOffRequest(p, h, returns) = SetTerminatingNotified(u, h, returns)
    BY <1>1, <1>4 DEF PowerOffRequest
  <2>2. Clients \in SUBSET Clients
    OBVIOUS
  <2> QED  BY <1>2, <1>3, <1>4, <2>1, <2>2, TerminatingNotified
<1>5. CASE ~(CanPowerOff(h) /\ p.state = "OK")
  <2>1. PowerOffRequest(p, h, returns) = p
    BY <1>5 DEF PowerOffRequest
  <2> QED  BY <2>1, QuietFine
<1> QED  BY <1>4, <1>5

\* appPowerClientAllowSleep, which never leads to a shutdown.
LEMMA AllowFine ==
    ASSUME NEW p \in PowerData, NEW h, NEW returns \in BOOLEAN, NEW c \in Clients,
           p.call = "none", InStep(p, Clients)
    PROVE  LET r == ClientAllowSleep(p, h, c)
           IN  /\ r \in PowerData /\ Fine(r, h, returns, Clients)
               /\ InStep(r, Clients)
               /\ r.call \in {"none", "Sleep"}
               /\ r.state \in {"TERMINATING_CLIENTS_NOTIFIED",
                               "SOPORIFIC_CLIENTS_NOTIFIED"} => r.call = "none"
<1>1. PICK q : q = [p EXCEPT !.allow = @ \cup ({c} \cap p.clients)]
  OBVIOUS
<1>2. /\ q \in PowerData /\ SameClients(q, p) /\ q.inbox = p.inbox
      /\ q.state = p.state /\ q.call = "none"
  BY <1>1 DEF PowerData, SameClients
<1>3. InStep(q, Clients)
  BY <1>2, SameInStep
<1>4. PICK r : r = ClientAllowSleep(p, h, c)
  OBVIOUS
<1>5. CASE q.state = "OK" /\ AllClientsAllowSleep(q) /\ CanSleep(q, h)
  <2>1. r = SetSoporificNotified(q, h)
    BY <1>1, <1>4, <1>5 DEF ClientAllowSleep
  <2>2. Clients \in SUBSET Clients
    OBVIOUS
  <2>3. /\ r \in PowerData /\ Fine(r, h, returns, Clients)
        /\ r.state # "TERMINATING_CLIENTS_RESPONDED"
        /\ r.state # "TERMINATING_CLIENTS_NOTIFIED"
        /\ r.call \in {"none", "Sleep"}
        /\ r.state = "SOPORIFIC_CLIENTS_NOTIFIED" => r.call = "none"
    BY <1>2, <1>3, <1>5, <2>1, <2>2, SoporificNotified
  <2>4. InStep(r, Clients)
    BY <2>3 DEF Fine
  <2> QED  BY <1>4, <2>3, <2>4
<1>6. CASE ~(q.state = "OK" /\ AllClientsAllowSleep(q) /\ CanSleep(q, h))
  <2>1. r = q
    BY <1>1, <1>4, <1>6 DEF ClientAllowSleep
  <2>2. Fine(r, h, returns, Clients)
    BY <1>2, <1>3, <2>1, QuietFine
  <2> QED  BY <1>2, <1>3, <1>4, <2>1, <2>2
<1> QED  BY <1>5, <1>6

(***************************************************************************)
(* A task registers (appPowerClientRegister), perhaps in the middle of a   *)
(* handshake: then it is asked as well.                                    *)
(***************************************************************************)
LEMMA RegisterInStep ==
    ASSUME NEW p \in PowerData, NEW c \in Clients, InStep(p, Clients)
    PROVE  LET r == ClientRegister(p, c)
           IN  r \in PowerData /\ InStep(r, Clients) /\ r.call = p.call
<1>1. PICK r, q : r = ClientRegister(p, c) /\ q = [p EXCEPT !.clients = @ \cup {c}]
  OBVIOUS
<1>2. /\ q \in PowerData /\ q.clients = p.clients \cup {c} /\ q.view = p.view
      /\ q.shutdownPending = p.shutdownPending /\ q.sleepPending = p.sleepPending
      /\ q.inbox = p.inbox /\ q.state = p.state /\ q.call = p.call
  BY <1>1 DEF PowerData
<1>3. PendingInStep(p) /\ \A d \in Clients : ClientInStep(p, d)
  BY DEF InStep
<1>4. CASE c \in p.clients
  <2>1. r = p
    BY <1>1, <1>4 DEF ClientRegister
  <2> QED  BY <1>1, <2>1
<1>5. CASE c \notin p.clients
  <2>1. /\ p.inbox[c] = << >> /\ p.view[c] = "working"
        /\ c \notin p.shutdownPending /\ c \notin p.sleepPending
    BY <1>3, <1>5 DEF ClientInStep, Outside, PendingInStep
  <2>2. /\ << >> \in Seq(Indications) /\ Quiet(<< >>)
        /\ "SHUTDOWN_PREPARE" \in Prepares \cap Indications
        /\ "SLEEP_PREPARE" \in Prepares \cap Indications
    BY EmptyFacts DEF Prepares, Indications
  <2>3. CASE p.state = "TERMINATING_CLIENTS_NOTIFIED"
    <3>1. r = [q EXCEPT !.shutdownPending = @ \cup {c},
                        !.inbox[c] = Append(@, "SHUTDOWN_PREPARE")]
      BY <1>1, <1>5, <2>3 DEF ClientRegister
    <3>2. PICK b : b = [p.inbox EXCEPT ![c] = Append(@, "SHUTDOWN_PREPARE")]
      OBVIOUS
    <3>3. /\ b \in [Clients -> Seq(Indications)]
          /\ b[c] = Append(<< >>, "SHUTDOWN_PREPARE")
          /\ \A d \in Clients : d # c => b[d] = p.inbox[d]
      <4>1. p.inbox \in [Clients -> Seq(Indications)]
        BY DEF PowerData
      <4>2. Append(<< >>, "SHUTDOWN_PREPARE") \in Seq(Indications)
        BY <2>2, AppendFacts
      <4> QED  BY <2>1, <3>2, <4>1, <4>2
    <3>4. r = [q EXCEPT !.shutdownPending = p.shutdownPending \cup {c}, !.inbox = b]
      BY <1>2, <3>1, <3>2 DEF PowerData
    <3>5. /\ r \in PowerData /\ r.clients = p.clients \cup {c} /\ r.view = p.view
          /\ r.shutdownPending = p.shutdownPending \cup {c}
          /\ r.sleepPending = p.sleepPending
          /\ r.inbox = b /\ r.state = p.state /\ r.call = p.call
      BY <1>2, <3>3, <3>4 DEF PowerData
    <3>6. Asked(r.inbox[c], "SHUTDOWN_PREPARE")
      BY <2>2, <3>3, <3>5, AppendPrepare
    <3>7. PendingInStep(r)
      BY <1>3, <2>3, <3>5 DEF PendingInStep
    <3>8. c \notin r.sleepPending /\ r.view[c] = "working"
      BY <2>1, <3>5
    <3>9. ClientInStep(r, c)
      BY <2>3, <3>5, <3>6, <3>8 DEF ClientInStep, Awaited, Preparing, WillBeTold
    <3>10. ASSUME NEW d \in Clients, d # c
           PROVE  ClientInStep(r, d)
      BY <1>3, <3>3, <3>5, <3>10 DEF ClientInStep, Awaited, WillBeTold, Outside, Ready
    <3> QED  BY <1>1, <3>5, <3>7, <3>9, <3>10 DEF InStep
  <2>4. CASE p.state = "SOPORIFIC_CLIENTS_NOTIFIED"
    <3>1. r = [q EXCEPT !.sleepPending = @ \cup {c},
                        !.inbox[c] = Append(@, "SLEEP_PREPARE")]
      BY <1>1, <1>5, <2>4 DEF ClientRegister
    <3>2. PICK b : b = [p.inbox EXCEPT ![c] = Append(@, "SLEEP_PREPARE")]
      OBVIOUS
    <3>3. /\ b \in [Clients -> Seq(Indications)]
          /\ b[c] = Append(<< >>, "SLEEP_PREPARE")
          /\ \A d \in Clients : d # c => b[d] = p.inbox[d]
      <4>1. p.inbox \in [Clients -> Seq(Indications)]
        BY DEF PowerData
      <4>2. Append(<< >>, "SLEEP_PREPARE") \in Seq(Indications)
        BY <2>2, AppendFacts
      <4> QED  BY <2>1, <3>2, <4>1, <4>2
    <3>4. r = [q EXCEPT !.sleepPending = p.sleepPending \cup {c}, !.inbox = b]
      BY <1>2, <3>1, <3>2 DEF PowerData
    <3>5. /\ r \in PowerData /\ r.clients = p.clients \cup {c} /\ r.view = p.view
          /\ r.sleepPending = p.sleepPending \cup {c}
          /\ r.shutdownPending = p.shutdownPending
          /\ r.inbox = b /\ r.state = p.state /\ r.call = p.call
      BY <1>2, <3>3, <3>4 DEF PowerData
    <3>6. Asked(r.inbox[c], "SLEEP_PREPARE")
      BY <2>2, <3>3, <3>5, AppendPrepare
    <3>7. PendingInStep(r)
      BY <1>3, <2>4, <3>5 DEF PendingInStep
    <3>8. c \notin r.shutdownPending /\ r.view[c] = "working"
      BY <2>1, <3>5
    <3>9. ClientInStep(r, c)
      BY <2>4, <3>5, <3>6, <3>8 DEF ClientInStep, Awaited, Preparing, WillBeTold
    <3>10. ASSUME NEW d \in Clients, d # c
           PROVE  ClientInStep(r, d)
      BY <1>3, <3>3, <3>5, <3>10 DEF ClientInStep, Awaited, WillBeTold, Outside, Ready
    <3> QED  BY <1>1, <3>5, <3>7, <3>9, <3>10 DEF InStep
  <2>5. CASE p.state \notin {"TERMINATING_CLIENTS_NOTIFIED", "SOPORIFIC_CLIENTS_NOTIFIED"}
    <3>1. r = q
      BY <1>1, <1>5, <2>5 DEF ClientRegister
    <3>2. PendingInStep(q)
      BY <1>2, <1>3, <2>5 DEF PendingInStep
    <3>3. ASSUME NEW d \in Clients
          PROVE  ClientInStep(q, d)
      BY <1>2, <1>3, <2>5, <3>3 DEF ClientInStep, Awaited, WillBeTold, Outside, Ready
    <3> QED  BY <1>1, <1>2, <3>1, <3>2, <3>3 DEF InStep
  <2> QED  BY <2>3, <2>4, <2>5
<1> QED  BY <1>4, <1>5

\* appPowerClientProhibitSleep.
LEMMA ProhibitInStep ==
    ASSUME NEW p \in PowerData, NEW c \in Clients, InStep(p, Clients)
    PROVE  LET r == ClientProhibitSleep(p, c)
           IN  r \in PowerData /\ InStep(r, Clients) /\ r.call = p.call
<1>1. PICK r : r = ClientProhibitSleep(p, c)
  OBVIOUS
<1>2. /\ r \in PowerData /\ SameClients(r, p) /\ r.inbox = p.inbox
      /\ r.state = p.state /\ r.call = p.call
  BY <1>1 DEF PowerData, SameClients, ClientProhibitSleep
<1>3. InStep(r, Clients)
  BY <1>2, SameInStep
<1> QED  BY <1>1, <1>2, <1>3

(***************************************************************************)
(* A client answers that it is prepared for the shutdown, or the manager   *)
(* answers for it because it is being removed, when it is not in D.        *)
(***************************************************************************)
LEMMA ShutdownAnswerFine ==
    ASSUME NEW p \in PowerData, NEW h, NEW returns \in BOOLEAN, NEW c \in Clients,
           NEW D \in SUBSET Clients,
           p.state = "TERMINATING_CLIENTS_NOTIFIED", p.call = "none", c \in p.clients,
           PendingInStep(p), \A d \in D \ {c} : ClientInStep(p, d),
           c \in D => Ready(p, c, "ready_shutdown")
    PROVE  LET r == ShutdownPrepareResponse(p, h, returns, c)
           IN  /\ r \in PowerData /\ Fine(r, h, returns, D)
               /\ c \notin r.shutdownPending /\ c \notin r.sleepPending
               /\ r.state # "SOPORIFIC_CLIENTS_NOTIFIED"
<1>1. PICK r, q : /\ r = ShutdownPrepareResponse(p, h, returns, c)
                  /\ q = [p EXCEPT !.shutdownPending = @ \ {c}]
  OBVIOUS
<1>2. /\ q \in PowerData /\ q.clients = p.clients /\ q.view = p.view
      /\ q.shutdownPending = p.shutdownPending \ {c} /\ q.sleepPending = p.sleepPending
      /\ q.inbox = p.inbox /\ q.state = p.state /\ q.call = "none"
  BY <1>1 DEF PowerData
<1>3. r = IF q.shutdownPending = {} THEN SetTerminatingResponded(q, h, returns) ELSE q
  BY <1>1 DEF ShutdownPrepareResponse
<1>4. p.sleepPending = {}
  BY DEF PendingInStep
<1>5. CASE q.shutdownPending = {}
  <2>1. r = SetTerminatingResponded(q, h, returns)
    BY <1>3, <1>5
  <2>2. ASSUME NEW d \in D
        PROVE  /\ d \in q.clients => Ready(q, d, "ready_shutdown")
               /\ d \notin q.clients => Outside(q, d)
    BY <1>2, <1>5, <2>2 DEF ClientInStep, Ready, Outside
  <2>3. Settled(q, "ready_shutdown", D)
    BY <1>2, <1>4, <1>5, <2>2 DEF Settled
  <2>4. /\ r \in PowerData /\ Fine(r, h, returns, D)
        /\ r.shutdownPending = {} /\ r.sleepPending = {}
        /\ r.state \in {"OK", "TERMINATING_CLIENTS_RESPONDED"}
    BY <1>2, <2>1, <2>3, TerminatingResponded
  <2> QED  BY <1>1, <2>4
<1>6. CASE q.shutdownPending # {}
  <2>1. r = q
    BY <1>3, <1>6
  <2>2. PendingInStep(q)
    BY <1>2, <1>6 DEF PendingInStep
  <2>3. ASSUME NEW d \in D
        PROVE  ClientInStep(q, d)
    <3>1. CASE d = c
      <4>1. q.inbox[c] = << >> /\ q.view[c] = "ready_shutdown"
        BY <1>2, <2>3, <3>1 DEF Ready
      <4> QED
        BY <1>2, <1>4, <3>1, <4>1, EmptyFacts DEF ClientInStep, Preparing, WillBeTold, Ready
    <3>2. CASE d # c
      BY <1>2, <2>3, <3>2 DEF ClientInStep, Awaited, WillBeTold, Outside, Ready
    <3> QED  BY <3>1, <3>2
  <2>4. Fine(q, h, returns, D)
    BY <1>2, <2>2, <2>3, QuietFine DEF InStep
  <2> QED  BY <1>1, <1>2, <1>4, <2>1, <2>4
<1> QED  BY <1>5, <1>6

\* The same for sleep.
LEMMA SleepAnswerFine ==
    ASSUME NEW p \in PowerData, NEW h, NEW returns \in BOOLEAN, NEW c \in Clients,
           NEW D \in SUBSET Clients,
           p.state = "SOPORIFIC_CLIENTS_NOTIFIED", p.call = "none", c \in p.clients,
           PendingInStep(p), \A d \in D \ {c} : ClientInStep(p, d),
           c \in D => Ready(p, c, "ready_sleep")
    PROVE  LET r == SleepPrepareResponse(p, h, c)
           IN  /\ r \in PowerData /\ Fine(r, h, returns, D)
               /\ c \notin r.shutdownPending /\ c \notin r.sleepPending
<1>1. PICK r, q : /\ r = SleepPrepareResponse(p, h, c)
                  /\ q = [p EXCEPT !.sleepPending = @ \ {c}]
  OBVIOUS
<1>2. /\ q \in PowerData /\ q.clients = p.clients /\ q.view = p.view
      /\ q.sleepPending = p.sleepPending \ {c} /\ q.shutdownPending = p.shutdownPending
      /\ q.inbox = p.inbox /\ q.state = p.state /\ q.call = "none"
  BY <1>1 DEF PowerData
<1>3. r = IF q.sleepPending = {} THEN SetSoporificResponded(q, h) ELSE q
  BY <1>1 DEF SleepPrepareResponse
<1>4. p.shutdownPending = {}
  BY DEF PendingInStep
<1>5. CASE q.sleepPending = {}
  <2>1. r = SetSoporificResponded(q, h)
    BY <1>3, <1>5
  <2>2. ASSUME NEW d \in D
        PROVE  /\ d \in q.clients => Ready(q, d, "ready_sleep")
               /\ d \notin q.clients => Outside(q, d)
    BY <1>2, <1>5, <2>2 DEF ClientInStep, Ready, Outside
  <2>3. Settled(q, "ready_sleep", D)
    BY <1>2, <1>4, <1>5, <2>2 DEF Settled
  <2>4. /\ r \in PowerData /\ Fine(r, h, returns, D)
        /\ r.shutdownPending = {} /\ r.sleepPending = {}
    BY <1>2, <2>1, <2>3, SoporificResponded
  <2> QED  BY <1>1, <2>4
<1>6. CASE q.sleepPending # {}
  <2>1. r = q
    BY <1>3, <1>6
  <2>2. PendingInStep(q)
    BY <1>2, <1>6 DEF PendingInStep
  <2>3. ASSUME NEW d \in D
        PROVE  ClientInStep(q, d)
    <3>1. CASE d = c
      <4>1. q.inbox[c] = << >> /\ q.view[c] = "ready_sleep"
        BY <1>2, <2>3, <3>1 DEF Ready
      <4> QED
        BY <1>2, <1>4, <3>1, <4>1, EmptyFacts DEF ClientInStep, Preparing, WillBeTold, Ready
    <3>2. CASE d # c
      BY <1>2, <2>3, <3>2 DEF ClientInStep, Awaited, WillBeTold, Outside, Ready
    <3> QED  BY <3>1, <3>2
  <2>4. Fine(q, h, returns, D)
    BY <1>2, <2>2, <2>3, QuietFine DEF InStep
  <2> QED  BY <1>1, <1>2, <1>4, <2>1, <2>4
<1> QED  BY <1>5, <1>6

\* What is fine for all is fine for some.
LEMMA FineForLess ==
    ASSUME NEW r, NEW h, NEW returns, NEW D, NEW E \in SUBSET D, Fine(r, h, returns, D)
    PROVE  Fine(r, h, returns, E)
  BY DEF Fine, InStep, Settled

\* The data of a client goes with it, wherever the handshake stands.
LEMMA RemoveFine ==
    ASSUME NEW p \in PowerData, NEW h, NEW returns, NEW c \in Clients,
           Fine(p, h, returns, Clients \ {c}),
           c \notin p.shutdownPending, c \notin p.sleepPending
    PROVE  Fine([p EXCEPT !.clients = @ \ {c}, !.allow = @ \ {c},
                          !.shutdownPending = @ \ {c}, !.sleepPending = @ \ {c},
                          !.inbox[c] = << >>, !.view[c] = "working"],
                h, returns, Clients)
<1>1. PICK r : r = [p EXCEPT !.clients = @ \ {c}, !.allow = @ \ {c},
                          !.shutdownPending = @ \ {c}, !.sleepPending = @ \ {c},
                          !.inbox[c] = << >>, !.view[c] = "working"]
  OBVIOUS
<1>2. /\ r.clients = p.clients \ {c} /\ r.state = p.state /\ r.call = p.call
      /\ r.shutdownPending = p.shutdownPending /\ r.sleepPending = p.sleepPending
      /\ r.user = p.user
  BY <1>1 DEF PowerData
<1>3. /\ r.inbox[c] = << >> /\ r.view[c] = "working"
      /\ \A d \in Clients \ {c} : r.inbox[d] = p.inbox[d] /\ r.view[d] = p.view[d]
  BY <1>1 DEF PowerData
<1>4. ClientInStep(r, c)
  BY <1>2, <1>3, EmptyFacts DEF ClientInStep, Preparing, WillBeTold, Outside
<1>5. ASSUME NEW d \in Clients \ {c}, ClientInStep(p, d)
      PROVE  ClientInStep(r, d)
  <2>1. r.inbox[d] = p.inbox[d] /\ r.view[d] = p.view[d] /\ d # c
        /\ (d \in r.clients <=> d \in p.clients)
    BY <1>2, <1>3, <1>5
  <2> QED
    BY <1>2, <1>5, <2>1 DEF ClientInStep, Awaited, WillBeTold, Outside, Ready
<1>6. InStep(p, Clients \ {c}) => InStep(r, Clients)
  <2> SUFFICES ASSUME InStep(p, Clients \ {c}) PROVE InStep(r, Clients)
    OBVIOUS
  <2>1. PendingInStep(r)
    BY <1>2 DEF InStep, PendingInStep
  <2>2. \A d \in Clients : ClientInStep(r, d)
    BY <1>4, <1>5 DEF InStep
  <2> QED  BY <2>1, <2>2 DEF InStep
<1>7. ASSUME NEW v, Settled(p, v, Clients \ {c})
      PROVE  Settled(r, v, Clients)
  BY <1>2, <1>3, <1>7 DEF Settled, Ready, Outside
<1>8. NeedsToPowerOff(p, h) => NeedsToPowerOff(r, h)
  BY <1>2 DEF NeedsToPowerOff
<1>9. Fine(r, h, returns, Clients)
  BY <1>2, <1>6, <1>7, <1>8 DEF Fine
<1> QED  BY <1>1, <1>9

(***************************************************************************)
(* A task is removed (appPowerClientUnregister): the manager answers for   *)
(* it, which may end the handshake, and may even begin one for sleep.      *)
(***************************************************************************)
LEMMA UnregisterFine ==
    ASSUME NEW p \in PowerData, NEW h, NEW returns \in BOOLEAN, NEW c \in Clients,
           p.call = "none", InStep(p, Clients)
    PROVE  Fine(ClientUnregister(p, h, returns, c), h, returns, Clients)
<1>1. PICK p1 : p1 = ClientAllowSleep(p, h, c)
  OBVIOUS
<1>2. PICK p2 : p2 = ShutdownPrepareResponse(p1, h, returns, c)
  OBVIOUS
<1>3. PICK p3 : p3 = SleepPrepareResponse(p2, h, c)
  OBVIOUS
<1>4. ClientUnregister(p, h, returns, c)
        = [p3 EXCEPT !.clients = @ \ {c}, !.allow = @ \ {c},
                     !.shutdownPending = @ \ {c}, !.sleepPending = @ \ {c},
                     !.inbox[c] = << >>, !.view[c] = "working"]
  BY <1>1, <1>2, <1>3 DEF ClientUnregister
<1>5. /\ p1 \in PowerData /\ Fine(p1, h, returns, Clients) /\ InStep(p1, Clients)
      /\ p1.state \in {"TERMINATING_CLIENTS_NOTIFIED",
                       "SOPORIFIC_CLIENTS_NOTIFIED"} => p1.call = "none"
  BY <1>1, AllowFine
<1>6. PICK D : D = Clients \ {c}
  OBVIOUS
<1>7. /\ D \in SUBSET Clients /\ c \notin D
      /\ PendingInStep(p1) /\ \A d \in D \ {c} : ClientInStep(p1, d)
  BY <1>5, <1>6 DEF InStep
<1>8. Fine(p1, h, returns, D)
  BY <1>5, <1>7, FineForLess
<1>9. /\ p3 \in PowerData /\ Fine(p3, h, returns, D)
      /\ c \notin p3.shutdownPending /\ c \notin p3.sleepPending
  <2>1. CASE p1.state = "TERMINATING_CLIENTS_NOTIFIED" /\ c \in p1.clients
    <3>1. /\ p2 \in PowerData /\ Fine(p2, h, returns, D)
          /\ c \notin p2.shutdownPending /\ c \notin p2.sleepPending
          /\ p2.state # "SOPORIFIC_CLIENTS_NOTIFIED"
      BY <1>2, <1>5, <1>7, <2>1, ShutdownAnswerFine
    <3>2. p3 = p2
      BY <1>3, <3>1 DEF SleepPrepareResponse
    <3> QED  BY <3>1, <3>2
  <2>2. CASE p1.state # "TERMINATING_CLIENTS_NOTIFIED" \/ c \notin p1.clients
    <3>1. p2 = p1
      BY <1>2, <2>2 DEF ShutdownPrepareResponse
    <3>2. CASE p1.state = "SOPORIFIC_CLIENTS_NOTIFIED" /\ c \in p1.clients
      BY <1>3, <1>5, <1>7, <3>1, <3>2, SleepAnswerFine
    <3>3. CASE p1.state # "SOPORIFIC_CLIENTS_NOTIFIED" \/ c \notin p1.clients
      <4>1. p3 = p1
        BY <1>3, <3>1, <3>3 DEF SleepPrepareResponse
      <4>2. c \notin p1.shutdownPending /\ c \notin p1.sleepPending
        BY <1>7, <2>2, <3>3 DEF PendingInStep
      <4> QED  BY <1>5, <1>8, <4>1, <4>2
    <3> QED  BY <3>2, <3>3
  <2> QED  BY <2>1, <2>2
<1>10. Fine(p3, h, returns, Clients \ {c})
  BY <1>6, <1>9
<1>11. Fine([p3 EXCEPT !.clients = @ \ {c}, !.allow = @ \ {c},
                      !.shutdownPending = @ \ {c}, !.sleepPending = @ \ {c},
                      !.inbox[c] = << >>, !.view[c] = "working"],
            h, returns, Clients)
  BY <1>9, <1>10, RemoveFine
<1> QED  BY <1>4, <1>11

(***************************************************************************)
(* A client reads its next message, which is a cancellation or the request *)
(* that the manager waits for.                                             *)
(***************************************************************************)
LEMMA ReceiveInStep ==
    ASSUME NEW p \in PowerData, NEW c \in Clients, NEW r, InStep(p, Clients),
           p.inbox[c] # << >>,
           r = [p EXCEPT !.inbox[c] = Tail(@),
                         !.view[c] = CASE Head(p.inbox[c]) = "SHUTDOWN_PREPARE"
                                              -> "preparing_shutdown"
                                       [] Head(p.inbox[c]) = "SLEEP_PREPARE"
                                              -> "preparing_sleep"
                                       [] OTHER -> "working"]
    PROVE  InStep(r, Clients)
<1>1. PICK b : b = p.inbox[c]
  OBVIOUS
<1>2. PICK v : v = CASE Head(b) = "SHUTDOWN_PREPARE" -> "preparing_shutdown"
                     [] Head(b) = "SLEEP_PREPARE" -> "preparing_sleep"
                     [] OTHER -> "working"
  OBVIOUS
<1>3. /\ r.clients = p.clients /\ r.state = p.state
      /\ r.shutdownPending = p.shutdownPending /\ r.sleepPending = p.sleepPending
  BY DEF PowerData
<1>4. /\ r.inbox[c] = Tail(b) /\ r.view[c] = v
      /\ \A d \in Clients \ {c} : r.inbox[d] = p.inbox[d] /\ r.view[d] = p.view[d]
  BY <1>1, <1>2 DEF PowerData
<1>5. b \in Seq(Indications) /\ b # << >>
  BY <1>1 DEF PowerData
<1>6. PendingInStep(p) /\ \A d \in Clients : ClientInStep(p, d)
  BY DEF InStep
<1>7. PendingInStep(r)
  BY <1>3, <1>6 DEF PendingInStep
<1>8. ASSUME NEW d \in Clients, d # c
      PROVE  ClientInStep(r, d)
  BY <1>3, <1>4, <1>6, <1>8 DEF ClientInStep, Awaited, WillBeTold, Outside, Ready
<1>9. c \in p.clients
  BY <1>1, <1>5, <1>6 DEF ClientInStep, Outside
<1>10. ClientInStep(r, c)
  <2>1. CASE c \in p.shutdownPending
    <3>1. p.state = "TERMINATING_CLIENTS_NOTIFIED" /\ c \notin p.sleepPending
      BY <1>6, <2>1 DEF PendingInStep
    <3>2. Asked(b, "SHUTDOWN_PREPARE")
      BY <1>1, <1>5, <1>6, <2>1 DEF ClientInStep, Awaited
    <3>3. \/ Head(b) = "SHUTDOWN_PREPARE" /\ Tail(b) = << >>
          \/ Head(b) \in Cancels /\ Asked(Tail(b), "SHUTDOWN_PREPARE")
      BY <1>5, <3>2, TailAsked
    <3>4. Awaited(r, c, "SHUTDOWN_PREPARE", "preparing_shutdown")
      BY <1>2, <1>4, <3>3 DEF Awaited, Cancels, Preparing
    <3>5. v \in {"preparing_shutdown", "working"}
      BY <1>2, <3>3 DEF Cancels
    <3> QED
      BY <1>3, <1>4, <1>9, <2>1, <3>1, <3>4, <3>5 DEF ClientInStep, WillBeTold
  <2>2. CASE c \in p.sleepPending
    <3>1. p.state = "SOPORIFIC_CLIENTS_NOTIFIED" /\ c \notin p.shutdownPending
      BY <1>6, <2>2 DEF PendingInStep
    <3>2. Asked(b, "SLEEP_PREPARE")
      BY <1>1, <1>5, <1>6, <2>2 DEF ClientInStep, Awaited
    <3>3. \/ Head(b) = "SLEEP_PREPARE" /\ Tail(b) = << >>
          \/ Head(b) \in Cancels /\ Asked(Tail(b), "SLEEP_PREPARE")
      BY <1>5, <3>2, TailAsked
    <3>4. Awaited(r, c, "SLEEP_PREPARE", "preparing_sleep")
      BY <1>2, <1>4, <3>3 DEF Awaited, Cancels, Preparing
    <3>5. v \in {"preparing_sleep", "working"}
      BY <1>2, <3>3 DEF Cancels
    <3> QED
      BY <1>3, <1>4, <1>9, <2>2, <3>1, <3>4, <3>5 DEF ClientInStep, WillBeTold
  <2>3. CASE c \notin p.shutdownPending \cup p.sleepPending
    <3>1. /\ Quiet(b)
          /\ p.state # "TERMINATING_CLIENTS_NOTIFIED"
          /\ p.state # "SOPORIFIC_CLIENTS_NOTIFIED"
      BY <1>1, <1>5, <1>6, <1>9, <2>3 DEF ClientInStep, Ready
    <3>2. Head(b) \in Cancels /\ Quiet(Tail(b))
      BY <1>5, <3>1, TailQuiet
    <3>3. v = "working"
      BY <1>2, <3>2 DEF Cancels
    <3> QED
      BY <1>3, <1>4, <1>9, <2>3, <3>1, <3>2, <3>3 DEF ClientInStep, WillBeTold, Preparing
  <2> QED  BY <2>1, <2>2, <2>3
<1> QED  BY <1>7, <1>8, <1>10 DEF InStep

-----------------------------------------------------------------------------
(* The steps *)

\* The data without the call of the step before.
LEMMA FreshInStep ==
    ASSUME TypeOK, Running, HandshakeInv
    PROVE  /\ Fresh \in PowerData /\ Fresh.call = "none" /\ InStep(Fresh, Clients)
           /\ SameClients(Fresh, pm) /\ Fresh.inbox = pm.inbox /\ Fresh.state = pm.state
<1>1. PICK f : f = Fresh
  OBVIOUS
<1>2. /\ f \in PowerData /\ f.call = "none"
      /\ SameClients(f, pm) /\ f.inbox = pm.inbox /\ f.state = pm.state
  BY <1>1 DEF Fresh, TypeOK, PowerData, Calls, SameClients
<1>3. InStep(f, Clients)
  BY <1>2, SameInStep DEF HandshakeInv
<1> QED  BY <1>1, <1>2, <1>3

(***************************************************************************)
(* The chip goes on, stops or sleeps with what an operation has left.      *)
(***************************************************************************)
LEMMA CommitFine ==
    ASSUME NEW r, NEW h \in Hardware, NEW returns \in BOOLEAN, h.chip = "on",
           Fine(r, h, returns, Clients), r.clients \subseteq Clients,
           Commit(r, h, returns)
    PROVE  HandshakeInv'
<1>1. PICK k : k = hw'
  OBVIOUS
<1>2. /\ pm' = r
      /\ k.charging = h.charging /\ k.connected = h.connected
      /\ k.extreme = h.extreme /\ k.unsafe = h.unsafe
      /\ k.chip = IF returns THEN "on" ELSE IF r.call = "Sleep" THEN "asleep" ELSE "off"
  BY <1>1 DEF Commit, Hardware
<1>3. Running' => InStep(pm', Clients)
  <2>1. Running' => returns
    BY <1>1, <1>2 DEF Running
  <2> QED  BY <1>2, <2>1 DEF Fine
<1>4. ASSUME k.chip = "off", r.call = "EmergencyShutdown"
      PROVE  /\ NeedsToPowerOff(r, k)
             /\ \A c \in r.clients : r.view[c] = "ready_shutdown" /\ r.inbox[c] = << >>
  <2>1. ~returns
    BY <1>2, <1>4
  <2>2. Settled(r, "ready_shutdown", Clients) /\ NeedsToPowerOff(r, h)
    BY <1>4, <2>1 DEF Fine
  <2>3. NeedsToPowerOff(r, k)
    BY <1>2, <2>2 DEF NeedsToPowerOff, CanPowerOff
  <2> QED  BY <2>2, <2>3 DEF Settled, Ready
<1>5. ASSUME k.chip = "asleep"
      PROVE  /\ ~k.charging
             /\ \A c \in r.clients : r.view[c] = "ready_sleep" /\ r.inbox[c] = << >>
  <2>1. r.call = "Sleep"
    BY <1>2, <1>5
  <2>2. Settled(r, "ready_sleep", Clients) /\ ~h.charging
    BY <2>1 DEF Fine
  <2> QED  BY <1>2, <2>2 DEF Settled, Ready
<1>6. PowerOffIsAgreed'
  BY <1>1, <1>2, <1>4, <1>5 DEF PowerOffIsAgreed
<1> QED  BY <1>3, <1>6 DEF HandshakeInv

\* The steps of the power manager.
LEMMA OwnStepsInStep ==
    ASSUME TypeOK, TypeOK', HandshakeInv,
           appPowerHandleMessage \/ appPowerInitComplete \/ appPowerOffRequest
    PROVE  HandshakeInv'
<1>1. Running /\ hw \in Hardware /\ hw.chip = "on" /\ pm'.clients \subseteq Clients
  BY DEF appPowerHandleMessage, appPowerInitComplete, appPowerOffRequest, TypeOK,
         Running, PowerData
<1>2. PICK f : f = Fresh
  OBVIOUS
<1>3. f \in PowerData /\ f.call = "none" /\ InStep(f, Clients)
  BY <1>1, <1>2, FreshInStep
<1>4. CASE appPowerHandleMessage
  <2>1. PICK h : h = [hw EXCEPT !.events = @ - 1]
    OBVIOUS
  <2>2. PICK returns \in BOOLEAN : Commit(HandlePowerEvent(f, h, returns), h, returns)
    BY <1>2, <1>4, <2>1 DEF appPowerHandleMessage
  <2>3. hw.events - 1 \in 0 .. MaxEvents
    BY <1>1, <1>4, MaxEventsAssumption DEF appPowerHandleMessage, Hardware
  <2>4. h \in Hardware /\ h.chip = "on"
    BY <1>1, <2>1, <2>3 DEF Hardware
  <2>5. PICK r : r = HandlePowerEvent(f, h, returns)
    OBVIOUS
  <2>6. Fine(r, h, returns, Clients)
    BY <1>3, <2>5, HandleFine
  <2>7. Commit(r, h, returns) /\ pm' = r
    BY <2>2, <2>5 DEF Commit
  <2> QED  BY <1>1, <2>4, <2>6, <2>7, CommitFine
<1>5. CASE appPowerInitComplete
  <2>1. PICK returns \in BOOLEAN : Commit(InitComplete(f, hw, returns), hw, returns)
    BY <1>2, <1>5 DEF appPowerInitComplete
  <2>2. PICK g : g = [f EXCEPT !.initComplete = TRUE]
    OBVIOUS
  <2>3. /\ g \in PowerData /\ g.call = "none" /\ SameClients(g, f)
        /\ g.inbox = f.inbox /\ g.state = f.state
    BY <1>3, <2>2 DEF PowerData, SameClients
  <2>4. InStep(g, Clients)
    BY <1>3, <2>3, SameInStep
  <2>5. PICK r : r = HandlePowerEvent(g, hw, returns)
    OBVIOUS
  <2>6. Fine(r, hw, returns, Clients)
    BY <2>3, <2>4, <2>5, HandleFine
  <2>7. Commit(r, hw, returns) /\ pm' = r
    BY <2>1, <2>2, <2>5 DEF Commit, InitComplete
  <2> QED  BY <1>1, <2>6, <2>7, CommitFine
<1>6. CASE appPowerOffRequest
  <2>1. PICK returns \in BOOLEAN : Commit(PowerOffRequest(f, hw, returns), hw, returns)
    BY <1>2, <1>6 DEF appPowerOffRequest
  <2>2. PICK r : r = PowerOffRequest(f, hw, returns)
    OBVIOUS
  <2>3. Fine(r, hw, returns, Clients)
    BY <1>3, <2>2, RequestFine
  <2>4. Commit(r, hw, returns) /\ pm' = r
    BY <2>1, <2>2 DEF Commit
  <2> QED  BY <1>1, <2>3, <2>4, CommitFine
<1> QED  BY <1>4, <1>5, <1>6

\* A client that gets ready was asked to, and it is waited for.
LEMMA PreparingIsAwaited ==
    ASSUME NEW p \in PowerData, NEW c \in Clients, InStep(p, Clients),
           p.view[c] \in Preparing
    PROVE  /\ c \in p.clients /\ p.inbox[c] = << >>
           /\ p.view[c] = "preparing_shutdown" => p.state = "TERMINATING_CLIENTS_NOTIFIED"
           /\ p.view[c] = "preparing_sleep" => p.state = "SOPORIFIC_CLIENTS_NOTIFIED"
<1>1. PendingInStep(p) /\ ClientInStep(p, c)
  BY DEF InStep
<1>2. CASE c \in p.shutdownPending
  <2>1. p.inbox[c] = << >> /\ p.view[c] = "preparing_shutdown"
    BY <1>1, <1>2 DEF ClientInStep, Awaited
  <2> QED  BY <1>1, <1>2, <2>1 DEF PendingInStep
<1>3. CASE c \in p.sleepPending
  <2>1. p.inbox[c] = << >> /\ p.view[c] = "preparing_sleep"
    BY <1>1, <1>3 DEF ClientInStep, Awaited
  <2> QED  BY <1>1, <1>3, <2>1 DEF PendingInStep
<1>4. c \in p.shutdownPending \cup p.sleepPending
  BY <1>1 DEF ClientInStep
<1> QED  BY <1>2, <1>3, <1>4

\* The answer is given: only what the client is doing has changed.
LEMMA AnswerFacts ==
    ASSUME NEW f \in PowerData, NEW p, NEW c \in Clients, NEW v \in Views,
           InStep(f, Clients), f.inbox[c] = << >>,
           p = [f EXCEPT !.view[c] = v]
    PROVE  /\ p \in PowerData /\ p.state = f.state /\ p.call = f.call
           /\ p.clients = f.clients /\ Ready(p, c, v)
           /\ PendingInStep(p) /\ \A d \in Clients \ {c} : ClientInStep(p, d)
<1>1. /\ p \in PowerData /\ p.state = f.state /\ p.call = f.call
      /\ p.clients = f.clients /\ p.inbox = f.inbox
      /\ p.shutdownPending = f.shutdownPending /\ p.sleepPending = f.sleepPending
  BY DEF PowerData
<1>2. /\ p.view[c] = v
      /\ \A d \in Clients \ {c} : p.view[d] = f.view[d]
  BY DEF PowerData
<1>3. PendingInStep(p)
  BY <1>1 DEF InStep, PendingInStep
<1>4. ASSUME NEW d \in Clients \ {c}
      PROVE  ClientInStep(p, d)
  BY <1>1, <1>2, <1>4 DEF InStep, ClientInStep, Awaited, WillBeTold, Outside, Ready
<1> QED  BY <1>1, <1>2, <1>3, <1>4 DEF Ready

\* The steps of the clients.
LEMMA ClientStepsInStep ==
    ASSUME TypeOK, TypeOK', HandshakeInv, NEW c \in Clients,
           \/ appPowerClientRegister(c)
           \/ appPowerClientUnregister(c)
           \/ appPowerClientAllowSleep(c)
           \/ appPowerClientProhibitSleep(c)
           \/ ClientReceives(c)
           \/ appPowerShutdownPrepareResponse(c)
           \/ appPowerSleepPrepareResponse(c)
    PROVE  HandshakeInv'
<1>1. Running /\ hw \in Hardware /\ hw.chip = "on" /\ pm'.clients \subseteq Clients
  BY DEF appPowerClientRegister, appPowerClientUnregister, appPowerClientAllowSleep,
         appPowerClientProhibitSleep, ClientReceives, appPowerShutdownPrepareResponse,
         appPowerSleepPrepareResponse, TypeOK, Running, PowerData
<1>2. PICK f : f = Fresh
  OBVIOUS
<1>3. /\ f \in PowerData /\ f.call = "none" /\ InStep(f, Clients)
      /\ f.view = pm.view /\ f.inbox = pm.inbox
  BY <1>1, <1>2, FreshInStep DEF SameClients
<1>4. CASE appPowerClientRegister(c)
  <2>1. PICK r : r = ClientRegister(f, c)
    OBVIOUS
  <2>2. Commit(r, hw, TRUE) /\ pm' = r
    BY <1>2, <1>4, <2>1 DEF appPowerClientRegister, Commit
  <2>3. InStep(r, Clients) /\ r.call = "none"
    BY <1>3, <2>1, RegisterInStep
  <2>4. Fine(r, hw, TRUE, Clients)
    BY <2>3, QuietFine
  <2> QED  BY <1>1, <2>2, <2>4, CommitFine
<1>5. CASE appPowerClientUnregister(c)
  <2>1. PICK returns \in BOOLEAN :
           Commit(ClientUnregister(f, hw, returns, c), hw, returns)
    BY <1>2, <1>5 DEF appPowerClientUnregister
  <2>2. PICK r : r = ClientUnregister(f, hw, returns, c)
    OBVIOUS
  <2>3. Fine(r, hw, returns, Clients)
    BY <1>3, <2>2, UnregisterFine
  <2>4. Commit(r, hw, returns) /\ pm' = r
    BY <2>1, <2>2 DEF Commit
  <2> QED  BY <1>1, <2>3, <2>4, CommitFine
<1>6. CASE appPowerClientAllowSleep(c)
  <2>1. PICK returns \in BOOLEAN : Commit(ClientAllowSleep(f, hw, c), hw, returns)
    BY <1>2, <1>6 DEF appPowerClientAllowSleep
  <2>2. PICK r : r = ClientAllowSleep(f, hw, c)
    OBVIOUS
  <2>3. Fine(r, hw, returns, Clients)
    BY <1>3, <2>2, AllowFine
  <2>4. Commit(r, hw, returns) /\ pm' = r
    BY <2>1, <2>2 DEF Commit
  <2> QED  BY <1>1, <2>3, <2>4, CommitFine
<1>7. CASE appPowerClientProhibitSleep(c)
  <2>1. PICK r : r = ClientProhibitSleep(f, c)
    OBVIOUS
  <2>2. Commit(r, hw, TRUE) /\ pm' = r
    BY <1>2, <1>7, <2>1 DEF appPowerClientProhibitSleep, Commit
  <2>3. InStep(r, Clients) /\ r.call = "none"
    BY <1>3, <2>1, ProhibitInStep
  <2>4. Fine(r, hw, TRUE, Clients)
    BY <2>3, QuietFine
  <2> QED  BY <1>1, <2>2, <2>4, CommitFine
<1>8. CASE ClientReceives(c)
  <2>1. /\ f.inbox[c] # << >> /\ hw' = hw
        /\ pm' = [f EXCEPT
              !.inbox[c] = Tail(@),
              !.view[c] = CASE Head(f.inbox[c]) = "SHUTDOWN_PREPARE" -> "preparing_shutdown"
                            [] Head(f.inbox[c]) = "SLEEP_PREPARE" -> "preparing_sleep"
                            [] OTHER -> "working"]
    BY <1>2, <1>3, <1>8 DEF ClientReceives
  <2>2. InStep(pm', Clients)
    BY <1>3, <2>1, ReceiveInStep
  <2>3. PowerOffIsAgreed'
    BY <1>1, <2>1 DEF PowerOffIsAgreed
  <2> QED  BY <2>2, <2>3 DEF HandshakeInv
<1>9. CASE appPowerShutdownPrepareResponse(c)
  <2>1. PICK p : p = [f EXCEPT !.view[c] = "ready_shutdown"]
    OBVIOUS
  <2>2. PICK returns \in BOOLEAN :
           Commit(ShutdownPrepareResponse(p, hw, returns, c), hw, returns)
    BY <1>2, <1>9, <2>1 DEF appPowerShutdownPrepareResponse
  <2>3. f.view[c] = "preparing_shutdown" /\ f.view[c] \in Preparing
    BY <1>3, <1>9 DEF appPowerShutdownPrepareResponse, Preparing
  <2>4. /\ c \in f.clients /\ f.inbox[c] = << >>
        /\ f.state = "TERMINATING_CLIENTS_NOTIFIED"
    BY <1>3, <2>3, PreparingIsAwaited
  <2>5. "ready_shutdown" \in Views
    BY DEF Views
  <2>6. /\ p \in PowerData /\ p.state = f.state /\ p.call = f.call
        /\ p.clients = f.clients /\ Ready(p, c, "ready_shutdown")
        /\ PendingInStep(p) /\ \A d \in Clients \ {c} : ClientInStep(p, d)
    BY <1>3, <2>1, <2>4, <2>5, AnswerFacts
  <2>7. PICK r : r = ShutdownPrepareResponse(p, hw, returns, c)
    OBVIOUS
  <2>8. Clients \in SUBSET Clients /\ p.call = "none" /\ c \in p.clients
        /\ p.state = "TERMINATING_CLIENTS_NOTIFIED"
    BY <1>3, <2>4, <2>6
  <2>9. Fine(r, hw, returns, Clients)
    BY <2>6, <2>7, <2>8, ShutdownAnswerFine
  <2>10. Commit(r, hw, returns) /\ pm' = r
    BY <2>2, <2>7 DEF Commit
  <2> QED  BY <1>1, <2>9, <2>10, CommitFine
<1>10. CASE appPowerSleepPrepareResponse(c)
  <2>1. PICK p : p = [f EXCEPT !.view[c] = "ready_sleep"]
    OBVIOUS
  <2>2. PICK returns \in BOOLEAN : Commit(SleepPrepareResponse(p, hw, c), hw, returns)
    BY <1>2, <1>10, <2>1 DEF appPowerSleepPrepareResponse
  <2>3. f.view[c] = "preparing_sleep" /\ f.view[c] \in Preparing
    BY <1>3, <1>10 DEF appPowerSleepPrepareResponse, Preparing
  <2>4. /\ c \in f.clients /\ f.inbox[c] = << >>
        /\ f.state = "SOPORIFIC_CLIENTS_NOTIFIED"
    BY <1>3, <2>3, PreparingIsAwaited
  <2>5. "ready_sleep" \in Views
    BY DEF Views
  <2>6. /\ p \in PowerData /\ p.state = f.state /\ p.call = f.call
        /\ p.clients = f.clients /\ Ready(p, c, "ready_sleep")
        /\ PendingInStep(p) /\ \A d \in Clients \ {c} : ClientInStep(p, d)
    BY <1>3, <2>1, <2>4, <2>5, AnswerFacts
  <2>7. PICK r : r = SleepPrepareResponse(p, hw, c)
    OBVIOUS
  <2>8. Clients \in SUBSET Clients /\ p.call = "none" /\ c \in p.clients
        /\ p.state = "SOPORIFIC_CLIENTS_NOTIFIED"
    BY <1>3, <2>4, <2>6
  <2>9. Fine(r, hw, returns, Clients)
    BY <2>6, <2>7, <2>8, SleepAnswerFine
  <2>10. Commit(r, hw, returns) /\ pm' = r
    BY <2>2, <2>7 DEF Commit
  <2> QED  BY <1>1, <2>9, <2>10, CommitFine
<1> QED  BY <1>4, <1>5, <1>6, <1>7, <1>8, <1>9, <1>10

\* After a start there are no clients.
LEMMA InitialInStep == InStep(InitialPower, Clients)
<1>1. PICK p : p = InitialPower
  OBVIOUS
<1>2. /\ p.state = "INIT" /\ p.clients = {}
      /\ p.shutdownPending = {} /\ p.sleepPending = {}
      /\ \A c \in Clients : p.inbox[c] = << >> /\ p.view[c] = "working"
  BY <1>1 DEF InitialPower
<1>3. PendingInStep(p)
  BY <1>2 DEF PendingInStep
<1>4. ASSUME NEW c \in Clients
      PROVE  ClientInStep(p, c)
  BY <1>2, <1>4, EmptyFacts DEF ClientInStep, Outside, Preparing, WillBeTold
<1> QED  BY <1>1, <1>3, <1>4 DEF InStep

\* The steps of the environment leave the power manager alone, and a start
\* makes it new.
LEMMA EnvironmentInStep ==
    ASSUME TypeOK, HandshakeInv, Environment
    PROVE  HandshakeInv'
<1>1. CASE Boot
  <2>1. PICK h \in StartHardware : hw' = h /\ pm' = InitialPower
    BY <1>1 DEF Boot
  <2>2. h.chip = "on"
    BY DEF StartHardware
  <2>3. InStep(pm', Clients)
    BY <2>1, InitialInStep
  <2>4. PowerOffIsAgreed'
    BY <2>1, <2>2 DEF PowerOffIsAgreed
  <2> QED  BY <2>3, <2>4 DEF HandshakeInv
<1>2. CASE ~Boot
  <2>0. hw \in Hardware
    BY DEF TypeOK
  <2>1. pm' = pm /\ Running /\ hw'.chip = "on"
    <3>1. ASSUME NEW u, NEW b, PinChanges(u, b)
          PROVE  pm' = pm /\ Running /\ hw'.chip = "on"
      BY <2>0, <3>1 DEF PinChanges, Running, Hardware
    <3>2. ASSUME NEW g, g.chip = hw.chip, g \in Hardware, Notify(g)
          PROVE  pm' = pm /\ Running /\ hw'.chip = "on"
      BY <2>0, <3>2 DEF Notify, Running, Hardware
    <3>3. CASE ChargerPlugged \/ ChargerUnplugged
      BY <3>1, <3>3 DEF ChargerPlugged, ChargerUnplugged
    <3>4. CASE ChargerDetected \/ ChargingStarts
      BY <2>0, <3>4 DEF ChargerDetected, ChargingStarts, Running, Hardware
    <3>5. CASE ChargingCompleted
      <4>1. PICK g : g = [hw EXCEPT !.charging = FALSE]
        OBVIOUS
      <4>2. g.chip = hw.chip /\ g \in Hardware
        BY <2>0, <4>1 DEF Hardware
      <4> QED  BY <3>2, <3>5, <4>1, <4>2 DEF ChargingCompleted
    <3>6. CASE BatteryRegionChanges
      <4>1. PICK g : g = [hw EXCEPT !.unsafe = ~@]
        OBVIOUS
      <4>2. g.chip = hw.chip /\ g \in Hardware
        BY <2>0, <4>1 DEF Hardware
      <4> QED  BY <3>2, <3>6, <4>1, <4>2 DEF BatteryRegionChanges
    <3>7. CASE TemperatureChanges
      <4>1. PICK g : g = [hw EXCEPT !.extreme = ~@]
        OBVIOUS
      <4>2. g.chip = hw.chip /\ g \in Hardware
        BY <2>0, <4>1 DEF Hardware
      <4> QED  BY <3>2, <3>7, <4>1, <4>2 DEF TemperatureChanges
    <3>8. CASE ChargerMonitorHandlesChange
      <4>1. PICK g : g = [hw EXCEPT !.changed = Tail(@), !.connected = Head(hw.changed),
                                    !.charging = @ /\ Head(hw.changed)]
        OBVIOUS
      <4>2. g.chip = hw.chip
        BY <2>0, <4>1 DEF Hardware
      <4>3. Running /\ (\/ hw' = g /\ pm' = pm
                        \/ hw' = [g EXCEPT !.events = hw.events + 1] /\ pm' = pm)
        BY <3>8, <4>1 DEF ChargerMonitorHandlesChange, Notify
      <4>4. [g EXCEPT !.events = hw.events + 1].chip = g.chip
        BY <2>0, <4>1 DEF Hardware
      <4> QED  BY <4>2, <4>3, <4>4 DEF Running
    <3> QED  BY <1>2, <3>3, <3>4, <3>5, <3>6, <3>7, <3>8 DEF Environment
  <2>2. InStep(pm', Clients)
    BY <2>1 DEF HandshakeInv
  <2>3. PowerOffIsAgreed'
    BY <2>1 DEF PowerOffIsAgreed
  <2> QED  BY <2>2, <2>3 DEF HandshakeInv
<1> QED  BY <1>1, <1>2

-----------------------------------------------------------------------------
(***************************************************************************)
(* The invariant of the handshakes, for every set of clients: nobody is    *)
(* waited for in vain, and power is taken away only with every client      *)
(* prepared.                                                               *)
(***************************************************************************)
THEOREM HandshakeInvariant == Spec => []HandshakeInv
<1>1. Init => HandshakeInv
  <2> SUFFICES ASSUME Init PROVE HandshakeInv
    OBVIOUS
  <2>1. pm = InitialPower /\ hw.chip = "on"
    BY DEF Init, StartHardware
  <2> QED  BY <2>1, InitialInStep DEF HandshakeInv, PowerOffIsAgreed
<1>2. TypeOK /\ TypeOK' /\ HandshakeInv /\ [Next]_vars => HandshakeInv'
  <2> SUFFICES ASSUME TypeOK, TypeOK', HandshakeInv, [Next]_vars PROVE HandshakeInv'
    OBVIOUS
  <2>1. CASE appPowerHandleMessage \/ appPowerInitComplete \/ appPowerOffRequest
    BY <2>1, OwnStepsInStep
  <2>2. ASSUME NEW c \in Clients,
               \/ appPowerClientRegister(c)
               \/ appPowerClientUnregister(c)
               \/ appPowerClientAllowSleep(c)
               \/ appPowerClientProhibitSleep(c)
               \/ ClientReceives(c)
               \/ appPowerShutdownPrepareResponse(c)
               \/ appPowerSleepPrepareResponse(c)
        PROVE  HandshakeInv'
    BY <2>2, ClientStepsInStep
  <2>3. CASE Environment
    BY <2>3, EnvironmentInStep
  <2>4. CASE UNCHANGED vars
    <3>1. pm' = pm /\ hw' = hw
      BY <2>4 DEF vars
    <3> QED  BY <3>1 DEF HandshakeInv, PowerOffIsAgreed, Running, NeedsToPowerOff, CanPowerOff
  <2> QED  BY <2>1, <2>2, <2>3, <2>4 DEF Next
<1> QED  BY <1>1, <1>2, PowerTypeOK, PTL DEF Spec

-----------------------------------------------------------------------------
(* What the invariant says about unread messages *)

\* The places of a message in an inbox.
Places(b, m) == {i \in 1 .. Len(b) : b[i] = m}

\* With nothing to answer there is no request in the inbox.
LEMMA QuietCount ==
    ASSUME NEW b \in Seq(Indications), NEW m \in Prepares, Quiet(b)
    PROVE  Cardinality(Places(b, m)) = 0
<1>1. Places(b, m) = {}
  BY DEF Places, Quiet, Prepares, Cancels
<1> QED  BY <1>1, FS_EmptySet

\* A client that is asked has one request in its inbox, and none of the other
\* kind.
LEMMA AskedCount ==
    ASSUME NEW b \in Seq(Indications), NEW m \in Prepares, Asked(b, m)
    PROVE  /\ Cardinality(Places(b, m)) = 1
           /\ \A k \in Prepares \ {m} : Cardinality(Places(b, k)) = 0
<1>1. Len(b) \in Nat /\ Len(b) # 0
  BY DEF Asked
<1>2. Places(b, m) = {Len(b)}
  <2>1. ASSUME NEW i \in 1 .. Len(b), b[i] = m
        PROVE  i = Len(b)
    <3>1. CASE i \in 1 .. Len(b) - 1
      BY <2>1, <3>1 DEF Asked, Prepares, Cancels
    <3> QED  BY <1>1, <3>1
  <2>2. Len(b) \in 1 .. Len(b) /\ b[Len(b)] = m
    BY <1>1 DEF Asked
  <2> QED  BY <2>1, <2>2 DEF Places
<1>3. ASSUME NEW k \in Prepares \ {m}
      PROVE  Places(b, k) = {}
  <2>1. ASSUME NEW i \in 1 .. Len(b), b[i] = k
        PROVE  FALSE
    <3>1. CASE i \in 1 .. Len(b) - 1
      BY <1>3, <2>1, <3>1 DEF Asked, Prepares, Cancels
    <3>2. CASE i = Len(b)
      BY <1>3, <2>1, <3>2 DEF Asked
    <3> QED  BY <1>1, <3>1, <3>2
  <2> QED  BY <2>1 DEF Places
<1> QED  BY <1>2, <1>3, FS_Singleton, FS_EmptySet

\* A message that is in the inbox is counted.
LEMMA HasCount ==
    ASSUME NEW b \in Seq(Indications), NEW m, Has(b, m)
    PROVE  Cardinality(Places(b, m)) > 0
<1>1. Len(b) \in Nat /\ 1 \in Int /\ Len(b) \in Int
  OBVIOUS
<1>2. IsFiniteSet(1 .. Len(b))
  BY <1>1, FS_Interval
<1>3. IsFiniteSet(Places(b, m))
  BY <1>2, FS_Subset DEF Places
<1>4. Places(b, m) # {}
  BY DEF Places, Has
<1>5. Cardinality(Places(b, m)) \in Nat /\ Cardinality(Places(b, m)) # 0
  BY <1>3, <1>4, FS_EmptySet, FS_CardinalityType
<1> QED  BY <1>5

(***************************************************************************)
(* Whoever registers, unregisters or answers in the middle of a handshake, *)
(* a response is pending from exactly the clients that have one request to *)
(* read or to answer: the flags of appPowerClientRegister,                 *)
(* appPowerClientUnregister and the two response functions never run apart *)
(* from what the clients were told.                                        *)
(***************************************************************************)
THEOREM PowerHandshakeWaits == Spec => []HandshakeWaitsForClients
<1>1. TypeOK /\ HandshakeInv => HandshakeWaitsForClients
  <2> SUFFICES ASSUME TypeOK, HandshakeInv, Running PROVE HandshakeWaitsForClients
    BY DEF HandshakeWaitsForClients
  <2>1. PendingInStep(pm) /\ \A c \in Clients : ClientInStep(pm, c)
    BY DEF HandshakeInv, InStep
  <2>2. /\ (pm.shutdownPending # {}) <=> (pm.state = "TERMINATING_CLIENTS_NOTIFIED")
        /\ (pm.sleepPending # {}) <=> (pm.state = "SOPORIFIC_CLIENTS_NOTIFIED")
    BY <2>1 DEF PendingInStep
  <2>3. ASSUME NEW c \in Clients
        PROVE  /\ Unread(c, "SHUTDOWN_PREPARE")
                     + (IF pm.view[c] = "preparing_shutdown" THEN 1 ELSE 0)
                  = (IF c \in pm.shutdownPending THEN 1 ELSE 0)
               /\ Unread(c, "SLEEP_PREPARE")
                     + (IF pm.view[c] = "preparing_sleep" THEN 1 ELSE 0)
                  = (IF c \in pm.sleepPending THEN 1 ELSE 0)
    <3>1. PICK b : b = pm.inbox[c]
      OBVIOUS
    <3>2. b \in Seq(Indications)
      BY <3>1 DEF TypeOK, PowerData
    <3>3. PICK x, y : x = Unread(c, "SHUTDOWN_PREPARE") /\ y = Unread(c, "SLEEP_PREPARE")
      OBVIOUS
    <3>4. /\ x = Cardinality(Places(b, "SHUTDOWN_PREPARE"))
          /\ y = Cardinality(Places(b, "SLEEP_PREPARE"))
      BY <3>1, <3>3 DEF Unread, Places
    <3>5. ~(c \in pm.shutdownPending /\ c \in pm.sleepPending)
      BY <2>2
    <3>6. "SHUTDOWN_PREPARE" \in Prepares /\ "SLEEP_PREPARE" \in Prepares
      BY DEF Prepares
    <3>7. ASSUME Quiet(b)
          PROVE  x = 0 /\ y = 0
      BY <3>2, <3>4, <3>6, <3>7, QuietCount
    <3>8. ASSUME Asked(b, "SHUTDOWN_PREPARE")
          PROVE  x = 1 /\ y = 0
      BY <3>2, <3>4, <3>6, <3>8, AskedCount
    <3>9. ASSUME Asked(b, "SLEEP_PREPARE")
          PROVE  x = 0 /\ y = 1
      BY <3>2, <3>4, <3>6, <3>9, AskedCount
    <3>10. b = << >> => Quiet(b)
      BY EmptyFacts
    <3>11. CASE c \in pm.shutdownPending
      <4>1. \/ Asked(b, "SHUTDOWN_PREPARE") /\ pm.view[c] \notin Preparing
            \/ b = << >> /\ pm.view[c] = "preparing_shutdown"
        BY <2>1, <3>1, <3>11 DEF ClientInStep, Awaited
      <4> QED  BY <3>3, <3>5, <3>7, <3>8, <3>10, <3>11, <4>1 DEF Preparing
    <3>12. CASE c \in pm.sleepPending
      <4>1. \/ Asked(b, "SLEEP_PREPARE") /\ pm.view[c] \notin Preparing
            \/ b = << >> /\ pm.view[c] = "preparing_sleep"
        BY <2>1, <3>1, <3>12 DEF ClientInStep, Awaited
      <4> QED  BY <3>3, <3>5, <3>7, <3>9, <3>10, <3>12, <4>1 DEF Preparing
    <3>13. CASE c \notin pm.shutdownPending \cup pm.sleepPending
      <4>1. Quiet(b) /\ pm.view[c] \notin Preparing
        BY <2>1, <3>1, <3>13 DEF ClientInStep
      <4> QED  BY <3>3, <3>7, <3>13, <4>1 DEF Preparing
    <3> QED  BY <3>11, <3>12, <3>13
  <2> QED  BY <2>2, <2>3 DEF HandshakeWaitsForClients
<1> QED  BY <1>1, PowerTypeOK, HandshakeInvariant, PTL

(***************************************************************************)
(* No client stays prepared for a shutdown or a sleep that will not        *)
(* happen: the cancellation sent on leaving the RESPONDED states reaches   *)
(* every client that has answered.                                         *)
(***************************************************************************)
THEOREM PowerNoStrandedClient == Spec => []NoStrandedClient
<1>1. TypeOK /\ HandshakeInv => NoStrandedClient
  <2> SUFFICES ASSUME TypeOK, HandshakeInv, Running, NEW c \in Clients
               PROVE  /\ pm.view[c] = "ready_shutdown" =>
                            \/ pm.state = "TERMINATING_CLIENTS_NOTIFIED"
                            \/ Unread(c, "SHUTDOWN_CANCELLED") > 0
                      /\ pm.view[c] = "ready_sleep" =>
                            \/ pm.state \in {"SOPORIFIC_CLIENTS_NOTIFIED",
                                             "SOPORIFIC_CLIENTS_RESPONDED"}
                            \/ Unread(c, "SLEEP_CANCELLED") > 0
    BY DEF NoStrandedClient
  <2>1. WillBeTold(pm, c)
    BY DEF HandshakeInv, InStep, ClientInStep
  <2>2. PICK b : b = pm.inbox[c]
    OBVIOUS
  <2>3. b \in Seq(Indications)
    BY <2>2 DEF TypeOK, PowerData
  <2>4. ASSUME NEW m, Has(b, m)
        PROVE  Unread(c, m) > 0
    <3>1. Cardinality(Places(b, m)) > 0
      BY <2>3, <2>4, HasCount
    <3>2. Unread(c, m) = Cardinality(Places(b, m))
      BY <2>2 DEF Unread, Places
    <3> QED  BY <3>1, <3>2
  <2> QED  BY <2>1, <2>2, <2>4 DEF WillBeTold
<1> QED  BY <1>1, PowerTypeOK, HandshakeInvariant, PTL

(***************************************************************************)
(* The chip is switched off by a handshake only for a reason that holds at *)
(* that moment, without a charger, and put to sleep only while nothing is  *)
(* charged; in both cases every registered client has said that it is      *)
(* prepared, and has not been told anything else since.                    *)
(***************************************************************************)
THEOREM PowerOffAgreed == Spec => []PowerOffIsAgreed
<1>1. HandshakeInv => PowerOffIsAgreed
  BY DEF HandshakeInv
<1> QED  BY <1>1, HandshakeInvariant, PTL

=============================================================================
