------------------------- MODULE HeadsetPowerProofs -------------------------
(***************************************************************************)
(* Proofs about HeadsetPower for every number of outside events.           *)
(*                                                                         *)
(* The two state machines are kept together by the messages that are still *)
(* unread: headset_sm may lag behind system_state only while the change it *)
(* has not seen is in the queue, and what would overtake that change (the  *)
(* end of the prompt, a charger) is behind it.                             *)
(***************************************************************************)
EXTENDS HeadsetPower, SequenceTheorems, TLAPS

(* Messages *)

Plain(k) == [k |-> k, old |-> "", new |-> ""]
Change(old, new) == [k |-> "change", old |-> old, new |-> new]

StartedUp   == Change("starting_up", "limbo")
PoweringOn  == Change("limbo", "powering_on")
PoweredOn   == Change("powering_on", "active")
PoweringOff == Change("active", "powering_off")

ChargerKinds == {"charger_on", "charger_off", "attached", "detached"}

\* A message that none of the invariants speaks about.
Dull(m) ==
    /\ m.k \notin ChargerKinds \cup {"prompt"}
    /\ m \notin {StartedUp, PoweringOn, PoweredOn, PoweringOff}

(* Queues *)

Has(q, m) == \E i \in 1 .. Len(q) : q[i] = m

HasKind(q, k) == \E i \in 1 .. Len(q) : q[i].k = k

\* Every message of kind k is behind every m.
Behind(q, k, m) == \A i, j \in 1 .. Len(q) : q[i] = m /\ q[j].k = k => i < j

Once(q, m) == \A i, j \in 1 .. Len(q) : q[i] = m /\ q[j] = m => i = j

PromptsFirst(q) ==
    \A i, j \in 1 .. Len(q) : i < j /\ q[j].k = "prompt" => q[i].k = "prompt"

OneCharger(q) ==
    \A i, j \in 1 .. Len(q) :
        q[i].k \in ChargerKinds /\ q[j].k \in ChargerKinds => i = j

(* The invariant of a headset that is switched on *)

Context(state, transition, index, end) ==
    [state |-> state, transition |-> transition, index |-> index,
     onCompletion |-> end, limboRemoved |-> FALSE, ran |-> 0,
     posted |-> [m \in {"prompt", "stop_cfm"} |-> 0], changes |-> << >>]

\* Where system_state rests between messages: paused at the first step of
\* powering on or off, or at the end of a table.
Coherent(c) ==
    \/ c = Context("powering_on", "power_on", 0, "active")
    \/ c = Context("powering_off", "power_off", 0, "limbo")
    \/ c = Context("limbo", "startup", 0, "limbo")
    \/ \E n \in Nat : n >= 2 /\ c = Context("limbo", "power_off", n, "limbo")
    \/ \E n \in Nat : n >= 3 /\ c = Context("active", "power_on", n, "active")

\* The charger monitor's flag follows the socket by one message, and headset_sm
\* the flag by one more.
ChargerKnown(q, plugged, connected) ==
    /\ OneCharger(q)
    /\ HasKind(q, "charger_on") => plugged /\ ~connected
    /\ HasKind(q, "charger_off") => ~plugged /\ connected
    /\ HasKind(q, "attached") => plugged /\ connected
    /\ HasKind(q, "detached") => ~plugged /\ ~connected
    /\ HasKind(q, "charger_on") \/ HasKind(q, "charger_off") \/ plugged = connected

\* headset_sm has not been told yet that the headset powers on: the prompt
\* plays and a charger comes later.
OnUntold(x) ==
    Has(x.mq, PoweringOn) =>
        /\ x.ss.state = "powering_on" /\ x.playing > 0
        /\ ~HasKind(x.mq, "prompt")
        /\ Behind(x.mq, "attached", PoweringOn)

OnUnderWay(x) ==
    x.sm = "POWERING_ON" =>
        \/ Has(x.mq, PoweredOn)
        \/ x.ss.state = "powering_on" /\ (x.playing > 0 \/ HasKind(x.mq, "prompt"))

\* headset_sm has not been told yet that the headset powers off: it cannot
\* be switched on before it is.
OffUntold(x) ==
    Has(x.mq, PoweringOff) =>
        /\ x.ss.state \in {"powering_off", "limbo"}
        /\ x.sm = "LIMBO" => x.connected
        /\ Behind(x.mq, "charger_off", PoweringOff)
        /\ Once(x.mq, PoweringOff)

OffUnderWay(x) ==
    x.sm = "POWERING_OFF" =>
        x.ss.state \in {"powering_off", "limbo"} /\ ~Has(x.mq, PoweringOff)

StartUnderWay(x) ==
    /\ Has(x.mq, StartedUp) <=> x.sm = "NULL"
    /\ Once(x.mq, StartedUp)
    /\ x.sm = "NULL" =>
         x.mq[1] = StartedUp /\ x.ss.state = "limbo" /\ ~Has(x.mq, PoweringOff)

InLimbo(x) ==
    x.sm = "LIMBO" /\ ~x.alone => x.ss.state = "limbo" \/ Has(x.mq, PoweringOn)

LimboEnds(x) ==
    x.sm = "LIMBO" /\ ~x.alone /\ ~x.connected =>
        \/ x.limboTimer \/ x.pm # "ok"
        \/ HasKind(x.mq, "detached") \/ Has(x.mq, PoweringOn)

Good(x) ==
    /\ Coherent(x.ss)
    /\ ChargerKnown(x.mq, x.plugged, x.connected)
    /\ PromptsFirst(x.mq)
    /\ OnUntold(x) /\ OnUnderWay(x)
    /\ OffUntold(x) /\ OffUnderWay(x)
    /\ StartUnderWay(x)
    /\ InLimbo(x) /\ LimboEnds(x)

IInv == d \in States /\ (d.on => Good(d))

-----------------------------------------------------------------------------
(* Queues *)

\* A message that headset_sm sends itself is a message of the queue.
LEMMA PlainType ==
    ASSUME NEW k \in Messages
    PROVE  Plain(k) \in Message
BY DEF Plain, Message

\* So is the report of a change of state.
LEMMA ChangeType ==
    ASSUME NEW a \in S!States, NEW b \in S!States
    PROVE  Change(a, b) \in Message
BY DEF Change, Message, Messages

\* What an appended message adds to the queue.
LEMMA AppendHas ==
    ASSUME NEW q \in Seq(Message), NEW n \in Message, NEW m
    PROVE  Has(Append(q, n), m) <=> Has(q, m) \/ n = m
<1> PICK r : r = Append(q, n)
  OBVIOUS
<1>1. Len(r) = Len(q) + 1 /\ r[Len(q) + 1] = n /\ \A i \in 1 .. Len(q) : r[i] = q[i]
  OBVIOUS
<1>2. Len(q) \in Nat
  OBVIOUS
<1> QED
  BY <1>1, <1>2 DEF Has

\* What an appended message adds to the kinds of messages in the queue.
LEMMA AppendHasKind ==
    ASSUME NEW q \in Seq(Message), NEW n \in Message, NEW k
    PROVE  HasKind(Append(q, n), k) <=> HasKind(q, k) \/ n.k = k
<1> PICK r : r = Append(q, n)
  OBVIOUS
<1>1. Len(r) = Len(q) + 1 /\ r[Len(q) + 1] = n /\ \A i \in 1 .. Len(q) : r[i] = q[i]
  OBVIOUS
<1>2. Len(q) \in Nat
  OBVIOUS
<1> QED
  BY <1>1, <1>2 DEF HasKind

\* A message of kind k that is appended comes behind every other one; one of
\* another kind changes the order only if it is the message m itself.
LEMMA AppendBehind ==
    ASSUME NEW q \in Seq(Message), NEW n \in Message, NEW k, NEW m,
           Behind(q, k, m),
           n # m \/ ~HasKind(q, k),
           n # m \/ n.k # k
    PROVE  Behind(Append(q, n), k, m)
<1> PICK r : r = Append(q, n)
  OBVIOUS
<1>1. Len(r) = Len(q) + 1 /\ r[Len(q) + 1] = n /\ \A i \in 1 .. Len(q) : r[i] = q[i]
  OBVIOUS
<1>2. Len(q) \in Nat
  OBVIOUS
<1>3. ASSUME NEW i \in 1 .. Len(r), NEW j \in 1 .. Len(r), r[i] = m, r[j].k = k
      PROVE  i < j
  <2>1. CASE i \in 1 .. Len(q) /\ j \in 1 .. Len(q)
    BY <1>1, <1>2, <1>3, <2>1 DEF Behind
  <2>2. CASE i \in 1 .. Len(q) /\ j = Len(q) + 1
    BY <1>2, <2>2
  <2>3. CASE i = Len(q) + 1 /\ j \in 1 .. Len(q)
    BY <1>1, <1>2, <1>3, <2>3 DEF HasKind
  <2>4. CASE i = Len(q) + 1 /\ j = Len(q) + 1
    BY <1>1, <1>2, <1>3, <2>4
  <2> QED
    BY <1>1, <1>2, <2>1, <2>2, <2>3, <2>4
<1> QED
  BY <1>3 DEF Behind

\* A message that the queue does not hold is there once when it is appended.
LEMMA AppendOnce ==
    ASSUME NEW q \in Seq(Message), NEW n \in Message, NEW m,
           Once(q, m), n # m \/ ~Has(q, m)
    PROVE  Once(Append(q, n), m)
<1> PICK r : r = Append(q, n)
  OBVIOUS
<1>1. Len(r) = Len(q) + 1 /\ r[Len(q) + 1] = n /\ \A i \in 1 .. Len(q) : r[i] = q[i]
  OBVIOUS
<1>2. Len(q) \in Nat
  OBVIOUS
<1>3. ASSUME NEW i \in 1 .. Len(r), NEW j \in 1 .. Len(r), r[i] = m, r[j] = m
      PROVE  i = j
  <2>1. CASE i \in 1 .. Len(q) /\ j \in 1 .. Len(q)
    BY <1>1, <1>2, <1>3, <2>1 DEF Once
  <2>2. CASE i \in 1 .. Len(q) /\ j = Len(q) + 1
    BY <1>1, <1>2, <1>3, <2>2 DEF Has
  <2>3. CASE i = Len(q) + 1 /\ j \in 1 .. Len(q)
    BY <1>1, <1>2, <1>3, <2>3 DEF Has
  <2>4. CASE i = Len(q) + 1 /\ j = Len(q) + 1
    BY <2>4
  <2> QED
    BY <1>1, <1>2, <2>1, <2>2, <2>3, <2>4
<1> QED
  BY <1>3 DEF Once

\* A prompt's completion is never appended, so the completions stay in front.
LEMMA AppendPrompts ==
    ASSUME NEW q \in Seq(Message), NEW n \in Message,
           PromptsFirst(q), n.k # "prompt"
    PROVE  PromptsFirst(Append(q, n))
<1> PICK r : r = Append(q, n)
  OBVIOUS
<1>1. Len(r) = Len(q) + 1 /\ r[Len(q) + 1] = n /\ \A i \in 1 .. Len(q) : r[i] = q[i]
  OBVIOUS
<1>2. Len(q) \in Nat
  OBVIOUS
<1> QED
  BY <1>1, <1>2 DEF PromptsFirst

\* At most one message about the charger is unread.
LEMMA AppendCharger ==
    ASSUME NEW q \in Seq(Message), NEW n \in Message,
           OneCharger(q),
           n.k \notin ChargerKinds \/ \A k \in ChargerKinds : ~HasKind(q, k)
    PROVE  OneCharger(Append(q, n))
<1> PICK r : r = Append(q, n)
  OBVIOUS
<1>1. Len(r) = Len(q) + 1 /\ r[Len(q) + 1] = n /\ \A i \in 1 .. Len(q) : r[i] = q[i]
  OBVIOUS
<1>2. Len(q) \in Nat
  OBVIOUS
<1>3. ASSUME NEW i \in 1 .. Len(r), NEW j \in 1 .. Len(r),
             r[i].k \in ChargerKinds, r[j].k \in ChargerKinds
      PROVE  i = j
  <2>1. CASE i \in 1 .. Len(q) /\ j \in 1 .. Len(q)
    BY <1>1, <1>2, <1>3, <2>1 DEF OneCharger
  <2>2. CASE i \in 1 .. Len(q) /\ j = Len(q) + 1
    BY <1>1, <1>2, <1>3, <2>2 DEF HasKind
  <2>3. CASE i = Len(q) + 1 /\ j \in 1 .. Len(q)
    BY <1>1, <1>2, <1>3, <2>3 DEF HasKind
  <2>4. CASE i = Len(q) + 1 /\ j = Len(q) + 1
    BY <2>4
  <2> QED
    BY <1>1, <1>2, <2>1, <2>2, <2>3, <2>4
<1> QED
  BY <1>3 DEF OneCharger

\* A queue is its first message and the rest.
LEMMA RestOfQueue ==
    ASSUME NEW q \in Seq(Message), q # << >>, NEW r, r = Tail(q)
    PROVE  /\ r \in Seq(Message) /\ Head(q) \in Message /\ Head(q) = q[1]
           /\ Len(q) \in Nat /\ Len(q) >= 1 /\ Len(r) = Len(q) - 1
           /\ \A i \in 1 .. Len(r) : r[i] = q[i + 1]
           /\ \A i \in 2 .. Len(q) : q[i] = r[i - 1]
<1>1. Len(q) \in Nat /\ Len(q) >= 1
  OBVIOUS
<1>2. r \in Seq(Message) /\ Head(q) \in Message /\ Head(q) = q[1] /\ Len(r) = Len(q) - 1
  BY <1>1
<1>3. \A i \in 1 .. Len(r) : r[i] = q[i + 1]
  BY <1>1, <1>2
<1>4. \A i \in 2 .. Len(q) : q[i] = r[i - 1]
  BY <1>1, <1>2, <1>3
<1> QED
  BY <1>1, <1>2, <1>3, <1>4

\* What the queue holds once its first message has been taken.
LEMMA TailHas ==
    ASSUME NEW q \in Seq(Message), q # << >>, NEW m
    PROVE  Has(q, m) <=> Head(q) = m \/ Has(Tail(q), m)
<1> PICK r : r = Tail(q)
  OBVIOUS
<1>1. /\ Head(q) = q[1] /\ Len(q) \in Nat /\ Len(q) >= 1 /\ Len(r) = Len(q) - 1
      /\ \A i \in 1 .. Len(r) : r[i] = q[i + 1]
      /\ \A i \in 2 .. Len(q) : q[i] = r[i - 1]
  BY RestOfQueue
<1>2. ASSUME Has(q, m)
      PROVE  Head(q) = m \/ Has(r, m)
  <2> PICK i \in 1 .. Len(q) : q[i] = m
    BY <1>2 DEF Has
  <2>1. CASE i = 1
    BY <1>1, <2>1
  <2>2. CASE i # 1
    <3>1. i \in 2 .. Len(q) /\ i - 1 \in 1 .. Len(r)
      BY <1>1, <2>2
    <3>2. r[i - 1] = m
      BY <1>1, <3>1
    <3> QED
      BY <3>1, <3>2 DEF Has
  <2> QED
    BY <2>1, <2>2
<1>3. ASSUME Has(r, m)
      PROVE  Has(q, m)
  <2> PICK i \in 1 .. Len(r) : r[i] = m
    BY <1>3 DEF Has
  <2> QED
    BY <1>1, i + 1 \in 1 .. Len(q) DEF Has
<1>4. Head(q) = m => Has(q, m)
  BY <1>1, 1 \in 1 .. Len(q) DEF Has
<1> QED
  BY <1>2, <1>3, <1>4

\* The same for the kinds of messages.
LEMMA TailHasKind ==
    ASSUME NEW q \in Seq(Message), q # << >>, NEW k
    PROVE  HasKind(q, k) <=> Head(q).k = k \/ HasKind(Tail(q), k)
<1> PICK r : r = Tail(q)
  OBVIOUS
<1>1. /\ Head(q) = q[1] /\ Len(q) \in Nat /\ Len(q) >= 1 /\ Len(r) = Len(q) - 1
      /\ \A i \in 1 .. Len(r) : r[i] = q[i + 1]
      /\ \A i \in 2 .. Len(q) : q[i] = r[i - 1]
  BY RestOfQueue
<1>2. ASSUME HasKind(q, k)
      PROVE  Head(q).k = k \/ HasKind(r, k)
  <2> PICK i \in 1 .. Len(q) : q[i].k = k
    BY <1>2 DEF HasKind
  <2>1. CASE i = 1
    BY <1>1, <2>1
  <2>2. CASE i # 1
    <3>1. i \in 2 .. Len(q) /\ i - 1 \in 1 .. Len(r)
      BY <1>1, <2>2
    <3>2. r[i - 1].k = k
      BY <1>1, <3>1
    <3> QED
      BY <3>1, <3>2 DEF HasKind
  <2> QED
    BY <2>1, <2>2
<1>3. ASSUME HasKind(r, k)
      PROVE  HasKind(q, k)
  <2> PICK i \in 1 .. Len(r) : r[i].k = k
    BY <1>3 DEF HasKind
  <2> QED
    BY <1>1, i + 1 \in 1 .. Len(q) DEF HasKind
<1>4. Head(q).k = k => HasKind(q, k)
  BY <1>1, 1 \in 1 .. Len(q) DEF HasKind
<1> QED
  BY <1>2, <1>3, <1>4

\* The order of what is left does not change, and nothing that must come
\* behind a message can be the first one while that message is unread.
LEMMA TailBehind ==
    ASSUME NEW q \in Seq(Message), q # << >>, NEW k, NEW m, Behind(q, k, m)
    PROVE  Behind(Tail(q), k, m) /\ (Head(q).k = k => ~Has(q, m))
<1> PICK r : r = Tail(q)
  OBVIOUS
<1>1. /\ Head(q) = q[1] /\ Len(q) \in Nat /\ Len(q) >= 1 /\ Len(r) = Len(q) - 1
      /\ \A i \in 1 .. Len(r) : r[i] = q[i + 1]
  BY RestOfQueue
<1>2. ASSUME NEW i \in 1 .. Len(r), NEW j \in 1 .. Len(r), r[i] = m, r[j].k = k
      PROVE  i < j
  <2>1. i + 1 \in 1 .. Len(q) /\ j + 1 \in 1 .. Len(q)
    BY <1>1
  <2>2. q[i + 1] = m /\ q[j + 1].k = k
    BY <1>1, <1>2
  <2>3. i + 1 < j + 1
    BY <2>1, <2>2 DEF Behind
  <2> QED
    BY <2>3
<1>3. ASSUME Head(q).k = k, Has(q, m)
      PROVE  FALSE
  <2> PICK i \in 1 .. Len(q) : q[i] = m
    BY <1>3 DEF Has
  <2>1. i < 1
    BY <1>1, <1>3 DEF Behind
  <2> QED
    BY <2>1
<1>4. Behind(r, k, m)
  BY <1>2 DEF Behind
<1> QED
  BY <1>3, <1>4

\* A message that is there once is gone when it has been taken.
LEMMA TailOnce ==
    ASSUME NEW q \in Seq(Message), q # << >>, NEW m, Once(q, m)
    PROVE  Once(Tail(q), m) /\ (Head(q) = m => ~Has(Tail(q), m))
<1> PICK r : r = Tail(q)
  OBVIOUS
<1>1. /\ Head(q) = q[1] /\ Len(q) \in Nat /\ Len(q) >= 1 /\ Len(r) = Len(q) - 1
      /\ \A i \in 1 .. Len(r) : r[i] = q[i + 1]
  BY RestOfQueue
<1>2. ASSUME NEW i \in 1 .. Len(r), NEW j \in 1 .. Len(r), r[i] = m, r[j] = m
      PROVE  i = j
  <2>1. i + 1 \in 1 .. Len(q) /\ j + 1 \in 1 .. Len(q)
    BY <1>1
  <2>2. q[i + 1] = m /\ q[j + 1] = m
    BY <1>1, <1>2
  <2>3. i + 1 = j + 1
    BY <2>1, <2>2 DEF Once
  <2> QED
    BY <2>3
<1>3. ASSUME Head(q) = m, Has(r, m)
      PROVE  FALSE
  <2> PICK i \in 1 .. Len(r) : r[i] = m
    BY <1>3 DEF Has
  <2>1. i + 1 \in 1 .. Len(q) /\ 1 \in 1 .. Len(q) /\ q[i + 1] = m /\ q[1] = m
    BY <1>1, <1>3
  <2>2. i + 1 = 1
    BY <2>1 DEF Once
  <2> QED
    BY <2>2
<1>4. Once(r, m)
  BY <1>2 DEF Once
<1> QED
  BY <1>3, <1>4

\* When the first message is not a prompt's completion, none is left.
LEMMA TailPrompts ==
    ASSUME NEW q \in Seq(Message), q # << >>, PromptsFirst(q)
    PROVE  PromptsFirst(Tail(q)) /\ (Head(q).k # "prompt" => ~HasKind(q, "prompt"))
<1> PICK r : r = Tail(q)
  OBVIOUS
<1>1. /\ Head(q) = q[1] /\ Len(q) \in Nat /\ Len(q) >= 1 /\ Len(r) = Len(q) - 1
      /\ \A i \in 1 .. Len(r) : r[i] = q[i + 1]
  BY RestOfQueue
<1>2. ASSUME NEW i \in 1 .. Len(r), NEW j \in 1 .. Len(r), i < j, r[j].k = "prompt"
      PROVE  r[i].k = "prompt"
  <2>1. i + 1 \in 1 .. Len(q) /\ j + 1 \in 1 .. Len(q) /\ i + 1 < j + 1
    BY <1>1, <1>2
  <2>2. q[j + 1].k = "prompt" /\ r[i] = q[i + 1]
    BY <1>1, <1>2
  <2>3. q[i + 1].k = "prompt"
    BY <2>1, <2>2 DEF PromptsFirst
  <2> QED
    BY <2>2, <2>3
<1>3. ASSUME Head(q).k # "prompt", HasKind(q, "prompt")
      PROVE  FALSE
  <2> PICK i \in 1 .. Len(q) : q[i].k = "prompt"
    BY <1>3 DEF HasKind
  <2>1. i # 1 /\ 1 \in 1 .. Len(q)
    BY <1>1, <1>3
  <2>2. q[1].k = "prompt"
    BY <1>1, <2>1, 1 < i DEF PromptsFirst
  <2> QED
    BY <1>1, <1>3, <2>2
<1>4. PromptsFirst(r)
  BY <1>2 DEF PromptsFirst
<1> QED
  BY <1>3, <1>4

\* When the first message is about the charger, no other one is.
LEMMA TailCharger ==
    ASSUME NEW q \in Seq(Message), q # << >>, OneCharger(q)
    PROVE  /\ OneCharger(Tail(q))
           /\ Head(q).k \in ChargerKinds => \A k \in ChargerKinds : ~HasKind(Tail(q), k)
<1> PICK r : r = Tail(q)
  OBVIOUS
<1>1. /\ Head(q) = q[1] /\ Len(q) \in Nat /\ Len(q) >= 1 /\ Len(r) = Len(q) - 1
      /\ \A i \in 1 .. Len(r) : r[i] = q[i + 1]
  BY RestOfQueue
<1>2. ASSUME NEW i \in 1 .. Len(r), NEW j \in 1 .. Len(r),
             r[i].k \in ChargerKinds, r[j].k \in ChargerKinds
      PROVE  i = j
  <2>1. i + 1 \in 1 .. Len(q) /\ j + 1 \in 1 .. Len(q)
    BY <1>1
  <2>2. q[i + 1].k \in ChargerKinds /\ q[j + 1].k \in ChargerKinds
    BY <1>1, <1>2
  <2>3. i + 1 = j + 1
    BY <2>1, <2>2 DEF OneCharger
  <2> QED
    BY <2>3
<1>3. ASSUME Head(q).k \in ChargerKinds, NEW k \in ChargerKinds, HasKind(r, k)
      PROVE  FALSE
  <2> PICK i \in 1 .. Len(r) : r[i].k = k
    BY <1>3 DEF HasKind
  <2>1. i + 1 \in 1 .. Len(q) /\ 1 \in 1 .. Len(q)
    BY <1>1
  <2>2. q[i + 1].k \in ChargerKinds /\ q[1].k \in ChargerKinds
    BY <1>1, <1>3
  <2>3. i + 1 = 1
    BY <2>1, <2>2 DEF OneCharger
  <2> QED
    BY <2>3
<1>4. OneCharger(r)
  BY <1>2 DEF OneCharger
<1> QED
  BY <1>3, <1>4

\* The completion of a prompt goes to the head of the queue: it adds itself
\* and leaves the order of the rest.
LEMMA PromptInFront ==
    ASSUME NEW q \in Seq(Message), PromptsFirst(q), OneCharger(q),
           NEW r, r = <<Plain("prompt")>> \o q
    PROVE  /\ r \in Seq(Message) /\ PromptsFirst(r) /\ OneCharger(r)
           /\ \A m : m # Plain("prompt") => (Has(r, m) <=> Has(q, m))
           /\ \A k : k # "prompt" => (HasKind(r, k) <=> HasKind(q, k))
           /\ HasKind(r, "prompt")
<1> PICK p : p = Plain("prompt")
  OBVIOUS
<1>1. p \in Message /\ p.k = "prompt"
  BY PlainType DEF Messages, Plain
<1>2. /\ r \in Seq(Message) /\ Len(q) \in Nat /\ Len(r) = Len(q) + 1 /\ r[1] = p
      /\ \A i \in 1 .. Len(q) : r[i + 1] = q[i]
  BY <1>1
<1>3. \A i \in 1 .. Len(r) : i # 1 => i - 1 \in 1 .. Len(q) /\ r[i] = q[i - 1]
  BY <1>2
<1>4. \A i \in 1 .. Len(q) : i + 1 \in 1 .. Len(r) /\ 1 \in 1 .. Len(r)
  BY <1>2
<1>5. PromptsFirst(r)
  <2> SUFFICES ASSUME NEW i \in 1 .. Len(r), NEW j \in 1 .. Len(r), i < j, r[j].k = "prompt"
               PROVE  r[i].k = "prompt"
    BY DEF PromptsFirst
  <2>1. CASE i = 1
    BY <1>1, <1>2, <2>1
  <2>2. CASE i # 1
    <3>1. /\ i - 1 \in 1 .. Len(q) /\ j - 1 \in 1 .. Len(q) /\ i - 1 < j - 1
          /\ r[i] = q[i - 1] /\ r[j] = q[j - 1]
      BY <1>2, <1>3, <2>2
    <3> QED
      BY <3>1 DEF PromptsFirst
  <2> QED
    BY <2>1, <2>2
<1>6. OneCharger(r)
  <2> SUFFICES ASSUME NEW i \in 1 .. Len(r), NEW j \in 1 .. Len(r),
                      r[i].k \in ChargerKinds, r[j].k \in ChargerKinds
               PROVE  i = j
    BY DEF OneCharger
  <2>1. i # 1 /\ j # 1
    BY <1>1, <1>2 DEF ChargerKinds
  <2>2. /\ i - 1 \in 1 .. Len(q) /\ j - 1 \in 1 .. Len(q)
        /\ r[i] = q[i - 1] /\ r[j] = q[j - 1]
    BY <1>3, <2>1
  <2>3. i - 1 = j - 1
    BY <2>2 DEF OneCharger
  <2> QED
    BY <2>3
<1>7. ASSUME NEW m, m # p
      PROVE  Has(r, m) <=> Has(q, m)
  BY <1>2, <1>3, <1>4, <1>7 DEF Has
<1>8. ASSUME NEW k, k # "prompt"
      PROVE  HasKind(r, k) <=> HasKind(q, k)
  BY <1>1, <1>2, <1>3, <1>4, <1>8 DEF HasKind
<1>9. HasKind(r, "prompt")
  BY <1>1, <1>2, 1 \in 1 .. Len(r) DEF HasKind
<1> QED
  BY <1>2, <1>5, <1>6, <1>7, <1>8, <1>9

-----------------------------------------------------------------------------
(* system_state on the headset's tables *)

\* The tables of powering on and off pause at their first step and nowhere
\* else; those that switch the chip off do not pause at all.
LEMMA TablePauses ==
    /\ S!Count("power_on") = 3 /\ S!Count("power_off") = 2
    /\ S!Count("shutdown") = 1 /\ S!Count("emergency_shutdown") = 1
    /\ \A t \in {"power_on", "power_off"} : S!PausesFrom(t, 0) = {0}
    /\ \A t \in {"power_on", "power_off"} : \A i \in Nat : i >= 1 => S!PausesFrom(t, i) = {}
    /\ \A t \in {"shutdown", "emergency_shutdown"} : S!PausesFrom(t, 0) = {}
<1>1. /\ Table["power_on"] = <<"prompt", "none", "none">> /\ Table["power_off"] = <<"stop_cfm", "none">>
      /\ Table["shutdown"] = <<"none">> /\ Table["emergency_shutdown"] = <<"none">>
  BY DEF Table
<1>2. /\ S!Count("power_on") = 3 /\ S!Count("power_off") = 2
      /\ S!Count("shutdown") = 1 /\ S!Count("emergency_shutdown") = 1
  BY <1>1 DEF S!Count
<1>3. /\ S!AsyncId("power_on", 0) = "prompt"
      /\ S!AsyncId("power_on", 1) = "none" /\ S!AsyncId("power_on", 2) = "none"
      /\ S!AsyncId("power_off", 0) = "stop_cfm" /\ S!AsyncId("power_off", 1) = "none"
      /\ S!AsyncId("shutdown", 0) = "none" /\ S!AsyncId("emergency_shutdown", 0) = "none"
  BY <1>1 DEF S!AsyncId
<1>4. S!PausesFrom("power_on", 0) = {0} /\ S!PausesFrom("power_off", 0) = {0}
  BY <1>2, <1>3 DEF S!PausesFrom
<1>5. ASSUME NEW i \in Nat, i >= 1
      PROVE  S!PausesFrom("power_on", i) = {} /\ S!PausesFrom("power_off", i) = {}
  BY <1>2, <1>3, <1>5 DEF S!PausesFrom
<1>6. S!PausesFrom("shutdown", 0) = {} /\ S!PausesFrom("emergency_shutdown", 0) = {}
  BY <1>2, <1>3 DEF S!PausesFrom
<1> QED
  BY <1>2, <1>4, <1>5, <1>6

\* A new state is reported.
LEMMA SetStateResult ==
    ASSUME NEW s \in S!Contexts, NEW new \in S!States, NEW r, r = S!SetState(s, new)
    PROVE  /\ r \in S!Contexts /\ r.state = new
           /\ r.transition = s.transition /\ r.index = s.index
           /\ r.onCompletion = s.onCompletion /\ r.limboRemoved = s.limboRemoved
           /\ r.changes = Append(s.changes, <<s.state, new>>)
<1>1. s.changes \in Seq(S!States \X S!States) /\ s.state \in S!States
  BY DEF S!Contexts
<1>2. Append(s.changes, <<s.state, new>>) \in Seq(S!States \X S!States)
  BY <1>1
<1> QED
  BY <1>2 DEF S!SetState, S!Contexts

\* The end of a transition is reported too.
LEMMA CompleteResult ==
    ASSUME NEW s \in S!Contexts, NEW r, r = S!CompleteTransition(s)
    PROVE  /\ r \in S!Contexts /\ r.state = s.onCompletion
           /\ r.transition = s.transition /\ r.index = s.index
           /\ r.onCompletion = s.onCompletion /\ r.limboRemoved = s.limboRemoved
           /\ r.changes = Append(s.changes, <<s.state, s.onCompletion>>)
<1> PICK e : e = s.onCompletion
  OBVIOUS
<1>1. e \in S!States
  BY DEF S!Contexts
<1>2. r = S!SetState(s, e)
  BY DEF S!CompleteTransition
<1>3. /\ r \in S!Contexts /\ r.state = e
      /\ r.transition = s.transition /\ r.index = s.index
      /\ r.onCompletion = s.onCompletion /\ r.limboRemoved = s.limboRemoved
      /\ r.changes = Append(s.changes, <<s.state, e>>)
  BY <1>1, <1>2, SetStateResult
<1> QED
  BY <1>3

\* The walk of powering on or off from its first step pauses there.
LEMMA WalkPauses ==
    ASSUME NEW s \in S!Contexts, s.transition \in {"power_on", "power_off"},
           NEW r, r = S!WalkFrom(s, 0)
    PROVE  /\ r \in S!Contexts /\ r.state = s.state
           /\ r.transition = s.transition /\ r.index = 0
           /\ r.onCompletion = s.onCompletion /\ r.limboRemoved = s.limboRemoved
           /\ r.changes = s.changes
<1> PICK t : t = s.transition
  OBVIOUS
<1>1. S!PausesFrom(t, 0) = {0}
  BY TablePauses
<1>2. S!Min({0}) = 0
  BY DEF S!Min
<1> PICK id : id = S!AsyncId(t, 0)
  OBVIOUS
<1>3. id \in {"prompt", "stop_cfm"}
  BY DEF S!AsyncId, Table
<1>4. r = [s EXCEPT !.index = 0, !.ran = @ + 0 - 0 + 1, !.posted[id] = @ + 1]
  BY <1>1, <1>2 DEF S!WalkFrom
<1>5. s.ran \in Nat /\ s.posted \in [{"prompt", "stop_cfm"} -> Nat]
  BY DEF S!Contexts
<1> PICK n : n = s.ran + 0 - 0 + 1
  OBVIOUS
<1> PICK p : p = [s.posted EXCEPT ![id] = @ + 1]
  OBVIOUS
<1>6. n \in Nat /\ p \in [{"prompt", "stop_cfm"} -> Nat]
  BY <1>3, <1>5
<1>7. r = [s EXCEPT !.index = 0, !.ran = n, !.posted = p]
  BY <1>4 DEF S!Contexts
<1>8. r.state = s.state /\ r.transition = s.transition /\ r.index = 0
  BY <1>7 DEF S!Contexts
<1>9. r.onCompletion = s.onCompletion /\ r.limboRemoved = s.limboRemoved /\ r.changes = s.changes
  BY <1>7 DEF S!Contexts
<1>10. r \in S!Contexts
  <2> PICK z \in Nat : z = 0
    OBVIOUS
  <2>1. r = [s EXCEPT !.index = z, !.ran = n, !.posted = p]
    BY <1>7
  <2> QED
    BY <1>6, <2>1 DEF S!Contexts
<1> QED
  BY <1>8, <1>9, <1>10

\* Any other walk runs to the end of the table and completes the transition.
LEMMA WalkEnds ==
    ASSUME NEW s \in S!Contexts, NEW i \in Nat,
           \/ s.transition \in {"power_on", "power_off"} /\ i >= 1
           \/ s.transition \in {"shutdown", "emergency_shutdown"} /\ i = 0,
           NEW r, r = S!WalkFrom(s, i)
    PROVE  /\ r \in S!Contexts /\ r.state = s.onCompletion
           /\ r.transition = s.transition /\ r.index \in Nat
           /\ r.index >= S!Count(s.transition) /\ r.index >= i
           /\ r.onCompletion = s.onCompletion /\ r.limboRemoved = s.limboRemoved
           /\ r.changes = Append(s.changes, <<s.state, s.onCompletion>>)
<1> PICK t : t = s.transition
  OBVIOUS
<1> PICK n : n = S!Count(t)
  OBVIOUS
<1>1. S!PausesFrom(t, i) = {} /\ n \in Nat
  BY TablePauses
<1> DEFINE w == IF i < n THEN [s EXCEPT !.index = n, !.ran = @ + n - i]
                ELSE [s EXCEPT !.index = i]
<1>2. r = S!CompleteTransition(w)
  BY <1>1 DEF S!WalkFrom
<1>3. s.ran \in Nat
  BY DEF S!Contexts
<1>4. /\ w \in S!Contexts /\ w.state = s.state /\ w.transition = t
      /\ w.index \in Nat /\ w.index >= n /\ w.index >= i
      /\ w.onCompletion = s.onCompletion /\ w.limboRemoved = s.limboRemoved
      /\ w.changes = s.changes
  <2>1. CASE i < n
    <3> PICK ran : ran = s.ran + n - i
      OBVIOUS
    <3>1. ran \in Nat
      BY <1>1, <1>3, <2>1
    <3>2. w = [s EXCEPT !.index = n, !.ran = ran]
      BY <2>1 DEF S!Contexts
    <3>3. w.state = s.state /\ w.transition = t /\ w.index = n
      BY <3>2 DEF S!Contexts
    <3>4. w.onCompletion = s.onCompletion /\ w.limboRemoved = s.limboRemoved /\ w.changes = s.changes
      BY <3>2 DEF S!Contexts
    <3>5. w \in S!Contexts
      BY <1>1, <3>1, <3>2 DEF S!Contexts
    <3> QED
      BY <1>1, <2>1, <3>3, <3>4, <3>5
  <2>2. CASE ~(i < n)
    BY <1>1, <2>2 DEF S!Contexts
  <2> QED
    BY <2>1, <2>2
<1>5. /\ r \in S!Contexts /\ r.state = w.onCompletion
      /\ r.transition = w.transition /\ r.index = w.index
      /\ r.onCompletion = w.onCompletion /\ r.limboRemoved = w.limboRemoved
      /\ r.changes = Append(w.changes, <<w.state, w.onCompletion>>)
  <2>1. w \in S!Contexts
    BY <1>4
  <2> HIDE DEF w
  <2> QED
    BY <1>2, <2>1, CompleteResult
<1> QED
  BY <1>4, <1>5

\* A context in which system_state rests has all its types.
LEMMA CoherentType ==
    ASSUME NEW c, Coherent(c)
    PROVE  /\ c \in S!Contexts /\ c.limboRemoved = FALSE /\ c.changes = << >>
           /\ c.state \in {"powering_on", "powering_off", "limbo", "active"}
<1>1. ASSUME NEW a \in {"powering_on", "powering_off", "limbo", "active"},
             NEW t \in {"power_on", "power_off", "startup"}, NEW n \in Nat,
             NEW e \in {"limbo", "active"}, c = Context(a, t, n, e)
      PROVE  /\ c \in S!Contexts /\ c.limboRemoved = FALSE /\ c.changes = << >>
             /\ c.state = a
  <2>1. a \in S!States /\ e \in S!States
    BY DEF S!States, S!Stable, S!Transitional
  <2>2. t \in S!Transitions \cup {S!NoTransition}
    BY DEF S!Transitions
  <2> PICK p : p = [m \in {"prompt", "stop_cfm"} |-> 0]
    OBVIOUS
  <2>3. p \in [{"prompt", "stop_cfm"} -> Nat]
    OBVIOUS
  <2> PICK h : h = << >>
    OBVIOUS
  <2>4. h \in Seq(S!States \X S!States)
    OBVIOUS
  <2> PICK b \in BOOLEAN : b = FALSE
    OBVIOUS
  <2> PICK z \in Nat : z = 0
    OBVIOUS
  <2>5. c = [state |-> a, transition |-> t, index |-> n, onCompletion |-> e,
             limboRemoved |-> b, ran |-> z, posted |-> p, changes |-> h]
    BY <1>1 DEF Context
  <2>6. c \in S!Contexts
    BY <2>1, <2>2, <2>3, <2>4, <2>5 DEF S!Contexts
  <2>7. c.limboRemoved = b /\ c.changes = h /\ c.state = a
    BY <2>5
  <2> QED
    BY <2>6, <2>7
<1>2. \E a \in {"powering_on", "powering_off", "limbo", "active"},
         t \in {"power_on", "power_off", "startup"}, n \in Nat,
         e \in {"limbo", "active"} : c = Context(a, t, n, e)
  BY 0 \in Nat DEF Coherent
<1> QED
  BY <1>1, <1>2, ZenonT(30)

\* system_state rests at the first step of powering on or off.
LEMMA CoherentPaused ==
    ASSUME NEW c, Coherent(c)
    PROVE  /\ c.state = "powering_on" =>
                c.transition = "power_on" /\ c.index = 0 /\ c.onCompletion = "active"
           /\ c.state = "powering_off" =>
                c.transition = "power_off" /\ c.index = 0 /\ c.onCompletion = "limbo"
           /\ c.state = "limbo" =>
                /\ c.onCompletion = "limbo"
                /\ \/ c.transition = "startup"
                   \/ c.transition = "power_off" /\ c.index \in Nat /\ c.index >= 2
           /\ c.state = "active" =>
                /\ c.onCompletion = "active"
                /\ c.transition = "power_on" /\ c.index \in Nat /\ c.index >= 3
BY DEF Coherent, Context

\* Setting up a transition starts its walk.
LEMMA SetupResult ==
    ASSUME NEW s \in S!Contexts, NEW t \in S!Transitions, NEW end \in S!States
    PROVE  \E w \in S!Contexts :
             /\ S!SetupAndRun(s, t, end) = S!WalkFrom(w, 0)
             /\ w.state = s.state /\ w.transition = t /\ w.onCompletion = end
             /\ w.limboRemoved = s.limboRemoved /\ w.changes = s.changes
<1> PICK z \in Nat : z = 0
  OBVIOUS
<1> PICK w : w = [s EXCEPT !.transition = t, !.onCompletion = end, !.ran = z]
  OBVIOUS
<1>1. w \in S!Contexts
  BY DEF S!Contexts
<1>2. /\ w.state = s.state /\ w.transition = t /\ w.onCompletion = end
      /\ w.limboRemoved = s.limboRemoved /\ w.changes = s.changes
  BY DEF S!Contexts
<1>3. S!SetupAndRun(s, t, end) = S!WalkFrom(w, 0)
  BY DEF S!SetupAndRun
<1> QED
  BY <1>1, <1>2, <1>3

\* A transition that system_state accepts and that has a prompt or the
\* topology to wait for.
LEMMA InitiatePauses ==
    ASSUME NEW c \in S!Contexts, c.changes = << >>,
           NEW via \in S!States, NEW end \in S!States,
           NEW t \in {"power_on", "power_off"},
           NEW r, r = S!SetupAndRun(S!SetState(c, via), t, end)
    PROVE  /\ r \in S!Contexts /\ r.state = via /\ r.transition = t /\ r.index = 0
           /\ r.onCompletion = end /\ r.limboRemoved = c.limboRemoved
           /\ r.changes = << <<c.state, via>> >>
<1> PICK s : s = S!SetState(c, via)
  OBVIOUS
<1>1. /\ s \in S!Contexts /\ s.state = via /\ s.limboRemoved = c.limboRemoved
      /\ s.changes = Append(c.changes, <<c.state, via>>)
  <2>1. c \in S!Contexts /\ via \in S!States /\ s = S!SetState(c, via)
    OBVIOUS
  <2> QED
    BY ONLY <2>1, SetStateResult
<1>2. t \in S!Transitions
  BY DEF S!Transitions
<1> PICK w \in S!Contexts :
      /\ S!SetupAndRun(s, t, end) = S!WalkFrom(w, 0)
      /\ w.state = s.state /\ w.transition = t /\ w.onCompletion = end
      /\ w.limboRemoved = s.limboRemoved /\ w.changes = s.changes
  BY <1>1, <1>2, SetupResult
<1>3. w.transition \in {"power_on", "power_off"} /\ r = S!WalkFrom(w, 0)
  OBVIOUS
<1>4. /\ r \in S!Contexts /\ r.state = w.state
      /\ r.transition = w.transition /\ r.index = 0
      /\ r.onCompletion = w.onCompletion /\ r.limboRemoved = w.limboRemoved
      /\ r.changes = w.changes
  BY <1>3, WalkPauses
<1>5. w.changes = << <<c.state, via>> >>
  BY <1>1
<1> QED
  BY <1>1, <1>4, <1>5

\* A transition that switches the chip off runs to its end at once.
LEMMA InitiateEnds ==
    ASSUME NEW c \in S!Contexts, NEW via \in S!States,
           NEW t \in {"shutdown", "emergency_shutdown"},
           NEW r, r = S!SetupAndRun(S!SetState(c, via), t, "powered_off")
    PROVE  r \in S!Contexts /\ r.state = "powered_off"
<1> PICK s : s = S!SetState(c, via)
  OBVIOUS
<1>1. s \in S!Contexts
  <2>1. c \in S!Contexts /\ via \in S!States /\ s = S!SetState(c, via)
    OBVIOUS
  <2> QED
    BY ONLY <2>1, SetStateResult
<1>2. t \in S!Transitions /\ "powered_off" \in S!States
  BY DEF S!Transitions, S!States, S!Stable
<1> PICK w \in S!Contexts :
      /\ S!SetupAndRun(s, t, "powered_off") = S!WalkFrom(w, 0)
      /\ w.transition = t /\ w.onCompletion = "powered_off"
  BY <1>1, <1>2, SetupResult
<1>3. w.transition \in {"shutdown", "emergency_shutdown"} /\ r = S!WalkFrom(w, 0) /\ 0 \in Nat
  OBVIOUS
<1>4. r \in S!Contexts /\ r.state = w.onCompletion
  BY <1>3, WalkEnds
<1> QED
  BY <1>4

-----------------------------------------------------------------------------
(* What an operation of system_state leaves of the headset *)

\* From x to y system_state, the queue and the prompts move; nothing else does
\* that the invariant speaks about.
Moves(x, y, ss, mq, playing) ==
    /\ y \in States
    /\ y.sm = x.sm /\ y.alone = x.alone /\ y.limboTimer = x.limboTimer
    /\ y.plugged = x.plugged /\ y.connected = x.connected
    /\ y.pm = x.pm /\ y.on = x.on
    /\ y.ss = ss /\ y.mq = mq /\ y.playing = playing

\* The context s and the reports q with which an operation ends.
ToldBy(x, c, r, s, q) ==
    /\ s \in S!Contexts /\ q \in Seq(Message) /\ x.mq \o q \in Seq(Message)
    /\ r = [x EXCEPT !.ss = s, !.mq = x.mq \o q]
    /\ s = [c EXCEPT !.posted = [i \in {"prompt", "stop_cfm"} |-> 0], !.ran = 0,
                     !.changes = << >>]
    /\ q = [i \in 1 .. Len(c.changes) |->
              [k |-> "change", old |-> c.changes[i][1], new |-> c.changes[i][2]]]

\* The reports that an operation has made are messages.
LEMMA ToldType ==
    ASSUME NEW x \in States, NEW c \in S!Contexts, NEW r, r = Told(x, c)
    PROVE  \E s, q : ToldBy(x, c, r, s, q)
<1> PICK p : p = [i \in {"prompt", "stop_cfm"} |-> 0]
  OBVIOUS
<1>1. p \in [{"prompt", "stop_cfm"} -> Nat]
  OBVIOUS
<1> PICK z \in Nat : z = 0
  OBVIOUS
<1> PICK h : h = << >>
  OBVIOUS
<1>2. h \in Seq(S!States \X S!States)
  OBVIOUS
<1> PICK s : s = [c EXCEPT !.posted = p, !.ran = z, !.changes = h]
  OBVIOUS
<1>3. s \in S!Contexts
  BY <1>1, <1>2 DEF S!Contexts
<1>4. DOMAIN c.posted = {"prompt", "stop_cfm"}
  BY DEF S!Contexts
<1> PICK l : l = c.changes
  OBVIOUS
<1>5. l \in Seq(S!States \X S!States)
  BY DEF S!Contexts
<1> PICK q : q = [i \in 1 .. Len(l) |-> [k |-> "change", old |-> l[i][1], new |-> l[i][2]]]
  OBVIOUS
<1>6. q \in Seq(Message)
  <2>1. ASSUME NEW i \in 1 .. Len(l)
        PROVE  [k |-> "change", old |-> l[i][1], new |-> l[i][2]] \in Message
    <3>1. l[i] \in S!States \X S!States
      BY <1>5
    <3>2. l[i][1] \in S!States /\ l[i][2] \in S!States
      BY <3>1
    <3> QED
      BY <3>2 DEF Message, Messages
  <2>2. Len(l) \in Nat
    BY <1>5
  <2> QED
    BY <2>1, <2>2
<1>7. x.mq \in Seq(Message)
  BY DEF States
<1>8. x.mq \o q \in Seq(Message)
  BY <1>6, <1>7
<1>9. r = [x EXCEPT !.ss = s, !.mq = x.mq \o q]
  BY <1>4 DEF Told
<1>10. ToldBy(x, c, r, s, q)
  BY <1>3, <1>6, <1>8, <1>9 DEF ToldBy
<1> QED
  BY <1>10

\* A report is one message behind the others.
LEMMA ToldOne ==
    ASSUME NEW x \in States, NEW c \in S!Contexts, c.limboRemoved = FALSE,
           NEW a \in S!States, NEW b \in S!States, c.changes = << <<a, b>> >>,
           NEW r, r = Told(x, c)
    PROVE  /\ Moves(x, r, Context(c.state, c.transition, c.index, c.onCompletion),
                    Append(x.mq, Change(a, b)), x.playing)
           /\ r.topo = x.topo
<1> PICK s, q : ToldBy(x, c, r, s, q)
  BY ToldType
<1> PICK o : o = x.mq \o q
  OBVIOUS
<1>1. s = Context(c.state, c.transition, c.index, c.onCompletion)
  BY DEF ToldBy, Context, S!Contexts
<1>2. x.mq \in Seq(Message)
  BY DEF States
<1>3. o = Append(x.mq, Change(a, b))
  <2>1. Len(c.changes) = 1 /\ c.changes[1] = <<a, b>>
    OBVIOUS
  <2>2. Len(q) = 1 /\ q[1] = Change(a, b) /\ q \in Seq(Message)
    BY <2>1 DEF Change, ToldBy
  <2> HIDE DEF Change
  <2>3. q = <<Change(a, b)>>
    BY <2>2
  <2> QED
    BY <1>2, <2>3
<1>4. r = [x EXCEPT !.ss = s, !.mq = o] /\ o \in Seq(Message) /\ s \in S!Contexts
  BY DEF ToldBy
<1>5. r \in States
  BY <1>4 DEF States
<1>6. /\ r.sm = x.sm /\ r.alone = x.alone /\ r.limboTimer = x.limboTimer
      /\ r.plugged = x.plugged /\ r.connected = x.connected
      /\ r.pm = x.pm /\ r.on = x.on /\ r.playing = x.playing /\ r.topo = x.topo
      /\ r.ss = s /\ r.mq = o
  BY <1>4 DEF States
<1> QED
  BY <1>1, <1>3, <1>5, <1>6 DEF Moves

\* The chip is off after either shutdown.
LEMMA ToldOff ==
    ASSUME NEW x \in States, NEW c \in S!Contexts
    PROVE  [Told(x, c) EXCEPT !.on = FALSE] \in States /\ ~[Told(x, c) EXCEPT !.on = FALSE].on
<1> PICK r : r = Told(x, c)
  OBVIOUS
<1> PICK s, q : ToldBy(x, c, r, s, q)
  BY ToldType
<1> PICK o : o = x.mq \o q
  OBVIOUS
<1>1. r = [x EXCEPT !.ss = s, !.mq = o] /\ o \in Seq(Message) /\ s \in S!Contexts
  BY DEF ToldBy
<1>2. r \in States
  BY <1>1 DEF States
<1> PICK b \in BOOLEAN : b = FALSE
  OBVIOUS
<1> PICK y : y = [r EXCEPT !.on = b]
  OBVIOUS
<1>3. y \in States /\ y.on = b
  BY <1>2, ZenonT(30) DEF States
<1> QED
  BY <1>3

\* Sending a message appends it.
LEMMA SendMoves ==
    ASSUME NEW x \in States, NEW k \in Messages, NEW y, y = Send(x, k)
    PROVE  Moves(x, y, x.ss, Append(x.mq, Plain(k)), x.playing)
<1> PICK o : o = Append(x.mq, Plain(k))
  OBVIOUS
<1>1. x.mq \in Seq(Message)
  BY DEF States
<1>2. o \in Seq(Message)
  BY <1>1, PlainType
<1>3. y = [x EXCEPT !.mq = o]
  BY DEF Send, Plain
<1>4. y \in States
  BY <1>2, <1>3 DEF States
<1>5. /\ y.sm = x.sm /\ y.alone = x.alone /\ y.limboTimer = x.limboTimer
      /\ y.plugged = x.plugged /\ y.connected = x.connected
      /\ y.pm = x.pm /\ y.on = x.on /\ y.playing = x.playing /\ y.ss = x.ss /\ y.mq = o
  BY <1>3 DEF States
<1> QED
  BY <1>4, <1>5 DEF Moves

\* What two steps move, one after the other.
LEMMA MovesTwice ==
    ASSUME NEW x, NEW y, NEW z, NEW s, NEW q, NEW p, NEW t, NEW r, NEW n,
           Moves(x, y, s, q, p), Moves(y, z, t, r, n)
    PROVE  Moves(x, z, t, r, n)
BY DEF Moves

\* Starting the topology touches nothing else.
LEMMA TopologyStartMoves ==
    ASSUME NEW x \in States, NEW y, y = StereoTopology_Start(x)
    PROVE  Moves(x, y, x.ss, x.mq, x.playing)
<1>1. CASE x.topo = "stopped"
  <2>1. y = [x EXCEPT !.topo = "starting"]
    BY <1>1 DEF StereoTopology_Start
  <2>2. y \in States
    BY <2>1 DEF States
  <2>3. /\ y.sm = x.sm /\ y.alone = x.alone /\ y.limboTimer = x.limboTimer
        /\ y.plugged = x.plugged /\ y.connected = x.connected
        /\ y.pm = x.pm /\ y.on = x.on /\ y.playing = x.playing /\ y.ss = x.ss /\ y.mq = x.mq
    BY <2>1 DEF States
  <2> QED
    BY <2>2, <2>3 DEF Moves
<1>2. CASE x.topo # "stopped"
  BY <1>2 DEF StereoTopology_Start, Moves
<1> QED
  BY <1>1, <1>2

\* Stopping it may be confirmed at once.
LEMMA TopologyStopMoves ==
    ASSUME NEW x \in States, NEW y, y = StereoTopology_Stop(x)
    PROVE  \/ Moves(x, y, x.ss, x.mq, x.playing)
           \/ Moves(x, y, x.ss, Append(x.mq, Plain("stop_cfm")), x.playing)
<1>1. CASE x.topo = "started"
  <2>1. y = [x EXCEPT !.topo = "stopping"]
    BY <1>1 DEF StereoTopology_Stop
  <2>2. y \in States
    BY <2>1 DEF States
  <2>3. /\ y.sm = x.sm /\ y.alone = x.alone /\ y.limboTimer = x.limboTimer
        /\ y.plugged = x.plugged /\ y.connected = x.connected
        /\ y.pm = x.pm /\ y.on = x.on /\ y.playing = x.playing /\ y.ss = x.ss /\ y.mq = x.mq
    BY <2>1 DEF States
  <2> QED
    BY <2>2, <2>3 DEF Moves
<1>2. CASE x.topo = "stopped"
  <2>1. y = Send(x, "stop_cfm")
    BY <1>2 DEF StereoTopology_Stop
  <2> QED
    BY <2>1, SendMoves DEF Messages
<1>3. CASE x.topo # "started" /\ x.topo # "stopped"
  BY <1>3 DEF StereoTopology_Stop, Moves
<1> QED
  BY <1>1, <1>2, <1>3

\* A prompt that starts or ends.
LEMMA PlayingMoves ==
    ASSUME NEW x \in States, NEW n \in Nat, NEW y, y = [x EXCEPT !.playing = n]
    PROVE  Moves(x, y, x.ss, x.mq, n)
<1>1. y \in States
  BY DEF States
<1>2. /\ y.sm = x.sm /\ y.alone = x.alone /\ y.limboTimer = x.limboTimer
      /\ y.plugged = x.plugged /\ y.connected = x.connected
      /\ y.pm = x.pm /\ y.on = x.on /\ y.playing = n /\ y.ss = x.ss /\ y.mq = x.mq
  BY DEF States
<1> QED
  BY <1>1, <1>2 DEF Moves

\* SystemState_PowerOn starts from limbo or from powering off, and plays the
\* prompt; from elsewhere it is refused.
LEMMA PowerOnMoves ==
    ASSUME NEW x \in States, Coherent(x.ss), NEW y, y = SystemState_PowerOn(x)
    PROVE  IF x.ss.state \in {"limbo", "powering_off"}
           THEN Moves(x, y, Context("powering_on", "power_on", 0, "active"),
                      Append(x.mq, Change(x.ss.state, "powering_on")), x.playing + 1)
           ELSE y = x
<1> PICK s : s = x.ss
  OBVIOUS
<1> PICK a : a = s.state
  OBVIOUS
<1> PICK c : c = S!PowerOn(s)
  OBVIOUS
<1>1. s \in S!Contexts /\ s.limboRemoved = FALSE /\ s.changes = << >>
  BY CoherentType
<1>2. CASE a \in {"limbo", "powering_off"}
  <2>1. c = S!SetupAndRun(S!SetState(s, "powering_on"), "power_on", "active")
    BY <1>1, <1>2 DEF S!PowerOn, S!InitiateTransition
  <2>2. "powering_on" \in S!States /\ "active" \in S!States /\ a \in S!States
    BY <1>2 DEF S!States, S!Stable, S!Transitional
  <2>3. /\ c \in S!Contexts /\ c.state = "powering_on" /\ c.transition = "power_on" /\ c.index = 0
        /\ c.onCompletion = "active" /\ c.limboRemoved = s.limboRemoved
        /\ c.changes = << <<s.state, "powering_on">> >>
    BY <1>1, <2>1, <2>2, InitiatePauses
  <2> PICK r : r = Told(x, c)
    OBVIOUS
  <2>4. /\ Moves(x, r, Context(c.state, c.transition, c.index, c.onCompletion),
                 Append(x.mq, Change(a, "powering_on")), x.playing)
    BY <1>1, <2>2, <2>3, ToldOne
  <2>5. c # s
    BY <1>2, <2>3
  <2>6. y = [r EXCEPT !.playing = @ + 1]
    BY <2>3, <2>5 DEF SystemState_PowerOn, SystemState
  <2> PICK n : n = r.playing + 1
    OBVIOUS
  <2>7. r \in States /\ r.playing = x.playing /\ n \in Nat
    BY <2>4 DEF Moves, States
  <2>8. y = [r EXCEPT !.playing = n]
    BY <2>6
  <2>9. Moves(r, y, r.ss, r.mq, n)
    BY <2>7, <2>8, PlayingMoves
  <2>10. r.ss = Context("powering_on", "power_on", 0, "active")
    BY <2>3, <2>4 DEF Moves
  <2> QED
    BY <1>2, <2>4, <2>7, <2>9, <2>10 DEF Moves
<1>3. CASE a \notin {"limbo", "powering_off"}
  <2>1. c = s
    BY <1>1, <1>3 DEF S!PowerOn, S!InitiateTransition
  <2>2. y = x
    BY <2>1 DEF SystemState_PowerOn, SystemState
  <2> QED
    BY <1>3, <2>2
<1> QED
  BY <1>2, <1>3

\* SystemState_PowerOff starts from powering on or from active, and stops the
\* topology; from elsewhere it is refused.
LEMMA PowerOffMoves ==
    ASSUME NEW x \in States, Coherent(x.ss), NEW y, y = SystemState_PowerOff(x)
    PROVE  IF x.ss.state \in {"powering_on", "active"}
           THEN \E r : /\ Moves(x, r, Context("powering_off", "power_off", 0, "limbo"),
                                Append(x.mq, Change(x.ss.state, "powering_off")), x.playing)
                       /\ \/ Moves(r, y, r.ss, r.mq, r.playing)
                          \/ Moves(r, y, r.ss, Append(r.mq, Plain("stop_cfm")), r.playing)
           ELSE y = x
<1> PICK s : s = x.ss
  OBVIOUS
<1> PICK a : a = s.state
  OBVIOUS
<1> PICK c : c = S!PowerOff(s)
  OBVIOUS
<1>1. s \in S!Contexts /\ s.limboRemoved = FALSE /\ s.changes = << >>
  BY CoherentType
<1>2. CASE a \in {"powering_on", "active"}
  <2>1. c = S!SetupAndRun(S!SetState(s, "powering_off"), "power_off", "limbo")
    BY <1>1, <1>2 DEF S!PowerOff, S!InitiateTransition
  <2>2. "powering_off" \in S!States /\ "limbo" \in S!States /\ a \in S!States
    BY <1>2 DEF S!States, S!Stable, S!Transitional
  <2>3. /\ c \in S!Contexts /\ c.state = "powering_off" /\ c.transition = "power_off" /\ c.index = 0
        /\ c.onCompletion = "limbo" /\ c.limboRemoved = s.limboRemoved
        /\ c.changes = << <<s.state, "powering_off">> >>
    BY <1>1, <2>1, <2>2, InitiatePauses
  <2> PICK r : r = Told(x, c)
    OBVIOUS
  <2>4. /\ Moves(x, r, Context(c.state, c.transition, c.index, c.onCompletion),
                 Append(x.mq, Change(a, "powering_off")), x.playing)
    BY <1>1, <2>2, <2>3, ToldOne
  <2>5. c # s
    BY <1>2, <2>3
  <2>6. y = StereoTopology_Stop(r) /\ r \in States
    BY <2>3, <2>4, <2>5 DEF SystemState_PowerOff, SystemState, Moves
  <2>7. \/ Moves(r, y, r.ss, r.mq, r.playing)
        \/ Moves(r, y, r.ss, Append(r.mq, Plain("stop_cfm")), r.playing)
    BY <2>6, TopologyStopMoves
  <2>8. Moves(x, r, Context("powering_off", "power_off", 0, "limbo"),
              Append(x.mq, Change(x.ss.state, "powering_off")), x.playing)
    BY <2>3, <2>4
  <2> QED
    BY <1>2, <2>7, <2>8
<1>3. CASE a \notin {"powering_on", "active"}
  <2>1. c = s
    BY <1>1, <1>3 DEF S!PowerOff, S!InitiateTransition
  <2>2. y = x
    BY <2>1 DEF SystemState_PowerOff, SystemState
  <2> QED
    BY <1>3, <2>2
<1> QED
  BY <1>2, <1>3

\* The emergency shutdown switches the chip off from everywhere.
LEMMA EmergencyMoves ==
    ASSUME NEW x \in States, Coherent(x.ss), NEW y, y = SystemState_EmergencyShutdown(x)
    PROVE  y \in States /\ ~y.on
<1> PICK s : s = x.ss
  OBVIOUS
<1> PICK c : c = S!EmergencyShutdown(s)
  OBVIOUS
<1>1. s \in S!Contexts /\ s.state \in {"powering_on", "powering_off", "limbo", "active"}
  BY CoherentType
<1>2. c = S!SetupAndRun(S!SetState(s, "shutting_down_promptly"), "emergency_shutdown", "powered_off")
  BY DEF S!EmergencyShutdown
<1>3. "shutting_down_promptly" \in S!States
  BY DEF S!States, S!Transitional
<1>4. c \in S!Contexts /\ c.state = "powered_off"
  BY <1>1, <1>2, <1>3, InitiateEnds
<1>5. c # s
  BY <1>1, <1>4
<1>6. y = [Told(x, c) EXCEPT !.on = FALSE]
  BY <1>4, <1>5 DEF SystemState_EmergencyShutdown, SystemState
<1> QED
  BY <1>4, <1>6, ToldOff

\* The shutdown does so from limbo only.
LEMMA ShutdownMoves ==
    ASSUME NEW x \in States, Coherent(x.ss), NEW y, y = SystemState_Shutdown(x)
    PROVE  IF x.ss.state = "limbo" THEN y \in States /\ ~y.on ELSE y = x
<1> PICK s : s = x.ss
  OBVIOUS
<1> PICK c : c = S!Shutdown(s)
  OBVIOUS
<1>1. s \in S!Contexts /\ s.limboRemoved = FALSE
  BY CoherentType
<1>2. CASE s.state = "limbo"
  <2>1. c = S!SetupAndRun(S!SetState(s, "shutting_down"), "shutdown", "powered_off")
    BY <1>1, <1>2 DEF S!Shutdown, S!InitiateTransition, S!Base
  <2>2. "shutting_down" \in S!States
    BY DEF S!States, S!Transitional
  <2>3. c \in S!Contexts /\ c.state = "powered_off"
    BY <1>1, <2>1, <2>2, InitiateEnds
  <2>4. c # s
    BY <1>2, <2>3
  <2>5. y = [Told(x, c) EXCEPT !.on = FALSE]
    BY <2>3, <2>4 DEF SystemState_Shutdown, SystemState
  <2> QED
    BY <1>2, <2>3, <2>5, ToldOff
<1>3. CASE s.state # "limbo"
  <2>1. c = s
    BY <1>1, <1>3 DEF S!Shutdown, S!InitiateTransition, S!Base
  <2> QED
    BY <1>3, <2>1 DEF SystemState_Shutdown, SystemState
<1> QED
  BY <1>2, <1>3

-----------------------------------------------------------------------------
(* Steps that keep the invariant *)

Reports == {StartedUp, PoweringOn, PoweredOn, PoweringOff}

\* The invariant cannot tell the queues q and r apart.
Alike(q, r) ==
    /\ r \in Seq(Message)
    /\ \A m \in Reports : Has(r, m) <=> Has(q, m)
    /\ \A k \in ChargerKinds \cup {"prompt"} : HasKind(r, k) <=> HasKind(q, k)
    /\ Behind(q, "attached", PoweringOn) => Behind(r, "attached", PoweringOn)
    /\ Behind(q, "charger_off", PoweringOff) => Behind(r, "charger_off", PoweringOff)
    /\ Once(q, StartedUp) => Once(r, StartedUp)
    /\ Once(q, PoweringOff) => Once(r, PoweringOff)
    /\ PromptsFirst(q) => PromptsFirst(r)
    /\ OneCharger(q) => OneCharger(r)
    /\ Has(q, StartedUp) /\ q[1] = StartedUp => r[1] = StartedUp

\* The reports are messages of one kind, and no two are the same.
LEMMA ReportsDiffer ==
    /\ Reports \subseteq Message
    /\ \A m \in Reports : m.k = "change"
    /\ StartedUp # PoweringOn /\ StartedUp # PoweredOn /\ StartedUp # PoweringOff
    /\ PoweringOn # PoweredOn /\ PoweringOn # PoweringOff /\ PoweredOn # PoweringOff
<1>1. \A a, b : Change(a, b).old = a /\ Change(a, b).new = b /\ Change(a, b).k = "change"
  BY DEF Change
<1>2. /\ "starting_up" \in S!States /\ "limbo" \in S!States /\ "powering_on" \in S!States
      /\ "active" \in S!States /\ "powering_off" \in S!States
  BY DEF S!States, S!Stable, S!Transitional
<1>3. Reports \subseteq Message
  BY <1>2, ChangeType DEF Reports, StartedUp, PoweringOn, PoweredOn, PoweringOff
<1>4. \A m \in Reports : m.k = "change"
  BY <1>1 DEF Reports, StartedUp, PoweringOn, PoweredOn, PoweringOff
<1>5. /\ StartedUp.old = "starting_up" /\ PoweringOn.old = "limbo"
      /\ PoweredOn.old = "powering_on" /\ PoweringOff.old = "active"
  BY <1>1 DEF StartedUp, PoweringOn, PoweredOn, PoweringOff
<1> QED
  BY <1>3, <1>4, <1>5

\* Most of what headset_sm sends itself is of no account.
LEMMA PlainDull ==
    ASSUME NEW k \in Messages, k \notin ChargerKinds \cup {"prompt"}
    PROVE  Plain(k) \in Message /\ Dull(Plain(k))
<1>1. Plain(k) \in Message /\ Plain(k).k = k /\ Plain(k).old = ""
  BY PlainType DEF Plain
<1>2. /\ StartedUp.old = "starting_up" /\ PoweringOn.old = "limbo"
      /\ PoweredOn.old = "powering_on" /\ PoweringOff.old = "active"
  BY DEF StartedUp, PoweringOn, PoweredOn, PoweringOff, Change
<1> QED
  BY <1>1, <1>2 DEF Dull

\* So are the reports that headset_sm does not follow.
LEMMA ChangeDull ==
    ASSUME NEW a \in S!States, NEW b \in S!States,
           <<a, b>> \notin {<<"starting_up", "limbo">>, <<"limbo", "powering_on">>,
                            <<"powering_on", "active">>, <<"active", "powering_off">>}
    PROVE  Change(a, b) \in Message /\ Dull(Change(a, b))
<1>1. \A e, f : Change(e, f).old = e /\ Change(e, f).new = f /\ Change(e, f).k = "change"
  BY DEF Change
<1>2. Change(a, b) \in Message
  BY ChangeType
<1>3. Change(a, b) \notin {StartedUp, PoweringOn, PoweredOn, PoweringOff}
  BY <1>1 DEF StartedUp, PoweringOn, PoweredOn, PoweringOff
<1> QED
  BY <1>1, <1>2, <1>3 DEF Dull, ChargerKinds

\* A message of no account that is sent.
LEMMA SendAlike ==
    ASSUME NEW q \in Seq(Message), NEW n \in Message, Dull(n)
    PROVE  Alike(q, Append(q, n))
<1> PICK r : r = Append(q, n)
  OBVIOUS
<1>1. /\ n # StartedUp /\ n # PoweringOn /\ n # PoweredOn /\ n # PoweringOff
      /\ n.k # "prompt" /\ n.k \notin ChargerKinds
  BY DEF Dull
<1>2. r \in Seq(Message)
  OBVIOUS
<1>3. ASSUME NEW m \in Reports
      PROVE  Has(r, m) <=> Has(q, m)
  BY <1>1, AppendHas DEF Reports
<1>4. ASSUME NEW k \in ChargerKinds \cup {"prompt"}
      PROVE  HasKind(r, k) <=> HasKind(q, k)
  BY <1>1, AppendHasKind
<1>5. Behind(q, "attached", PoweringOn) => Behind(r, "attached", PoweringOn)
  BY <1>1, AppendBehind
<1>6. Behind(q, "charger_off", PoweringOff) => Behind(r, "charger_off", PoweringOff)
  BY <1>1, AppendBehind
<1>7. Once(q, StartedUp) => Once(r, StartedUp)
  BY <1>1, AppendOnce
<1>8. Once(q, PoweringOff) => Once(r, PoweringOff)
  BY <1>1, AppendOnce
<1>9. PromptsFirst(q) => PromptsFirst(r)
  BY <1>1, AppendPrompts
<1>10. OneCharger(q) => OneCharger(r)
  BY <1>1, AppendCharger
<1>11. ASSUME Has(q, StartedUp), q[1] = StartedUp
       PROVE  r[1] = StartedUp
  <2>1. 1 \in 1 .. Len(q)
    BY <1>11 DEF Has
  <2> QED
    BY <1>11, <2>1
<1> QED
  BY <1>2, <1>3, <1>4, <1>5, <1>6, <1>7, <1>8, <1>9, <1>10, <1>11 DEF Alike

\* A message of no account that is taken.
LEMMA TakeAlike ==
    ASSUME NEW q \in Seq(Message), q # << >>, Dull(Head(q))
    PROVE  Alike(q, Tail(q))
<1> PICK r : r = Tail(q)
  OBVIOUS
<1> PICK n : n = Head(q)
  OBVIOUS
<1>1. /\ n # StartedUp /\ n # PoweringOn /\ n # PoweredOn /\ n # PoweringOff
      /\ n.k # "prompt" /\ n.k \notin ChargerKinds
  BY DEF Dull
<1>2. r \in Seq(Message) /\ n = q[1]
  BY RestOfQueue
<1>3. ASSUME NEW m \in Reports
      PROVE  Has(r, m) <=> Has(q, m)
  BY <1>1, TailHas DEF Reports
<1>4. ASSUME NEW k \in ChargerKinds \cup {"prompt"}
      PROVE  HasKind(r, k) <=> HasKind(q, k)
  BY <1>1, TailHasKind
<1>5. Behind(q, "attached", PoweringOn) => Behind(r, "attached", PoweringOn)
  BY TailBehind
<1>6. Behind(q, "charger_off", PoweringOff) => Behind(r, "charger_off", PoweringOff)
  BY TailBehind
<1>7. Once(q, StartedUp) => Once(r, StartedUp)
  BY TailOnce
<1>8. Once(q, PoweringOff) => Once(r, PoweringOff)
  BY TailOnce
<1>9. PromptsFirst(q) => PromptsFirst(r)
  BY TailPrompts
<1>10. OneCharger(q) => OneCharger(r)
  BY TailCharger
<1> QED
  BY <1>1, <1>2, <1>3, <1>4, <1>5, <1>6, <1>7, <1>8, <1>9, <1>10 DEF Alike

\* What holds of one queue holds of a queue that is alike, also when
\* system_state moves within its table or from powering off to limbo.
LEMMA GoodContext ==
    ASSUME NEW x, NEW y, Good(x), Alike(x.mq, y.mq),
           Moves(x, y, y.ss, y.mq, x.playing), Coherent(y.ss),
           \/ y.ss.state = x.ss.state
           \/ /\ x.ss.state = "powering_off" /\ y.ss.state = "limbo"
              /\ x.sm # "POWERING_OFF"
    PROVE  Good(y)
<1>1. /\ y.sm = x.sm /\ y.alone = x.alone /\ y.limboTimer = x.limboTimer
      /\ y.plugged = x.plugged /\ y.connected = x.connected
      /\ y.pm = x.pm /\ y.playing = x.playing
  BY DEF Moves
<1> PICK q, r : q = x.mq /\ r = y.mq
  OBVIOUS
<1>2. /\ Has(r, StartedUp) <=> Has(q, StartedUp)
      /\ Has(r, PoweringOn) <=> Has(q, PoweringOn)
      /\ Has(r, PoweredOn) <=> Has(q, PoweredOn)
      /\ Has(r, PoweringOff) <=> Has(q, PoweringOff)
  BY DEF Alike, Reports
<1>3. /\ HasKind(r, "charger_on") <=> HasKind(q, "charger_on")
      /\ HasKind(r, "charger_off") <=> HasKind(q, "charger_off")
      /\ HasKind(r, "attached") <=> HasKind(q, "attached")
      /\ HasKind(r, "detached") <=> HasKind(q, "detached")
      /\ HasKind(r, "prompt") <=> HasKind(q, "prompt")
  BY DEF Alike, ChargerKinds
<1>4. /\ Behind(q, "attached", PoweringOn) => Behind(r, "attached", PoweringOn)
      /\ Behind(q, "charger_off", PoweringOff) => Behind(r, "charger_off", PoweringOff)
      /\ Once(q, StartedUp) => Once(r, StartedUp)
      /\ Once(q, PoweringOff) => Once(r, PoweringOff)
      /\ PromptsFirst(q) => PromptsFirst(r)
      /\ OneCharger(q) => OneCharger(r)
      /\ Has(q, StartedUp) /\ q[1] = StartedUp => r[1] = StartedUp
  BY DEF Alike
<1>5. Coherent(y.ss)
  OBVIOUS
<1>6. ChargerKnown(r, y.plugged, y.connected)
  BY <1>1, <1>3, <1>4 DEF Good, ChargerKnown
<1>7. PromptsFirst(r)
  BY <1>4 DEF Good
<1>8. OnUntold(y) /\ OnUnderWay(y)
  BY <1>1, <1>2, <1>3, <1>4 DEF Good, OnUntold, OnUnderWay
<1>9. OffUntold(y) /\ OffUnderWay(y)
  BY <1>1, <1>2, <1>4 DEF Good, OffUntold, OffUnderWay
<1>10. StartUnderWay(y)
  BY <1>1, <1>2, <1>4 DEF Good, StartUnderWay
<1>11. InLimbo(y) /\ LimboEnds(y)
  BY <1>1, <1>2, <1>3 DEF Good, InLimbo, LimboEnds
<1> QED
  BY <1>5, <1>6, <1>7, <1>8, <1>9, <1>10, <1>11 DEF Good

\* The same, with system_state left alone.
LEMMA GoodAlike ==
    ASSUME NEW x, NEW y, Good(x), Alike(x.mq, y.mq),
           Moves(x, y, x.ss, y.mq, x.playing)
    PROVE  Good(y)
<1>1. y.ss = x.ss /\ Coherent(x.ss)
  BY DEF Moves, Good
<1>2. Moves(x, y, y.ss, y.mq, x.playing)
  BY <1>1
<1> QED
  BY <1>1, <1>2, GoodContext

\* Being alike is an order on queues.
LEMMA AlikeTrans ==
    ASSUME NEW q, NEW r, NEW s, Alike(q, r), Alike(r, s)
    PROVE  Alike(q, s)
BY DEF Alike, Reports

\* Every queue is like itself.
LEMMA AlikeSame ==
    ASSUME NEW q \in Seq(Message)
    PROVE  Alike(q, q)
BY DEF Alike

\* Nothing that the invariant speaks about moves.
LEMMA GoodStill ==
    ASSUME NEW x, NEW y, Good(x), Moves(x, y, x.ss, x.mq, x.playing)
    PROVE  Good(y)
<1>1. /\ y.sm = x.sm /\ y.alone = x.alone /\ y.limboTimer = x.limboTimer
      /\ y.plugged = x.plugged /\ y.connected = x.connected
      /\ y.pm = x.pm /\ y.ss = x.ss /\ y.playing = x.playing /\ y.mq = x.mq
  BY DEF Moves
<1>2. Coherent(y.ss) /\ ChargerKnown(y.mq, y.plugged, y.connected) /\ PromptsFirst(y.mq)
  BY <1>1 DEF Good
<1>3. OnUntold(y) /\ OnUnderWay(y) /\ OffUntold(y) /\ OffUnderWay(y)
  BY <1>1 DEF Good, OnUntold, OnUnderWay, OffUntold, OffUnderWay
<1>4. StartUnderWay(y) /\ InLimbo(y) /\ LimboEnds(y)
  BY <1>1 DEF Good, StartUnderWay, InLimbo, LimboEnds
<1> QED
  BY <1>2, <1>3, <1>4 DEF Good

\* Sending a message of no account keeps the invariant.
LEMMA GoodSend ==
    ASSUME NEW x \in States, NEW y, NEW n \in Message, Dull(n), Good(x),
           Moves(x, y, x.ss, Append(x.mq, n), x.playing)
    PROVE  Good(y)
<1>1. x.mq \in Seq(Message)
  BY DEF States
<1>2. y.mq = Append(x.mq, n)
  BY DEF Moves
<1>3. Alike(x.mq, y.mq)
  BY <1>1, <1>2, SendAlike
<1>4. Moves(x, y, x.ss, y.mq, x.playing)
  BY <1>2
<1> QED
  BY <1>3, <1>4, GoodAlike

\* The queues q and r hold the same kinds of messages, in a good order.
SameKinds(q, r) ==
    /\ \A k \in ChargerKinds \cup {"prompt"} : HasKind(r, k) <=> HasKind(q, k)
    /\ PromptsFirst(r) /\ OneCharger(r)

\* A report is neither about the charger nor a prompt's completion.
LEMMA ReportKinds ==
    ASSUME NEW q \in Seq(Message), NEW n \in Message, n.k = "change",
           PromptsFirst(q), OneCharger(q)
    PROVE  SameKinds(q, Append(q, n))
<1> PICK r : r = Append(q, n)
  OBVIOUS
<1>1. n.k # "prompt" /\ n.k \notin ChargerKinds
  BY DEF ChargerKinds
<1>2. ASSUME NEW k \in ChargerKinds \cup {"prompt"}
      PROVE  HasKind(r, k) <=> HasKind(q, k)
  BY <1>1, AppendHasKind
<1>3. PromptsFirst(r)
  BY <1>1, AppendPrompts
<1>4. OneCharger(r)
  BY <1>1, AppendCharger
<1> QED
  BY <1>2, <1>3, <1>4 DEF SameKinds

\* What is known of the charger depends on its messages only.
LEMMA KnownSameKinds ==
    ASSUME NEW q, NEW r, NEW plugged, NEW connected,
           ChargerKnown(q, plugged, connected), SameKinds(q, r)
    PROVE  ChargerKnown(r, plugged, connected) /\ (HasKind(r, "prompt") <=> HasKind(q, "prompt"))
BY DEF SameKinds, ChargerKnown, ChargerKinds

\* A headset in limbo that is switched on: the report is unread, the prompt
\* plays, and nothing that is unread can stop it first.
LEMMA PowerOnGood ==
    ASSUME NEW x \in States, Good(x), x.sm = "LIMBO", ~x.connected,
           ~HasKind(x.mq, "prompt"), NEW y, y = SystemState_PowerOn(x)
    PROVE  y \in States /\ y.on = x.on /\ Good(y)
<1> PICK a, q, r : a = x.ss.state /\ q = x.mq /\ r = y.mq
  OBVIOUS
<1>1. Coherent(x.ss) /\ q \in Seq(Message) /\ x.playing \in Nat
  BY DEF Good, States
<1>2. ChargerKnown(q, x.plugged, x.connected) /\ PromptsFirst(q) /\ OneCharger(q)
  BY DEF Good, ChargerKnown
<1>3. ~HasKind(q, "attached")
  BY <1>2 DEF ChargerKnown
<1>4. ~Has(q, PoweringOff)
  BY DEF Good, OffUntold
<1>5. ~Has(q, StartedUp) /\ Once(q, StartedUp)
  BY DEF Good, StartUnderWay
<1>6. CASE a \notin {"limbo", "powering_off"}
  <2>1. y = x
    BY <1>1, <1>6, PowerOnMoves
  <2> QED
    BY <2>1
<1>7. CASE a \in {"limbo", "powering_off"}
  <2> PICK n : n = Change(a, "powering_on")
    OBVIOUS
  <2>1. Moves(x, y, Context("powering_on", "power_on", 0, "active"), Append(q, n), x.playing + 1)
    BY <1>1, <1>7, PowerOnMoves
  <2>2. /\ y \in States /\ y.on = x.on /\ y.sm = "LIMBO" /\ y.alone = x.alone
        /\ y.plugged = x.plugged /\ y.connected = x.connected /\ r = Append(q, n)
        /\ y.ss = Context("powering_on", "power_on", 0, "active") /\ y.playing = x.playing + 1
    BY <2>1 DEF Moves
  <2>3. y.ss.state = "powering_on" /\ Coherent(y.ss) /\ y.playing > 0
    BY <1>1, <2>2 DEF Coherent, Context
  <2>4. n \in Message /\ n.k = "change" /\ n.old = a /\ n.new = "powering_on"
    <3>1. a \in S!States /\ "powering_on" \in S!States
      BY <1>7 DEF S!States, S!Stable, S!Transitional
    <3>2. n \in Message
      BY <3>1, ChangeType
    <3> QED
      BY <3>2 DEF Change
  <2>5. SameKinds(q, r)
    BY <1>1, <1>2, <2>2, <2>4, ReportKinds
  <2>6. ChargerKnown(r, y.plugged, y.connected) /\ PromptsFirst(r) /\ ~HasKind(r, "prompt")
    BY <1>2, <2>2, <2>5, KnownSameKinds DEF SameKinds
  <2>7. n # StartedUp /\ n # PoweringOff
    BY <2>4 DEF StartedUp, PoweringOff, Change
  <2>8. ~Has(r, PoweringOff) /\ ~Has(r, StartedUp)
    BY <1>1, <1>4, <1>5, <2>2, <2>4, <2>7, AppendHas
  <2>9. Once(r, StartedUp)
    BY <1>1, <1>5, <2>2, <2>4, <2>7, AppendOnce
  <2>10. ~Has(q, PoweringOn)
    BY <1>7 DEF Good, OnUntold
  <2>11. Behind(r, "attached", PoweringOn)
    <3>1. Behind(q, "attached", PoweringOn)
      BY <2>10 DEF Behind, Has
    <3>2. n.k # "attached"
      BY <2>4
    <3> QED
      BY <1>1, <1>3, <2>2, <2>4, <3>1, <3>2, AppendBehind
  <2>12. OnUntold(y) /\ OnUnderWay(y)
    BY <2>2, <2>3, <2>6, <2>11 DEF OnUntold, OnUnderWay
  <2>13. OffUntold(y) /\ OffUnderWay(y) /\ StartUnderWay(y)
    BY <2>2, <2>8, <2>9 DEF OffUntold, OffUnderWay, StartUnderWay
  <2>14. ~y.alone => Has(r, PoweringOn)
    <3>1. ~x.alone => a = "limbo"
      BY <2>10 DEF Good, InLimbo
    <3>2. a = "limbo" => n = PoweringOn
      BY DEF PoweringOn
    <3> QED
      BY <1>1, <2>2, <2>4, <3>1, <3>2, AppendHas
  <2>15. InLimbo(y) /\ LimboEnds(y)
    BY <2>14 DEF InLimbo, LimboEnds
  <2> QED
    BY <2>2, <2>3, <2>6, <2>12, <2>13, <2>15 DEF Good
<1> QED
  BY <1>6, <1>7

\* A headset that is switched off, by its user or by a charger: headset_sm
\* is told before anything can switch it on again.
LEMMA PowerOffGood ==
    ASSUME NEW x \in States, Good(x), ~Has(x.mq, PoweringOn),
           x.sm = "LIMBO" => x.connected, ~HasKind(x.mq, "charger_off"),
           x.sm = "POWERING_ON" => Has(x.mq, PoweredOn),
           NEW y, y = SystemState_PowerOff(x)
    PROVE  y \in States /\ y.on = x.on /\ Good(y)
<1> PICK a, q : a = x.ss.state /\ q = x.mq
  OBVIOUS
<1>1. Coherent(x.ss) /\ q \in Seq(Message)
  BY DEF Good, States
<1>2. ChargerKnown(q, x.plugged, x.connected) /\ PromptsFirst(q) /\ OneCharger(q)
  BY DEF Good, ChargerKnown
<1>3. CASE a \notin {"powering_on", "active"}
  <2>1. y = x
    BY <1>1, <1>3, PowerOffMoves
  <2> QED
    BY <2>1
<1>4. CASE a \in {"powering_on", "active"}
  <2> PICK n : n = Change(a, "powering_off")
    OBVIOUS
  <2>1. \E z : /\ Moves(x, z, Context("powering_off", "power_off", 0, "limbo"),
                        Append(q, n), x.playing)
               /\ \/ Moves(z, y, z.ss, z.mq, z.playing)
                  \/ Moves(z, y, z.ss, Append(z.mq, Plain("stop_cfm")), z.playing)
    BY <1>1, <1>4, PowerOffMoves
  <2> PICK z : /\ Moves(x, z, Context("powering_off", "power_off", 0, "limbo"),
                        Append(q, n), x.playing)
               /\ \/ Moves(z, y, z.ss, z.mq, z.playing)
                  \/ Moves(z, y, z.ss, Append(z.mq, Plain("stop_cfm")), z.playing)
    BY <2>1
  <2> PICK r : r = z.mq
    OBVIOUS
  <2>2. /\ z \in States /\ z.on = x.on /\ z.sm = x.sm /\ z.alone = x.alone
        /\ z.plugged = x.plugged /\ z.connected = x.connected /\ r = Append(q, n)
        /\ z.ss = Context("powering_off", "power_off", 0, "limbo")
    BY DEF Moves
  <2>3. z.ss.state = "powering_off" /\ Coherent(z.ss)
    BY <2>2 DEF Coherent, Context
  <2>4. n \in Message /\ n.k = "change" /\ n.old = a /\ n.new = "powering_off"
    <3>1. a \in S!States /\ "powering_off" \in S!States
      BY <1>4 DEF S!States, S!Stable, S!Transitional
    <3>2. n \in Message
      BY <3>1, ChangeType
    <3> QED
      BY <3>2 DEF Change
  <2>5. SameKinds(q, r)
    BY <1>1, <1>2, <2>2, <2>4, ReportKinds
  <2>6. ChargerKnown(r, z.plugged, z.connected) /\ PromptsFirst(r)
    BY <1>2, <2>2, <2>5, KnownSameKinds DEF SameKinds
  <2>7. n # StartedUp /\ n # PoweringOn /\ n # PoweredOn
    BY <2>4 DEF StartedUp, PoweringOn, PoweredOn, Change
  <2>8. x.sm # "NULL" /\ x.sm # "POWERING_OFF"
    BY <1>4 DEF Good, StartUnderWay, OffUnderWay
  <2>9. ~Has(q, StartedUp) /\ Once(q, StartedUp) /\ ~Has(q, PoweringOff)
    BY <1>4, <2>8 DEF Good, StartUnderWay, OffUntold
  <2>10. /\ ~Has(r, StartedUp) /\ ~Has(r, PoweringOn)
         /\ Has(r, PoweredOn) <=> Has(q, PoweredOn)
    BY <1>1, <2>2, <2>4, <2>7, <2>9, AppendHas
  <2>11. Once(r, StartedUp)
    BY <1>1, <2>2, <2>4, <2>7, <2>9, AppendOnce
  <2>12. Once(r, PoweringOff)
    <3>1. Once(q, PoweringOff)
      BY <2>9 DEF Once, Has
    <3> QED
      BY <1>1, <2>2, <2>4, <2>9, <3>1, AppendOnce
  <2>13. Behind(r, "charger_off", PoweringOff)
    <3>1. Behind(q, "charger_off", PoweringOff)
      BY <2>9 DEF Behind, Has
    <3>2. n.k # "charger_off"
      BY <2>4
    <3> QED
      BY <1>1, <2>2, <2>4, <3>1, <3>2, AppendBehind
  <2>14. OnUntold(z) /\ OnUnderWay(z)
    BY <2>2, <2>10 DEF Good, OnUntold, OnUnderWay
  <2>15. OffUntold(z) /\ OffUnderWay(z) /\ StartUnderWay(z)
    BY <2>2, <2>3, <2>8, <2>10, <2>11, <2>12, <2>13 DEF OffUntold, OffUnderWay, StartUnderWay
  <2>16. z.sm = "LIMBO" => z.alone
    BY <1>4, <2>2 DEF Good, InLimbo
  <2>17. InLimbo(z) /\ LimboEnds(z)
    BY <2>16 DEF InLimbo, LimboEnds
  <2>18. Good(z)
    BY <2>3, <2>6, <2>14, <2>15, <2>17 DEF Good
  <2>19. CASE Moves(z, y, z.ss, z.mq, z.playing)
    <3>1. Good(y)
      BY <2>18, <2>19, GoodStill
    <3> QED
      BY <2>2, <2>19, <3>1 DEF Moves
  <2>20. CASE Moves(z, y, z.ss, Append(z.mq, Plain("stop_cfm")), z.playing)
    <3>1. Plain("stop_cfm") \in Message /\ Dull(Plain("stop_cfm"))
      BY PlainDull DEF Messages, ChargerKinds
    <3>2. Good(y)
      BY <2>2, <2>18, <2>20, <3>1, GoodSend
    <3> QED
      BY <2>2, <2>20, <3>2 DEF Moves
  <2> QED
    BY <2>19, <2>20
<1> QED
  BY <1>3, <1>4

-----------------------------------------------------------------------------
(* Taking a message *)

\* What does not depend on the state of headset_sm.
Steady(x) ==
    /\ x \in States
    /\ Coherent(x.ss)
    /\ ChargerKnown(x.mq, x.plugged, x.connected)
    /\ PromptsFirst(x.mq)
    /\ OnUntold(x) /\ OffUntold(x)
    /\ ~Has(x.mq, StartedUp) /\ Once(x.mq, StartedUp)

\* The headset between the moment at which message m has been taken and the
\* moment at which it has been handled: what may have become untrue is what
\* m has just told.
Taken(x, m) ==
    /\ Steady(x) /\ OffUnderWay(x)
    /\ m # PoweredOn /\ m.k # "prompt" => OnUnderWay(x)
    /\ m # PoweringOn => InLimbo(x)
    /\ m # PoweringOn /\ m.k # "detached" => LimboEnds(x)
    /\ m # StartedUp <=> x.sm # "NULL"
    /\ m.k # "prompt" => ~HasKind(x.mq, "prompt")
    /\ m.k = "prompt" =>
         /\ x.sm = "POWERING_ON" => Has(x.mq, PoweredOn) \/ x.ss.state = "powering_on"
         /\ ~Has(x.mq, PoweringOn)
    /\ m = StartedUp => x.ss.state = "limbo" /\ ~Has(x.mq, PoweringOff)
    /\ m = PoweringOn => x.ss.state = "powering_on" /\ x.playing > 0
    /\ m = PoweringOff => x.ss.state \in {"powering_off", "limbo"} /\ ~Has(x.mq, PoweringOff)
    /\ m.k = "attached" =>
         x.connected /\ ~HasKind(x.mq, "charger_off") /\ ~Has(x.mq, PoweringOn)

\* Taking the first message, unless it comes from the socket.
LEMMA TakeMessage ==
    ASSUME NEW z \in States, Good(z), z.mq # << >>,
           NEW m, m = Head(z.mq), m.k \notin {"charger_on", "charger_off"},
           NEW x, x = [z EXCEPT !.mq = Tail(@)]
    PROVE  Taken(x, m) /\ x.on = z.on
<1> PICK q, r : q = z.mq /\ r = Tail(q)
  OBVIOUS
<1>1. q \in Seq(Message) /\ q # << >>
  BY DEF States
<1>2. r \in Seq(Message) /\ m \in Message /\ m = q[1]
  BY <1>1, RestOfQueue
<1>3. x = [z EXCEPT !.mq = r]
  OBVIOUS
<1>4. x \in States
  BY <1>2, <1>3 DEF States
<1>5. /\ x.sm = z.sm /\ x.alone = z.alone /\ x.limboTimer = z.limboTimer
      /\ x.plugged = z.plugged /\ x.connected = z.connected
      /\ x.pm = z.pm /\ x.on = z.on /\ x.ss = z.ss /\ x.playing = z.playing /\ x.mq = r
  BY <1>3 DEF States
<1>6. \A n \in Reports : Has(q, n) <=> m = n \/ Has(r, n)
  BY <1>1, TailHas
<1>7. /\ Has(q, StartedUp) <=> m = StartedUp \/ Has(r, StartedUp)
      /\ Has(q, PoweringOn) <=> m = PoweringOn \/ Has(r, PoweringOn)
      /\ Has(q, PoweredOn) <=> m = PoweredOn \/ Has(r, PoweredOn)
      /\ Has(q, PoweringOff) <=> m = PoweringOff \/ Has(r, PoweringOff)
  BY <1>6 DEF Reports
<1>8. \A k \in ChargerKinds \cup {"prompt"} : HasKind(q, k) <=> m.k = k \/ HasKind(r, k)
  BY <1>1, TailHasKind
<1>9. /\ HasKind(q, "charger_on") <=> HasKind(r, "charger_on")
      /\ HasKind(q, "charger_off") <=> HasKind(r, "charger_off")
      /\ HasKind(q, "attached") <=> m.k = "attached" \/ HasKind(r, "attached")
      /\ HasKind(q, "detached") <=> m.k = "detached" \/ HasKind(r, "detached")
      /\ HasKind(q, "prompt") <=> m.k = "prompt" \/ HasKind(r, "prompt")
  BY <1>8 DEF ChargerKinds
<1>10. /\ Coherent(z.ss) /\ ChargerKnown(q, z.plugged, z.connected) /\ PromptsFirst(q)
       /\ OnUntold(z) /\ OnUnderWay(z) /\ OffUntold(z) /\ OffUnderWay(z)
       /\ StartUnderWay(z) /\ InLimbo(z) /\ LimboEnds(z)
  BY DEF Good
<1>11. PromptsFirst(r) /\ (m.k # "prompt" => ~HasKind(q, "prompt"))
  BY <1>1, <1>10, TailPrompts
<1>12. OneCharger(r)
  BY <1>1, <1>10, TailCharger DEF ChargerKnown
<1>13. ChargerKnown(r, x.plugged, x.connected)
  BY <1>5, <1>9, <1>10, <1>12 DEF ChargerKnown
<1>14. OnUntold(x)
  <2>1. Behind(q, "attached", PoweringOn) => Behind(r, "attached", PoweringOn)
    BY <1>1, TailBehind
  <2> QED
    BY <1>5, <1>7, <1>9, <1>10, <2>1 DEF OnUntold
<1>15. OffUntold(x)
  <2>1. Behind(q, "charger_off", PoweringOff) => Behind(r, "charger_off", PoweringOff)
    BY <1>1, TailBehind
  <2>2. Once(q, PoweringOff) => Once(r, PoweringOff)
    BY <1>1, TailOnce
  <2> QED
    BY <1>5, <1>7, <1>10, <2>1, <2>2 DEF OffUntold
<1>16. Once(q, StartedUp) /\ (Has(q, StartedUp) <=> z.sm = "NULL")
       /\ (z.sm = "NULL" =>
             q[1] = StartedUp /\ z.ss.state = "limbo" /\ ~Has(q, PoweringOff))
  BY <1>10 DEF StartUnderWay
<1>17. Once(r, StartedUp) /\ (m = StartedUp => ~Has(r, StartedUp))
  BY <1>1, <1>16, TailOnce
<1>18. m # StartedUp <=> x.sm # "NULL"
  BY <1>2, <1>5, <1>7, <1>16
<1>19. ~Has(r, StartedUp)
  BY <1>7, <1>16, <1>17, <1>18, <1>5
<1>20. Steady(x)
  BY <1>4, <1>5, <1>10, <1>11, <1>13, <1>14, <1>15, <1>17, <1>19 DEF Steady
<1>21. OffUnderWay(x)
  BY <1>5, <1>7, <1>10 DEF OffUnderWay
<1>22. m # PoweredOn /\ m.k # "prompt" => OnUnderWay(x)
  BY <1>5, <1>7, <1>9, <1>10 DEF OnUnderWay
<1>23. m # PoweringOn => InLimbo(x)
  BY <1>5, <1>7, <1>10 DEF InLimbo
<1>24. m # PoweringOn /\ m.k # "detached" => LimboEnds(x)
  BY <1>5, <1>7, <1>9, <1>10 DEF LimboEnds
<1>25. m = PoweringOn => x.ss.state = "powering_on" /\ x.playing > 0
  BY <1>5, <1>7, <1>10 DEF OnUntold
<1>26. m = PoweringOff => x.ss.state \in {"powering_off", "limbo"} /\ ~Has(r, PoweringOff)
  <2>1. ASSUME m = PoweringOff
        PROVE  Once(q, PoweringOff) /\ z.ss.state \in {"powering_off", "limbo"}
    BY <1>7, <1>10, <2>1 DEF OffUntold
  <2>2. Once(q, PoweringOff) => (m = PoweringOff => ~Has(r, PoweringOff))
    BY <1>1, TailOnce
  <2> QED
    BY <1>5, <2>1, <2>2
<1>27. m.k = "attached" =>
         x.connected /\ ~HasKind(r, "charger_off") /\ ~Has(r, PoweringOn)
  <2>1. ASSUME m.k = "attached"
        PROVE  x.connected /\ ~HasKind(r, "charger_off") /\ ~Has(r, PoweringOn)
    <3>1. HasKind(q, "attached")
      BY <1>9, <2>1
    <3>2. x.connected /\ x.plugged
      BY <1>5, <1>10, <3>1 DEF ChargerKnown
    <3>3. ~HasKind(r, "charger_off")
      BY <1>13, <3>2 DEF ChargerKnown
    <3>4. Behind(q, "attached", PoweringOn) => (m.k = "attached" => ~Has(q, PoweringOn))
      BY <1>1, TailBehind
    <3>5. ~Has(r, PoweringOn)
      BY <1>7, <1>10, <2>1, <3>4 DEF OnUntold
    <3> QED
      BY <3>2, <3>3, <3>5
  <2> QED
    BY <2>1
<1>28. m = StartedUp => x.ss.state = "limbo" /\ ~Has(r, PoweringOff)
  BY <1>5, <1>7, <1>16, <1>18
<1>29. m.k # "prompt" => ~HasKind(r, "prompt")
  BY <1>9, <1>11
<1>30. m.k = "prompt" =>
          /\ x.sm = "POWERING_ON" => Has(r, PoweredOn) \/ x.ss.state = "powering_on"
          /\ ~Has(r, PoweringOn)
  <2>1. m.k = "prompt" => m # PoweredOn
    BY DEF PoweredOn, Change
  <2> QED
    BY <1>5, <1>7, <1>9, <1>10, <2>1 DEF OnUnderWay, OnUntold
<1> QED
  BY <1>5, <1>18, <1>20, <1>21, <1>22, <1>23, <1>24, <1>25, <1>26, <1>27, <1>28, <1>29, <1>30
  DEF Taken

\* A message that tells headset_sm nothing of the kind leaves the invariant.
LEMMA TakenGood ==
    ASSUME NEW x, NEW m, Taken(x, m),
           m # PoweredOn, m # PoweringOn, m # StartedUp, m.k # "prompt", m.k # "detached"
    PROVE  x \in States /\ Good(x)
<1>1. StartUnderWay(x)
  BY DEF Taken, Steady, StartUnderWay
<1> QED
  BY <1>1 DEF Taken, Steady, Good

-----------------------------------------------------------------------------
(* headset_sm changes its state *)

\* headset_sm turns to a state; nothing else moves that the invariant speaks
\* about, except what counts in limbo only.
Turns(x, y, new, mq) ==
    /\ y \in States
    /\ y.sm = new /\ y.alone = x.alone
    /\ y.plugged = x.plugged /\ y.connected = x.connected
    /\ y.on = x.on /\ y.ss = x.ss /\ y.playing = x.playing /\ y.mq = mq

\* Answering the power manager.
LEMMA ResponseMoves ==
    ASSUME NEW x \in States, NEW y, y = appPowerShutdownPrepareResponse(x)
    PROVE  /\ Turns(x, y, x.sm, x.mq)
           /\ y.limboTimer = x.limboTimer /\ (x.pm # "ok" <=> y.pm # "ok")
<1>1. CASE x.pm = "notified"
  <2>1. y = [x EXCEPT !.pm = "responded"]
    BY <1>1 DEF appPowerShutdownPrepareResponse
  <2>2. y \in States
    BY <2>1 DEF States
  <2>3. /\ y.sm = x.sm /\ y.alone = x.alone /\ y.plugged = x.plugged
        /\ y.connected = x.connected /\ y.on = x.on /\ y.ss = x.ss
        /\ y.playing = x.playing /\ y.mq = x.mq
        /\ y.limboTimer = x.limboTimer /\ y.pm = "responded"
    BY <2>1 DEF States
  <2> QED
    BY <1>1, <2>2, <2>3 DEF Turns
<1>2. CASE x.pm # "notified"
  BY <1>2 DEF appPowerShutdownPrepareResponse, Turns
<1> QED
  BY <1>1, <1>2

\* The state of headset_sm is given another value.
LEMMA SmType ==
    ASSUME NEW x \in States, NEW s \in SmStates
    PROVE  [x EXCEPT !.sm = s] \in States
BY DEF States

\* The timer that forces a power off is started or stopped.
LEMMA ForceMoves ==
    ASSUME NEW x \in States, NEW b \in BOOLEAN, NEW y, y = [x EXCEPT !.force = b]
    PROVE  Moves(x, y, x.ss, x.mq, x.playing)
<1>1. y \in States
  BY DEF States
<1>2. /\ y.sm = x.sm /\ y.alone = x.alone /\ y.limboTimer = x.limboTimer
      /\ y.plugged = x.plugged /\ y.connected = x.connected
      /\ y.pm = x.pm /\ y.on = x.on /\ y.playing = x.playing /\ y.ss = x.ss /\ y.mq = x.mq
  BY DEF States
<1> QED
  BY <1>1, <1>2 DEF Moves

\* The limbo timer and the request to switch on are set.
LEMMA LimboType ==
    ASSUME NEW x \in States, NEW b \in BOOLEAN, NEW f \in BOOLEAN
    PROVE  [x EXCEPT !.limboTimer = b, !.autoOn = f] \in States
BY DEF States

\* What headset_sm does when it leaves its state, with the new one set.
LEMMA LeaveState ==
    ASSUME NEW x \in States, NEW new \in SmStates,
           NEW left, left = CASE x.sm = "LIMBO" -> [x EXCEPT !.limboTimer = FALSE]
                              [] x.sm = "BUSY" -> StereoTopology_Start(x)
                              [] OTHER -> x,
           NEW y, y = [left EXCEPT !.sm = new]
    PROVE  Turns(x, y, new, x.mq) /\ y.pm = x.pm
<1>1. /\ left \in States /\ left.alone = x.alone
      /\ left.plugged = x.plugged /\ left.connected = x.connected /\ left.pm = x.pm
      /\ left.on = x.on /\ left.ss = x.ss /\ left.playing = x.playing /\ left.mq = x.mq
  <2>1. CASE x.sm = "LIMBO"
    <3> PICK b \in BOOLEAN : b = FALSE
      OBVIOUS
    <3>1. left = [x EXCEPT !.limboTimer = b]
      BY <2>1
    <3>2. left \in States
      BY <3>1 DEF States
    <3>3. /\ left.alone = x.alone
          /\ left.plugged = x.plugged /\ left.connected = x.connected /\ left.pm = x.pm
          /\ left.on = x.on /\ left.ss = x.ss /\ left.playing = x.playing /\ left.mq = x.mq
      BY <3>1 DEF States
    <3> QED
      BY <3>2, <3>3
  <2>2. CASE x.sm = "BUSY"
    <3>1. left = StereoTopology_Start(x)
      BY <2>2
    <3>2. Moves(x, left, x.ss, x.mq, x.playing)
      BY <3>1, TopologyStartMoves
    <3> QED
      BY <3>2 DEF Moves
  <2>3. CASE x.sm # "LIMBO" /\ x.sm # "BUSY"
    BY <2>3
  <2> QED
    BY <2>1, <2>2, <2>3
<1>2. y \in States
  BY <1>1, SmType
<1>3. /\ y.sm = new /\ y.alone = left.alone
      /\ y.plugged = left.plugged /\ y.connected = left.connected /\ y.pm = left.pm
      /\ y.on = left.on /\ y.ss = left.ss /\ y.playing = left.playing /\ y.mq = left.mq
  BY <1>1 DEF States
<1> QED
  BY <1>1, <1>2, <1>3 DEF Turns

\* headset_sm goes to a state other than limbo.
LEMMA SetStateTurns ==
    ASSUME NEW x \in States, NEW new \in SmStates, new # "LIMBO",
           NEW y, y = headsetSetState(x, new)
    PROVE  Turns(x, y, new, x.mq)
<1> PICK left : left = CASE x.sm = "LIMBO" -> [x EXCEPT !.limboTimer = FALSE]
                         [] x.sm = "BUSY" -> StereoTopology_Start(x)
                         [] OTHER -> x
  OBVIOUS
<1> PICK w : w = [left EXCEPT !.sm = new]
  OBVIOUS
<1>1. Turns(x, w, new, x.mq)
  BY LeaveState
<1>2. CASE new = "TERMINATING"
  <2> PICK v : v = appPowerShutdownPrepareResponse(w)
    OBVIOUS
  <2>1. w \in States /\ w.sm = new /\ w.mq = x.mq
    BY <1>1 DEF Turns
  <2>2. Turns(w, v, w.sm, w.mq)
    BY <2>1, ResponseMoves
  <2>3. y = [v EXCEPT !.force = TRUE]
    BY <1>2 DEF headsetSetState, headsetEnterTerminating
  <2>4. v \in States
    BY <2>2 DEF Turns
  <2>5. Moves(v, y, v.ss, v.mq, v.playing)
    <3>1. TRUE \in BOOLEAN
      OBVIOUS
    <3> QED
      BY <2>3, <2>4, <3>1, ForceMoves
  <2> QED
    BY <1>1, <2>2, <2>5 DEF Turns, Moves
<1>3. CASE new # "TERMINATING"
  <2>1. y = w
    BY <1>3 DEF headsetSetState
  <2> QED
    BY <1>1, <2>1
<1> QED
  BY <1>2, <1>3

\* headset_sm goes to limbo: its timer starts, and a headset that is to
\* switch on by itself sends itself a message.
LEMMA SetStateLimbo ==
    ASSUME NEW x \in States, NEW y, y = headsetSetState(x, "LIMBO")
    PROVE  \E v : /\ Turns(x, v, "LIMBO", x.mq) /\ v.limboTimer /\ v.pm = x.pm
                  /\ y = v \/ Moves(v, y, v.ss, Append(v.mq, Plain("ui_on")), v.playing)
<1> PICK left : left = CASE x.sm = "LIMBO" -> [x EXCEPT !.limboTimer = FALSE]
                         [] x.sm = "BUSY" -> StereoTopology_Start(x)
                         [] OTHER -> x
  OBVIOUS
<1> PICK w : w = [left EXCEPT !.sm = "LIMBO"]
  OBVIOUS
<1>0. "LIMBO" \in SmStates
  BY DEF SmStates
<1>1. Turns(x, w, "LIMBO", x.mq) /\ w.pm = x.pm
  BY <1>0, LeaveState, ZenonT(30)
<1>2. w \in States
  BY <1>1 DEF Turns
<1> PICK b, f \in BOOLEAN : b = TRUE /\ f = FALSE
  OBVIOUS
<1> PICK v : v = [w EXCEPT !.limboTimer = b, !.autoOn = f]
  OBVIOUS
<1>3. v \in States
  BY <1>2, LimboType
<1>4. /\ v.sm = w.sm /\ v.alone = w.alone /\ v.plugged = w.plugged
      /\ v.connected = w.connected /\ v.on = w.on /\ v.ss = w.ss /\ v.pm = w.pm
      /\ v.playing = w.playing /\ v.mq = w.mq /\ v.limboTimer = b
  BY <1>2 DEF States
<1>5. Turns(x, v, "LIMBO", x.mq) /\ v.limboTimer /\ v.pm = x.pm
  BY <1>1, <1>3, <1>4 DEF Turns
<1>6. y = headsetEnterLimbo(w)
  BY DEF headsetSetState
<1>7. y = v \/ y = Send(v, "ui_on")
  BY <1>6 DEF headsetEnterLimbo
<1>8. CASE y = Send(v, "ui_on")
  <2>1. Moves(v, y, v.ss, Append(v.mq, Plain("ui_on")), v.playing)
    BY <1>3, <1>8, SendMoves DEF Messages
  <2> QED
    BY <1>5, <2>1
<1>9. CASE y = v
  BY <1>5, <1>9
<1> QED
  BY <1>7, <1>8, <1>9

\* headset_sm turns to a state of which the invariant asks little.
LEMMA TurnGood ==
    ASSUME NEW x, NEW y, NEW new \in {"PAIRING", "IDLE", "BUSY", "TERMINATING"},
           Steady(x), Turns(x, y, new, x.mq)
    PROVE  Good(y)
<1>1. Coherent(y.ss) /\ ChargerKnown(y.mq, y.plugged, y.connected) /\ PromptsFirst(y.mq)
  BY DEF Steady, Turns
<1>2. OnUntold(y) /\ OnUnderWay(y)
  BY DEF Steady, Turns, OnUntold, OnUnderWay
<1>3. OffUntold(y) /\ OffUnderWay(y)
  BY DEF Steady, Turns, OffUntold, OffUnderWay
<1>4. StartUnderWay(y) /\ InLimbo(y) /\ LimboEnds(y)
  BY DEF Steady, Turns, StartUnderWay, InLimbo, LimboEnds
<1> QED
  BY <1>1, <1>2, <1>3, <1>4 DEF Good

\* It is told that the headset powers on.
LEMMA TurnOnGood ==
    ASSUME NEW x, NEW y, Steady(x), Turns(x, y, "POWERING_ON", x.mq),
           x.ss.state = "powering_on", x.playing > 0
    PROVE  Good(y)
<1>1. Coherent(y.ss) /\ ChargerKnown(y.mq, y.plugged, y.connected) /\ PromptsFirst(y.mq)
  BY DEF Steady, Turns
<1>2. OnUntold(y) /\ OnUnderWay(y)
  BY DEF Steady, Turns, OnUntold, OnUnderWay
<1>3. OffUntold(y) /\ OffUnderWay(y)
  BY DEF Steady, Turns, OffUntold, OffUnderWay
<1>4. StartUnderWay(y) /\ InLimbo(y) /\ LimboEnds(y)
  BY DEF Steady, Turns, StartUnderWay, InLimbo, LimboEnds
<1> QED
  BY <1>1, <1>2, <1>3, <1>4 DEF Good

\* It is told that the headset powers off.
LEMMA TurnOffGood ==
    ASSUME NEW x, NEW y, Steady(x), Turns(x, y, "POWERING_OFF", x.mq),
           x.ss.state \in {"powering_off", "limbo"}, ~Has(x.mq, PoweringOff)
    PROVE  Good(y)
<1>1. Coherent(y.ss) /\ ChargerKnown(y.mq, y.plugged, y.connected) /\ PromptsFirst(y.mq)
  BY DEF Steady, Turns
<1>2. OnUntold(y) /\ OnUnderWay(y)
  BY DEF Steady, Turns, OnUntold, OnUnderWay
<1>3. OffUntold(y) /\ OffUnderWay(y)
  BY DEF Steady, Turns, OffUntold, OffUnderWay
<1>4. StartUnderWay(y) /\ InLimbo(y) /\ LimboEnds(y)
  BY DEF Steady, Turns, StartUnderWay, InLimbo, LimboEnds
<1> QED
  BY <1>1, <1>2, <1>3, <1>4 DEF Good

\* It goes to limbo: by itself, or where system_state is already.
LEMMA TurnLimboGood ==
    ASSUME NEW x, NEW y, Steady(x), y = headsetSetState(x, "LIMBO"),
           Has(x.mq, PoweringOff) => x.connected,
           ~x.alone => x.ss.state = "limbo"
    PROVE  y \in States /\ y.on = x.on /\ y.ss = x.ss /\ y.sm = "LIMBO" /\ y.limboTimer /\ Good(y)
<1>1. x \in States
  BY DEF Steady
<1> PICK v : /\ Turns(x, v, "LIMBO", x.mq) /\ v.limboTimer /\ v.pm = x.pm
             /\ y = v \/ Moves(v, y, v.ss, Append(v.mq, Plain("ui_on")), v.playing)
  BY <1>1, SetStateLimbo
<1>2. Coherent(v.ss) /\ ChargerKnown(v.mq, v.plugged, v.connected) /\ PromptsFirst(v.mq)
  BY DEF Steady, Turns
<1>3. OnUntold(v) /\ OnUnderWay(v)
  BY DEF Steady, Turns, OnUntold, OnUnderWay
<1>4. OffUntold(v) /\ OffUnderWay(v)
  BY DEF Steady, Turns, OffUntold, OffUnderWay
<1>5. StartUnderWay(v) /\ InLimbo(v) /\ LimboEnds(v)
  BY DEF Steady, Turns, StartUnderWay, InLimbo, LimboEnds
<1>6. Good(v)
  BY <1>2, <1>3, <1>4, <1>5 DEF Good
<1>7. v \in States /\ v.on = x.on /\ v.ss = x.ss /\ v.sm = "LIMBO"
  BY DEF Turns
<1>8. CASE y = v
  BY <1>6, <1>7, <1>8
<1>9. CASE Moves(v, y, v.ss, Append(v.mq, Plain("ui_on")), v.playing)
  <2>1. Plain("ui_on") \in Message /\ Dull(Plain("ui_on"))
    BY PlainDull DEF Messages, ChargerKinds
  <2>2. Good(y)
    BY <1>6, <1>7, <1>9, <2>1, GoodSend
  <2> QED
    BY <1>7, <1>9, <2>2 DEF Moves
<1> QED
  BY <1>8, <1>9

\* The timer that allows a power off is started or ends.
LEMMA EnableMoves ==
    ASSUME NEW x \in States, NEW e \in {"no", "timer", "yes"},
           NEW y, y = [x EXCEPT !.enable = e]
    PROVE  Moves(x, y, x.ss, x.mq, x.playing)
<1>1. y \in States
  BY DEF States
<1>2. /\ y.sm = x.sm /\ y.alone = x.alone /\ y.limboTimer = x.limboTimer
      /\ y.plugged = x.plugged /\ y.connected = x.connected
      /\ y.pm = x.pm /\ y.on = x.on /\ y.playing = x.playing /\ y.ss = x.ss /\ y.mq = x.mq
  BY DEF States
<1> QED
  BY <1>1, <1>2 DEF Moves

\* A power off is put off or tried again.
LEMMA DelayedMoves ==
    ASSUME NEW x \in States, NEW b \in BOOLEAN, NEW y, y = [x EXCEPT !.delayed = b]
    PROVE  Moves(x, y, x.ss, x.mq, x.playing)
<1>1. y \in States
  BY DEF States
<1>2. /\ y.sm = x.sm /\ y.alone = x.alone /\ y.limboTimer = x.limboTimer
      /\ y.plugged = x.plugged /\ y.connected = x.connected
      /\ y.pm = x.pm /\ y.on = x.on /\ y.playing = x.playing /\ y.ss = x.ss /\ y.mq = x.mq
  BY DEF States
<1> QED
  BY <1>1, <1>2 DEF Moves

\* The power manager moves from one state that is not ok to another.
LEMMA PmGood ==
    ASSUME NEW x, NEW y, Good(x), Turns(x, y, x.sm, x.mq),
           y.limboTimer = x.limboTimer, x.pm # "ok" => y.pm # "ok"
    PROVE  Good(y)
<1>1. Coherent(y.ss) /\ ChargerKnown(y.mq, y.plugged, y.connected) /\ PromptsFirst(y.mq)
  BY DEF Good, Turns
<1>2. OnUntold(y) /\ OnUnderWay(y)
  BY DEF Good, Turns, OnUntold, OnUnderWay
<1>3. OffUntold(y) /\ OffUnderWay(y)
  BY DEF Good, Turns, OffUntold, OffUnderWay
<1>4. StartUnderWay(y) /\ InLimbo(y) /\ LimboEnds(y)
  BY DEF Good, Turns, StartUnderWay, InLimbo, LimboEnds
<1> QED
  BY <1>1, <1>2, <1>3, <1>4 DEF Good

-----------------------------------------------------------------------------
(* Handlers *)

\* Where every step leaves the headset.
Kept(y) == y \in States /\ (y.on => Good(y))

\* A message of no account is of no account to what has been taken.
LEMMA KindTaken ==
    ASSUME NEW x, NEW m, Taken(x, m), m.k \notin {"change", "prompt", "detached"}
    PROVE  Steady(x) /\ x \in States /\ Good(x) /\ ~HasKind(x.mq, "prompt")
<1>1. m # PoweredOn /\ m # PoweringOn /\ m # StartedUp
  BY ReportsDiffer DEF Reports
<1>2. x \in States /\ Good(x)
  BY <1>1, TakenGood
<1> QED
  BY <1>2 DEF Taken

\* The user's input: headset_sm ignores it while a charger is connected.
LEMMA UiInputKept ==
    ASSUME NEW x, NEW m, Taken(x, m), m.k \in {"ui_on", "ui_off", "ui_pair"},
           NEW y, y = headsetSmHandleUiInput(x, m.k)
    PROVE  Kept(y)
<1>1. x \in States /\ Good(x) /\ ~HasKind(x.mq, "prompt")
  BY KindTaken
<1>2. x.connected \in BOOLEAN
  BY <1>1 DEF States
<1>3. CASE y = x
  BY <1>1, <1>3 DEF Kept
<1>4. ASSUME NEW k \in {"power_off", "pair"}, y = Send(x, k)
      PROVE  Kept(y)
  <2>1. k \in Messages /\ k \notin ChargerKinds \cup {"prompt"}
    BY DEF Messages, ChargerKinds
  <2>2. Moves(x, y, x.ss, Append(x.mq, Plain(k)), x.playing)
    BY <1>1, <1>4, <2>1, SendMoves
  <2>3. Plain(k) \in Message /\ Dull(Plain(k))
    BY <2>1, PlainDull
  <2>4. Good(y)
    BY <1>1, <2>2, <2>3, GoodSend
  <2> QED
    BY <2>2, <2>4 DEF Kept, Moves
<1>5. ASSUME ~x.connected, y = headsetSmHandlePowerOn(x)
      PROVE  Kept(y)
  <2>1. CASE x.sm = "LIMBO"
    <3> PICK v : v = SystemState_PowerOn(x)
      OBVIOUS
    <3>1. v \in States /\ Good(v)
      BY <1>1, <1>5, <2>1, PowerOnGood
    <3> PICK e : e = IF v.enable = "no" THEN "timer" ELSE v.enable
      OBVIOUS
    <3>2. y = [v EXCEPT !.enable = e]
      BY <1>5, <2>1 DEF headsetSmHandlePowerOn
    <3>3. e \in {"no", "timer", "yes"}
      BY <3>1 DEF States
    <3>4. Moves(v, y, v.ss, v.mq, v.playing)
      BY <3>1, <3>2, <3>3, EnableMoves
    <3>5. Good(y)
      BY <3>1, <3>4, GoodStill
    <3> QED
      BY <3>4, <3>5 DEF Kept, Moves
  <2>2. CASE x.sm # "LIMBO"
    BY <1>3, <1>5, <2>2 DEF headsetSmHandlePowerOn
  <2> QED
    BY <2>1, <2>2
<1>6. CASE x.connected
  BY <1>3, <1>6 DEF headsetSmHandleUiInput
<1>7. CASE ~x.connected
  <2>1. CASE m.k = "ui_on"
    BY <1>5, <1>7, <2>1 DEF headsetSmHandleUiInput
  <2>2. CASE m.k = "ui_off"
    <3>1. y = Send(x, "power_off") \/ y = x
      BY <1>7, <2>2 DEF headsetSmHandleUiInput
    <3> QED
      BY <1>3, <1>4, <3>1
  <2>3. CASE m.k = "ui_pair"
    <3>1. y = Send(x, "pair")
      BY <1>7, <2>3 DEF headsetSmHandleUiInput
    <3> QED
      BY <1>4, <3>1
  <2> QED
    BY <2>1, <2>2, <2>3
<1> QED
  BY <1>6, <1>7

\* headset_sm goes to limbo, with a charger and without system_state.
LEMMA LimboByItself ==
    ASSUME NEW x, Steady(x), x.connected,
           NEW b \in BOOLEAN, ~b => x.ss.state = "limbo",
           NEW y, y = headsetSetState([x EXCEPT !.alone = b], "LIMBO")
    PROVE  y \in States /\ Good(y)
<1> PICK v : v = [x EXCEPT !.alone = b]
  OBVIOUS
<1>1. Steady(v) /\ v.ss = x.ss /\ v.mq = x.mq /\ v.connected = x.connected /\ v.alone = b
  <2>1. x \in States
    BY DEF Steady
  <2>2. v \in States
    BY <2>1 DEF States
  <2>3. /\ v.ss = x.ss /\ v.mq = x.mq /\ v.connected = x.connected
        /\ v.alone = b /\ v.plugged = x.plugged
        /\ v.sm = x.sm /\ v.playing = x.playing
    BY <2>1 DEF States
  <2>4. OnUntold(v) /\ OffUntold(v)
    BY <2>3 DEF Steady, OnUntold, OffUntold
  <2> QED
    BY <2>2, <2>3, <2>4 DEF Steady
<1>2. y = headsetSetState(v, "LIMBO")
  OBVIOUS
<1>3. (Has(v.mq, PoweringOff) => v.connected) /\ (~v.alone => v.ss.state = "limbo")
  BY <1>1
<1> QED
  BY <1>1, <1>2, <1>3, TurnLimboGood

\* A power off: it waits for the prompt, and with a charger headset_sm goes
\* to limbo by itself.
LEMMA PowerOffKept ==
    ASSUME NEW x, NEW m, Taken(x, m), m.k = "power_off", NEW y \in HandlePowerOff(x)
    PROVE  Kept(y)
<1>1. Steady(x) /\ x \in States /\ Good(x) /\ ~HasKind(x.mq, "prompt")
  BY KindTaken
<1>2. x.connected \in BOOLEAN /\ x.playing \in Nat
  BY <1>1 DEF States
<1>3. CASE y = [x EXCEPT !.delayed = TRUE]
  <2>1. Moves(x, y, x.ss, x.mq, x.playing)
    BY <1>1, <1>3, TRUE \in BOOLEAN, DelayedMoves
  <2>2. Good(y)
    BY <1>1, <2>1, GoodStill
  <2> QED
    BY <2>1, <2>2 DEF Kept, Moves
<1>4. CASE y = x
  BY <1>1, <1>4 DEF Kept
<1>5. CASE x.connected /\ y = EnterLimboWithCharger(x)
  <2>1. CASE x.ss.state = "limbo"
    <3>1. y = headsetSetState([x EXCEPT !.alone = FALSE], "LIMBO")
      BY <1>5, <2>1 DEF EnterLimboWithCharger
    <3> QED
      BY <1>1, <1>5, <2>1, <3>1, FALSE \in BOOLEAN, LimboByItself DEF Kept
  <2>2. CASE x.ss.state # "limbo"
    <3>1. y = headsetSetState([x EXCEPT !.alone = TRUE], "LIMBO")
      BY <1>5, <2>2 DEF EnterLimboWithCharger
    <3> QED
      BY <1>1, <1>5, <3>1, TRUE \in BOOLEAN, LimboByItself DEF Kept
  <2> QED
    BY <2>1, <2>2
<1>6. CASE x.playing = 0 /\ ~x.connected /\ x.sm \in AboveLimbo /\ y = SystemState_PowerOff(x)
  <2>1. ~Has(x.mq, PoweringOn)
    BY <1>1, <1>6 DEF Good, OnUntold
  <2>2. x.sm # "LIMBO"
    BY <1>6 DEF AboveLimbo
  <2>3. ~HasKind(x.mq, "charger_off")
    BY <1>1, <1>6 DEF Good, ChargerKnown
  <2>4. x.sm = "POWERING_ON" => Has(x.mq, PoweredOn)
    BY <1>1, <1>6 DEF Good, OnUnderWay
  <2>5. y \in States /\ Good(y)
    BY <1>1, <1>6, <2>1, <2>2, <2>3, <2>4, PowerOffGood
  <2> QED
    BY <2>5 DEF Kept
<1>7. \/ y = [x EXCEPT !.delayed = TRUE]
      \/ y = x
      \/ x.connected /\ y = EnterLimboWithCharger(x)
      \/ x.playing = 0 /\ ~x.connected /\ x.sm \in AboveLimbo /\ y = SystemState_PowerOff(x)
  BY <1>2 DEF HandlePowerOff
<1> QED
  BY <1>3, <1>4, <1>5, <1>6, <1>7

\* Requests to pair, ends of pairing and changes of the audio.
LEMMA UseKept ==
    ASSUME NEW x, NEW m, Taken(x, m), m.k \in {"pair", "pair_cfm", "audio"},
           NEW y, y \in {headsetSmHandleInternalPairHandset(x),
                         headsetSmHandlePairingPairConfirm(x), HandleAudio(x)}
    PROVE  Kept(y)
<1>1. Steady(x) /\ x \in States /\ Good(x)
  BY KindTaken
<1>2. ASSUME NEW new \in {"PAIRING", "IDLE", "BUSY", "TERMINATING"}, y = headsetSetState(x, new)
      PROVE  Kept(y)
  <2>1. new \in SmStates /\ new # "LIMBO"
    BY DEF SmStates
  <2>2. Turns(x, y, new, x.mq)
    BY <1>1, <1>2, <2>1, SetStateTurns
  <2>3. Good(y)
    BY <1>1, <2>2, TurnGood
  <2> QED
    BY <2>2, <2>3 DEF Kept, Turns
<1>3. CASE y = x
  BY <1>1, <1>3 DEF Kept
<1>4. \/ y = x \/ y = headsetSetState(x, "PAIRING")
      \/ y = headsetSetState(x, "IDLE") \/ y = headsetSetState(x, "BUSY")
  BY DEF headsetSmHandleInternalPairHandset, headsetSmHandlePairingPairConfirm, HandleAudio,
         headsetSmDetermineCoreState
<1> QED
  BY <1>2, <1>3, <1>4

\* The power manager asks headset_sm to prepare for the shutdown.
LEMMA PrepareKept ==
    ASSUME NEW x, NEW m, Taken(x, m), m.k = "prepare",
           NEW y, y = headsetSmHandlePowerShutdownPrepareInd(x)
    PROVE  Kept(y)
<1>1. Steady(x) /\ x \in States /\ Good(x)
  BY KindTaken
<1>2. CASE x.sm = "LIMBO"
  <2>1. y = appPowerShutdownPrepareResponse(x)
    BY <1>2 DEF headsetSmHandlePowerShutdownPrepareInd
  <2>2. /\ Turns(x, y, x.sm, x.mq)
        /\ y.limboTimer = x.limboTimer /\ (x.pm # "ok" <=> y.pm # "ok")
    BY <1>1, <2>1, ResponseMoves
  <2>3. Good(y)
    BY <1>1, <2>2, PmGood
  <2> QED
    BY <2>2, <2>3 DEF Kept, Turns
<1>3. CASE x.sm # "LIMBO"
  <2>1. y = headsetSetState(x, "TERMINATING")
    BY <1>3 DEF headsetSmHandlePowerShutdownPrepareInd
  <2>2. Turns(x, y, "TERMINATING", x.mq)
    BY <1>1, <2>1, SetStateTurns DEF SmStates
  <2>3. Good(y)
    BY <1>1, <2>2, TurnGood
  <2> QED
    BY <2>2, <2>3 DEF Kept, Turns
<1> QED
  BY <1>2, <1>3

\* A charger has come.
LEMMA AttachedKept ==
    ASSUME NEW x, NEW m, Taken(x, m), m.k = "attached", NEW y, y = HandleAttached(x)
    PROVE  Kept(y)
<1>1. x \in States /\ Good(x)
  BY KindTaken
<1>2. x.connected /\ ~HasKind(x.mq, "charger_off") /\ ~Has(x.mq, PoweringOn)
  BY DEF Taken
<1>3. CASE y = x
  BY <1>1, <1>3 DEF Kept
<1>4. CASE x.sm \in On \cup {"LIMBO"} /\ y = SystemState_PowerOff(x)
  <2>1. x.sm # "POWERING_ON"
    BY <1>4 DEF On
  <2>2. y \in States /\ Good(y)
    BY <1>1, <1>2, <1>4, <2>1, PowerOffGood
  <2> QED
    BY <2>2 DEF Kept
<1> QED
  BY <1>3, <1>4 DEF HandleAttached

\* A charger has gone: limbo ends, unless system_state is elsewhere.
LEMMA DetachedKept ==
    ASSUME NEW x, NEW m, Taken(x, m), m.k = "detached", NEW y, y = HandleDetached(x)
    PROVE  Kept(y)
<1>1. x \in States /\ Coherent(x.ss)
  BY DEF Taken, Steady
<1>2. m # PoweredOn /\ m # PoweringOn /\ m # StartedUp
  BY ReportsDiffer DEF Reports
<1>3. OnUnderWay(x) /\ InLimbo(x) /\ x.sm # "NULL"
  BY <1>2 DEF Taken
<1>4. ASSUME LimboEnds(x)
      PROVE  Good(x)
  <2>1. StartUnderWay(x)
    BY <1>3 DEF Taken, Steady, StartUnderWay
  <2> QED
    BY <1>3, <1>4, <2>1 DEF Taken, Steady, Good
<1>5. CASE x.sm = "LIMBO"
  <2>1. y = SystemState_Shutdown(x)
    BY <1>5 DEF HandleDetached, On
  <2>2. CASE x.ss.state = "limbo"
    BY <1>1, <2>1, <2>2, ShutdownMoves DEF Kept
  <2>3. CASE x.ss.state # "limbo"
    <3>1. y = x
      BY <1>1, <2>1, <2>3, ShutdownMoves
    <3>2. LimboEnds(x)
      BY <1>3, <2>3 DEF InLimbo, LimboEnds
    <3> QED
      BY <1>1, <1>4, <3>1, <3>2 DEF Kept
  <2> QED
    BY <2>2, <2>3
<1>6. CASE x.sm \in On
  <2>1. y = SystemState_EmergencyShutdown(x)
    BY <1>6 DEF HandleDetached, On
  <2> QED
    BY <1>1, <2>1, EmergencyMoves DEF Kept
<1>7. CASE x.sm # "LIMBO" /\ x.sm \notin On
  <2>1. y = x
    BY <1>7 DEF HandleDetached
  <2>2. LimboEnds(x)
    BY <1>7 DEF LimboEnds
  <2> QED
    BY <1>1, <1>4, <2>1, <2>2 DEF Kept
<1> QED
  BY <1>5, <1>6, <1>7

\* Confirmation id moves system_state from s to c.
Confirmed(s, id, c) ==
    /\ s.state = "powering_on" /\ id = "prompt" => c # s
    /\ c # s =>
         /\ c \in S!Contexts /\ c.limboRemoved = FALSE
         /\ c.changes = << <<s.state, c.state>> >>
         /\ Coherent(Context(c.state, c.transition, c.index, c.onCompletion))
         /\ \/ s.state = "powering_on" /\ id = "prompt" /\ c.state = "active"
            \/ s.state = "powering_off" /\ id = "stop_cfm" /\ c.state = "limbo"
            \/ s.state = c.state /\ c.state \in {"limbo", "active"}

\* What a confirmation does to system_state: it completes the transition that
\* waits for it, completes once more one that is at its end, or does nothing.
LEMMA ConfirmResult ==
    ASSUME NEW s, Coherent(s), NEW id \in {"prompt", "stop_cfm"},
           NEW c \in S!MessageHandler(s, id)
    PROVE  Confirmed(s, id, c)
<1> SUFFICES /\ s.state = "powering_on" /\ id = "prompt" => c # s
             /\ c # s =>
                  /\ c \in S!Contexts /\ c.limboRemoved = FALSE
                  /\ c.changes = << <<s.state, c.state>> >>
                  /\ Coherent(Context(c.state, c.transition, c.index, c.onCompletion))
                  /\ \/ s.state = "powering_on" /\ id = "prompt" /\ c.state = "active"
                     \/ s.state = "powering_off" /\ id = "stop_cfm" /\ c.state = "limbo"
                     \/ s.state = c.state /\ c.state \in {"limbo", "active"}
  BY DEF Confirmed
<1>1. /\ s \in S!Contexts /\ s.limboRemoved = FALSE /\ s.changes = << >>
      /\ s.state \in {"powering_on", "powering_off", "limbo", "active"}
  BY CoherentType
<1>2. /\ s.state = "powering_on" =>
           s.transition = "power_on" /\ s.index = 0 /\ s.onCompletion = "active"
      /\ s.state = "powering_off" =>
           s.transition = "power_off" /\ s.index = 0 /\ s.onCompletion = "limbo"
      /\ s.state = "limbo" =>
           /\ s.onCompletion = "limbo"
           /\ \/ s.transition = "startup"
              \/ s.transition = "power_off" /\ s.index \in Nat /\ s.index >= 2
      /\ s.state = "active" =>
           /\ s.onCompletion = "active"
           /\ s.transition = "power_on" /\ s.index \in Nat /\ s.index >= 3
  BY CoherentPaused
<1>3. /\ S!AsyncId("power_on", 0) = "prompt" /\ S!AsyncId("power_off", 0) = "stop_cfm"
      /\ Table["startup"] = << >> /\ Table["power_on"] # << >> /\ Table["power_off"] # << >>
  BY DEF S!AsyncId, Table
<1>4. S!Count("power_on") = 3 /\ S!Count("power_off") = 2
  BY TablePauses
<1>5. ASSUME s.transition \in {"power_on", "power_off"}, s.index \in Nat,
             c = S!DoTransition(s)
      PROVE  /\ c \in S!Contexts /\ c.limboRemoved = FALSE
             /\ c.changes = << <<s.state, c.state>> >> /\ c # s
             /\ c.state = s.onCompletion /\ c.transition = s.transition
             /\ c.onCompletion = s.onCompletion
             /\ c.index \in Nat /\ c.index >= S!Count(s.transition)
  <2> PICK i : i = s.index + 1
    OBVIOUS
  <2>1. i \in Nat /\ i >= 1
    BY <1>5
  <2>2. c = S!WalkFrom(s, i)
    BY <1>5 DEF S!DoTransition
  <2>3. /\ c \in S!Contexts /\ c.state = s.onCompletion
        /\ c.transition = s.transition /\ c.index \in Nat
        /\ c.index >= S!Count(s.transition)
        /\ c.onCompletion = s.onCompletion /\ c.limboRemoved = s.limboRemoved
        /\ c.changes = Append(s.changes, <<s.state, s.onCompletion>>)
    BY <1>1, <1>5, <2>1, <2>2, WalkEnds
  <2>4. c.changes = << <<s.state, c.state>> >>
    BY <1>1, <2>3
  <2>5. Len(c.changes) = 1 /\ Len(s.changes) = 0
    BY <1>1, <2>4
  <2>6. c # s
    BY <2>5
  <2> QED
    BY <1>1, <2>3, <2>4, <2>6
<1>6. CASE s.state = "powering_on"
  <2>1. c = IF id # "prompt" THEN s ELSE S!DoTransition(s)
    BY <1>2, <1>3, <1>4, <1>6 DEF S!MessageHandler, S!NoTransition
  <2>2. CASE id = "prompt"
    <3>0. s.index \in Nat /\ s.transition \in {"power_on", "power_off"}
      BY <1>2, <1>6, 0 \in Nat
    <3>1. c = S!DoTransition(s)
      BY <2>1, <2>2
    <3>2. /\ c \in S!Contexts /\ c.limboRemoved = FALSE
          /\ c.changes = << <<s.state, c.state>> >> /\ c # s
          /\ c.state = "active" /\ c.transition = "power_on" /\ c.onCompletion = "active"
          /\ c.index \in Nat /\ c.index >= 3
      BY <1>2, <1>4, <1>5, <1>6, <3>1, <3>0
    <3>3. Coherent(Context(c.state, c.transition, c.index, c.onCompletion))
      BY <3>2 DEF Coherent
    <3> QED
      BY <1>6, <2>2, <3>2, <3>3
  <2>3. CASE id # "prompt"
    BY <2>1, <2>3
  <2> QED
    BY <2>2, <2>3
<1>7. CASE s.state = "powering_off"
  <2>1. c = IF id # "stop_cfm" THEN s ELSE S!DoTransition(s)
    BY <1>2, <1>3, <1>4, <1>7 DEF S!MessageHandler, S!NoTransition
  <2>2. CASE id = "stop_cfm"
    <3>0. s.index \in Nat /\ s.transition \in {"power_on", "power_off"}
      BY <1>2, <1>7, 0 \in Nat
    <3>1. c = S!DoTransition(s)
      BY <2>1, <2>2
    <3>2. /\ c \in S!Contexts /\ c.limboRemoved = FALSE
          /\ c.changes = << <<s.state, c.state>> >> /\ c # s
          /\ c.state = "limbo" /\ c.transition = "power_off" /\ c.onCompletion = "limbo"
          /\ c.index \in Nat /\ c.index >= 2
      BY <1>2, <1>4, <1>5, <1>7, <3>1, <3>0
    <3>3. Coherent(Context(c.state, c.transition, c.index, c.onCompletion))
      BY <3>2 DEF Coherent
    <3> QED
      BY <1>7, <2>2, <3>2, <3>3
  <2>3. CASE id # "stop_cfm"
    BY <1>7, <2>1, <2>3
  <2> QED
    BY <2>2, <2>3
<1>8. CASE s.state = "limbo"
  <2>1. CASE s.transition = "startup"
    <3>1. c = s
      BY <1>3, <2>1 DEF S!MessageHandler
    <3> QED
      BY <1>8, <3>1
  <2>2. CASE s.transition = "power_off" /\ s.index \in Nat /\ s.index >= 2
    <3>1. c = s \/ c = S!DoTransition(s)
      BY <1>3, <1>4, <2>2 DEF S!MessageHandler, S!NoTransition
    <3>2. CASE c = s
      BY <1>8, <3>2
    <3>3. CASE c = S!DoTransition(s)
      <4>1. /\ c \in S!Contexts /\ c.limboRemoved = FALSE
            /\ c.changes = << <<s.state, c.state>> >> /\ c # s
            /\ c.state = "limbo" /\ c.transition = "power_off" /\ c.onCompletion = "limbo"
            /\ c.index \in Nat /\ c.index >= 2
        BY <1>2, <1>4, <1>5, <1>8, <2>2, <3>3
      <4>2. Coherent(Context(c.state, c.transition, c.index, c.onCompletion))
        BY <4>1 DEF Coherent
      <4> QED
        BY <1>8, <4>1, <4>2
    <3> QED
      BY <3>1, <3>2, <3>3
  <2> QED
    BY <1>2, <1>8, <2>1, <2>2
<1>9. CASE s.state = "active"
  <2>1. c = s \/ c = S!DoTransition(s)
    BY <1>2, <1>3, <1>4, <1>9 DEF S!MessageHandler, S!NoTransition
  <2>2. CASE c = s
    BY <1>9, <2>2
  <2>3. CASE c = S!DoTransition(s)
    <3>1. /\ c \in S!Contexts /\ c.limboRemoved = FALSE
          /\ c.changes = << <<s.state, c.state>> >> /\ c # s
          /\ c.state = "active" /\ c.transition = "power_on" /\ c.onCompletion = "active"
          /\ c.index \in Nat /\ c.index >= 3
      BY <1>2, <1>4, <1>5, <1>9, <2>3
    <3>2. Coherent(Context(c.state, c.transition, c.index, c.onCompletion))
      BY <3>1 DEF Coherent
    <3> QED
      BY <1>9, <3>1, <3>2
  <2> QED
    BY <2>1, <2>2, <2>3
<1> QED
  BY <1>1, <1>6, <1>7, <1>8, <1>9

\* A completion is reported behind what has been sent before.
LEMMA CompletedMoves ==
    ASSUME NEW x \in States, NEW c \in S!Contexts, c.limboRemoved = FALSE, c # x.ss,
           x.ss.state \in S!States, c.state \in {"limbo", "active"},
           c.changes = << <<x.ss.state, c.state>> >>,
           NEW y, y = SystemState(x, c)
    PROVE  Moves(x, y, Context(c.state, c.transition, c.index, c.onCompletion),
                 Append(x.mq, Change(x.ss.state, c.state)), x.playing)
<1> PICK a, b : a = x.ss.state /\ b = c.state
  OBVIOUS
<1>1. a \in S!States /\ b \in S!States
  BY DEF S!States, S!Stable
<1>2. CASE b = "active" /\ a = "powering_on"
  <2> PICK v : v = StereoTopology_Start(x)
    OBVIOUS
  <2>1. y = Told(v, c)
    BY <1>2 DEF SystemState
  <2>2. Moves(x, v, x.ss, x.mq, x.playing)
    BY TopologyStartMoves
  <2>3. v \in States /\ v.mq = x.mq /\ v.playing = x.playing
    BY <2>2 DEF Moves
  <2>4. Moves(v, y, Context(c.state, c.transition, c.index, c.onCompletion),
              Append(v.mq, Change(a, b)), v.playing)
    BY <1>1, <2>1, <2>3, ToldOne
  <2> QED
    BY <2>2, <2>3, <2>4, MovesTwice
<1>3. CASE ~(b = "active" /\ a = "powering_on")
  <2>1. y = Told(x, c)
    BY <1>3 DEF SystemState
  <2> QED
    BY <1>1, <2>1, ToldOne
<1> QED
  BY <1>2, <1>3

\* The prompt has ended: powering on is complete and headset_sm will read so.
LEMMA PromptKept ==
    ASSUME NEW x, NEW m, Taken(x, m), m.k = "prompt", NEW y \in Confirm(x, "prompt")
    PROVE  Kept(y)
<1>1. Steady(x) /\ x \in States /\ Coherent(x.ss) /\ x.mq \in Seq(Message)
  BY DEF Taken, Steady, States
<1>2. m # PoweredOn /\ m # PoweringOn /\ m # StartedUp
  BY ReportsDiffer DEF Reports
<1>3. /\ OffUnderWay(x) /\ InLimbo(x) /\ LimboEnds(x) /\ x.sm # "NULL"
      /\ x.sm = "POWERING_ON" => Has(x.mq, PoweredOn) \/ x.ss.state = "powering_on"
      /\ ~Has(x.mq, PoweringOn)
  BY <1>2 DEF Taken
<1> PICK c \in S!MessageHandler(x.ss, "prompt") :
      y = IF c = x.ss THEN x ELSE SystemState(x, c)
  BY DEF Confirm
<1>4. /\ x.ss.state = "powering_on" => c # x.ss
      /\ c # x.ss =>
           /\ c \in S!Contexts /\ c.limboRemoved = FALSE
           /\ c.changes = << <<x.ss.state, c.state>> >>
           /\ Coherent(Context(c.state, c.transition, c.index, c.onCompletion))
           /\ \/ x.ss.state = "powering_on" /\ c.state = "active"
              \/ x.ss.state = c.state /\ c.state \in {"limbo", "active"}
  <2>1. Confirmed(x.ss, "prompt", c)
    BY <1>1, ConfirmResult
  <2> QED
    BY <2>1 DEF Confirmed
<1>5. ASSUME x.ss.state # "powering_on"
      PROVE  Good(x)
  <2>1. OnUnderWay(x)
    BY <1>3, <1>5 DEF OnUnderWay
  <2>2. StartUnderWay(x)
    BY <1>1, <1>3 DEF Steady, StartUnderWay
  <2> QED
    BY <1>1, <1>3, <2>1, <2>2 DEF Steady, Good
<1>6. CASE c = x.ss
  BY <1>1, <1>4, <1>5, <1>6 DEF Kept
<1>7. CASE c # x.ss
  <2> PICK a, b : a = x.ss.state /\ b = c.state
    OBVIOUS
  <2>1. a \in S!States /\ b \in S!States /\ b \in {"limbo", "active"}
    BY <1>4, <1>7 DEF S!States, S!Stable, S!Transitional
  <2>2. y = SystemState(x, c)
    BY <1>7
  <2>3. Moves(x, y, Context(c.state, c.transition, c.index, c.onCompletion),
              Append(x.mq, Change(a, b)), x.playing)
    BY <1>1, <1>4, <1>7, <2>1, <2>2, CompletedMoves
  <2>4. /\ y \in States /\ y.ss = Context(c.state, c.transition, c.index, c.onCompletion)
        /\ y.mq = Append(x.mq, Change(a, b)) /\ Coherent(y.ss) /\ y.ss.state = b
    BY <1>4, <1>7, <2>3 DEF Moves, Context
  <2>5. CASE a = b
    <3>1. Change(a, b) \in Message /\ Dull(Change(a, b))
      BY <2>1, <2>5, ChangeDull
    <3>2. Alike(x.mq, y.mq)
      BY <1>1, <2>4, <3>1, SendAlike
    <3>3. Moves(x, y, y.ss, y.mq, x.playing)
      BY <2>3, <2>4
    <3>4. Good(x)
      BY <1>5, <2>1, <2>5
    <3>5. Good(y)
      BY <2>4, <2>5, <3>2, <3>3, <3>4, GoodContext
    <3> QED
      BY <2>4, <3>5 DEF Kept
  <2>6. CASE a = "powering_on" /\ b = "active"
    <3>1. Change(a, b) = PoweredOn /\ PoweredOn \in Message /\ PoweredOn.k = "change"
      BY <2>6, ReportsDiffer DEF PoweredOn, Reports
    <3> PICK q, r : q = x.mq /\ r = Append(q, PoweredOn)
      OBVIOUS
    <3>2. /\ y.sm = x.sm /\ y.alone = x.alone /\ y.plugged = x.plugged
          /\ y.connected = x.connected /\ y.mq = r
      BY <2>3, <3>1 DEF Moves
    <3>3. SameKinds(q, r)
      BY <1>1, <3>1, ReportKinds DEF Steady, ChargerKnown
    <3>4. ChargerKnown(r, y.plugged, y.connected) /\ PromptsFirst(r)
      BY <1>1, <3>2, <3>3, KnownSameKinds DEF SameKinds, Steady
    <3>5. /\ Has(r, PoweringOn) <=> Has(q, PoweringOn)
          /\ Has(r, PoweringOff) <=> Has(q, PoweringOff)
          /\ Has(r, StartedUp) <=> Has(q, StartedUp)
          /\ Has(r, PoweredOn)
      BY <1>1, <3>1, AppendHas, ReportsDiffer
    <3>6. Once(r, StartedUp)
      BY <1>1, <3>1, AppendOnce, ReportsDiffer DEF Steady
    <3>7. OnUntold(y) /\ OnUnderWay(y)
      BY <1>3, <3>2, <3>5 DEF OnUntold, OnUnderWay
    <3>8. OffUntold(y) /\ OffUnderWay(y)
      BY <1>1, <1>3, <2>6, <3>2, <3>5 DEF Steady, OffUntold, OffUnderWay
    <3>9. StartUnderWay(y)
      BY <1>1, <1>3, <3>2, <3>5, <3>6 DEF Steady, StartUnderWay
    <3>10. InLimbo(y) /\ LimboEnds(y)
      BY <1>3, <2>6, <3>2 DEF InLimbo, LimboEnds
    <3>11. Good(y)
      BY <2>4, <3>2, <3>4, <3>7, <3>8, <3>9, <3>10 DEF Good
    <3> QED
      BY <2>4, <3>11 DEF Kept
  <2> QED
    BY <1>4, <1>7, <2>5, <2>6
<1> QED
  BY <1>6, <1>7

\* headset_sm asks the power manager to switch off.
LEMMA RequestMoves ==
    ASSUME NEW x \in States, NEW y, y = appPowerOffRequest(x)
    PROVE  /\ y \in States /\ y.sm = x.sm /\ y.alone = x.alone /\ y.on = x.on
           /\ y.limboTimer = x.limboTimer /\ y.plugged = x.plugged
           /\ y.connected = x.connected /\ y.ss = x.ss /\ y.playing = x.playing
           /\ x.pm # "ok" => y.pm # "ok"
           /\ x.connected \/ y.pm # "ok"
           /\ Alike(x.mq, y.mq)
<1>1. x.mq \in Seq(Message)
  BY DEF States
<1>2. CASE ~x.connected /\ x.pm = "ok"
  <2> PICK v : v = [x EXCEPT !.pm = "notified"]
    OBVIOUS
  <2>1. v \in States
    BY DEF States
  <2>2. /\ v.sm = x.sm /\ v.alone = x.alone /\ v.on = x.on
        /\ v.limboTimer = x.limboTimer /\ v.plugged = x.plugged
        /\ v.connected = x.connected /\ v.ss = x.ss /\ v.playing = x.playing
        /\ v.pm = "notified" /\ v.mq = x.mq
    BY DEF States
  <2>3. y = Send(v, "prepare")
    BY <1>2 DEF appPowerOffRequest
  <2>4. Moves(v, y, v.ss, Append(v.mq, Plain("prepare")), v.playing)
    BY <2>1, <2>3, SendMoves DEF Messages
  <2>5. Plain("prepare") \in Message /\ Dull(Plain("prepare"))
    BY PlainDull DEF Messages, ChargerKinds
  <2>6. Alike(x.mq, y.mq)
    BY <1>1, <2>2, <2>4, <2>5, SendAlike DEF Moves
  <2> QED
    BY <2>2, <2>4, <2>6 DEF Moves
<1>3. CASE ~(~x.connected /\ x.pm = "ok")
  <2>1. y = x
    BY <1>3 DEF appPowerOffRequest
  <2> QED
    BY <1>1, <1>3, <2>1, AlikeSame
<1> QED
  BY <1>2, <1>3

\* The topology has stopped and headset_sm is powering off: it goes to limbo
\* and asks the power manager to switch off.
LEMMA StopHandler ==
    ASSUME NEW x \in States, x.sm = "POWERING_OFF",
           NEW y, y = headetSmHandleTopologyStopCfm(x)
    PROVE  /\ y \in States /\ y.sm = "LIMBO" /\ ~y.alone /\ y.on = x.on
           /\ y.limboTimer /\ y.plugged = x.plugged
           /\ y.connected = x.connected /\ y.ss = x.ss /\ y.playing = x.playing
           /\ Alike(x.mq, y.mq)
<1> PICK b \in BOOLEAN : b = FALSE
  OBVIOUS
<1> PICK x1 : x1 = [x EXCEPT !.alone = b]
  OBVIOUS
<1>1. x1 \in States
  BY DEF States
<1>2. /\ x1.plugged = x.plugged /\ x1.connected = x.connected /\ x1.on = x.on
      /\ x1.ss = x.ss /\ x1.playing = x.playing /\ x1.mq = x.mq /\ x1.alone = b
  BY DEF States
<1> PICK x2 : x2 = headsetSetState(x1, "LIMBO")
  OBVIOUS
<1> PICK v : /\ Turns(x1, v, "LIMBO", x1.mq) /\ v.limboTimer /\ v.pm = x1.pm
             /\ x2 = v \/ Moves(v, x2, v.ss, Append(v.mq, Plain("ui_on")), v.playing)
  BY <1>1, SetStateLimbo
<1>3. x.mq \in Seq(Message) /\ v.mq = x.mq
  BY <1>2 DEF States, Turns
<1>4. Alike(x.mq, x2.mq)
  <2>1. CASE x2 = v
    BY <1>3, <2>1, AlikeSame
  <2>2. CASE Moves(v, x2, v.ss, Append(v.mq, Plain("ui_on")), v.playing)
    <3>1. Plain("ui_on") \in Message /\ Dull(Plain("ui_on"))
      BY PlainDull DEF Messages, ChargerKinds
    <3> QED
      BY <1>3, <2>2, <3>1, SendAlike DEF Moves
  <2> QED
    BY <2>1, <2>2
<1>5. /\ x2 \in States /\ x2.sm = "LIMBO" /\ x2.alone = b /\ x2.on = x.on
      /\ x2.limboTimer /\ x2.plugged = x.plugged
      /\ x2.connected = x.connected /\ x2.ss = x.ss /\ x2.playing = x.playing
  BY <1>2, ZenonT(30) DEF Turns, Moves
<1>6. y = appPowerOffRequest(x2)
  BY DEF headetSmHandleTopologyStopCfm
<1>7. /\ y \in States /\ y.sm = x2.sm /\ y.alone = x2.alone /\ y.on = x2.on
      /\ y.limboTimer = x2.limboTimer /\ y.plugged = x2.plugged
      /\ y.connected = x2.connected /\ y.ss = x2.ss /\ y.playing = x2.playing
      /\ Alike(x2.mq, y.mq)
  BY <1>5, <1>6, RequestMoves
<1>8. Alike(x.mq, y.mq)
  BY <1>4, <1>7, AlikeTrans
<1> QED
  BY <1>5, <1>7, <1>8

\* The topology has stopped.
LEMMA StopCfmKept ==
    ASSUME NEW x, NEW m, Taken(x, m), m.k = "stop_cfm", NEW y \in Confirm(x, "stop_cfm")
    PROVE  Kept(y)
<1>1. Steady(x) /\ x \in States /\ Good(x)
  BY KindTaken
<1>2. Coherent(x.ss) /\ x.mq \in Seq(Message)
  BY <1>1 DEF Good, States
<1> PICK h : h = headetSmHandleTopologyStopCfm(x)
  OBVIOUS
<1> PICK c \in S!MessageHandler(x.ss, "stop_cfm") :
      y = IF c = x.ss THEN x ELSE SystemState(h, c)
  BY DEF Confirm
<1>3. CASE c = x.ss
  BY <1>1, <1>3 DEF Kept
<1>4. CASE c # x.ss
  <2> PICK a, b : a = x.ss.state /\ b = c.state
    OBVIOUS
  <2>1. /\ c \in S!Contexts /\ c.limboRemoved = FALSE
        /\ c.changes = << <<a, b>> >>
        /\ Coherent(Context(c.state, c.transition, c.index, c.onCompletion))
        /\ \/ a = "powering_off" /\ b = "limbo"
           \/ a = b /\ b \in {"limbo", "active"}
    <3>1. Confirmed(x.ss, "stop_cfm", c)
      BY <1>2, ConfirmResult
    <3> QED
      BY <1>4, <3>1 DEF Confirmed
  <2>2. a \in S!States /\ b \in S!States /\ b \in {"limbo", "active"}
    BY <2>1 DEF S!States, S!Stable, S!Transitional
  <2>3. Change(a, b) \in Message /\ Dull(Change(a, b))
    <3>1. <<a, b>> \notin {<<"starting_up", "limbo">>, <<"limbo", "powering_on">>,
                           <<"powering_on", "active">>, <<"active", "powering_off">>}
      BY <2>1
    <3> QED
      BY <2>2, <3>1, ChangeDull
  <2>4. y = SystemState(h, c)
    BY <1>4
  <2>5. ASSUME h \in States, h.ss = x.ss
        PROVE  /\ Moves(h, y, y.ss, y.mq, h.playing)
               /\ y.ss.state = b /\ Coherent(y.ss) /\ Alike(h.mq, y.mq)
    <3>1. Moves(h, y, Context(c.state, c.transition, c.index, c.onCompletion),
                Append(h.mq, Change(a, b)), h.playing)
      <4>1. h.ss.state = a /\ c # h.ss
        BY <1>4, <2>5
      <4> QED
        BY <2>1, <2>2, <2>4, <2>5, <4>1, CompletedMoves
    <3>2. /\ y.ss = Context(c.state, c.transition, c.index, c.onCompletion)
          /\ y.mq = Append(h.mq, Change(a, b))
      BY <3>1 DEF Moves
    <3>3. h.mq \in Seq(Message)
      BY <2>5 DEF States
    <3>4. Alike(h.mq, y.mq)
      BY <2>3, <3>2, <3>3, SendAlike
    <3>5. y.ss.state = b
      BY <3>2 DEF Context
    <3> QED
      BY <2>1, <3>1, <3>2, <3>4, <3>5
  <2>6. CASE x.sm # "POWERING_OFF"
    <3>1. h = x
      BY <2>6 DEF headetSmHandleTopologyStopCfm
    <3>2. /\ Moves(x, y, y.ss, y.mq, x.playing)
          /\ y.ss.state = b /\ Coherent(y.ss) /\ Alike(x.mq, y.mq)
      BY <1>1, <2>5, <3>1
    <3>3. Good(y)
      BY <1>1, <2>1, <2>6, <3>2, GoodContext
    <3> QED
      BY <3>2, <3>3 DEF Kept, Moves
  <2>7. CASE x.sm = "POWERING_OFF"
    <3>1. /\ h \in States /\ h.sm = "LIMBO" /\ ~h.alone /\ h.on = x.on
          /\ h.limboTimer /\ h.plugged = x.plugged
          /\ h.connected = x.connected /\ h.ss = x.ss /\ h.playing = x.playing
          /\ Alike(x.mq, h.mq)
      BY <1>1, <2>7, StopHandler
    <3>2. /\ Moves(h, y, y.ss, y.mq, h.playing)
          /\ y.ss.state = b /\ Coherent(y.ss) /\ Alike(h.mq, y.mq)
      BY <2>5, <3>1
    <3> PICK q, r : q = x.mq /\ r = y.mq
      OBVIOUS
    <3>3. Alike(q, r)
      BY <3>1, <3>2, AlikeTrans
    <3>4. /\ y \in States /\ y.sm = "LIMBO" /\ y.limboTimer
          /\ y.plugged = x.plugged /\ y.connected = x.connected
      BY <3>1, <3>2 DEF Moves
    <3>5. a \in {"powering_off", "limbo"} /\ ~Has(q, PoweringOff)
      BY <1>1, <2>7 DEF Good, OffUnderWay
    <3>6. ~Has(q, PoweringOn) /\ ~Has(q, StartedUp) /\ Once(q, StartedUp)
      BY <1>1, <2>7, <3>5 DEF Good, OnUntold, StartUnderWay
    <3>7. /\ ~Has(r, PoweringOff) /\ ~Has(r, PoweringOn) /\ ~Has(r, StartedUp)
          /\ Once(r, StartedUp)
      BY <3>3, <3>5, <3>6 DEF Alike, Reports
    <3>8. SameKinds(q, r)
      BY <1>1, <3>3 DEF Alike, SameKinds, Good, ChargerKnown
    <3>9. ChargerKnown(r, y.plugged, y.connected) /\ PromptsFirst(r)
      BY <1>1, <3>4, <3>8, KnownSameKinds DEF Good, SameKinds
    <3>10. b = "limbo"
      BY <2>1, <3>5
    <3>11. OnUntold(y) /\ OnUnderWay(y) /\ OffUntold(y) /\ OffUnderWay(y)
      BY <3>4, <3>7 DEF OnUntold, OnUnderWay, OffUntold, OffUnderWay
    <3>12. StartUnderWay(y) /\ InLimbo(y) /\ LimboEnds(y)
      BY <3>2, <3>4, <3>7, <3>10 DEF StartUnderWay, InLimbo, LimboEnds
    <3>13. Good(y)
      BY <3>2, <3>9, <3>11, <3>12 DEF Good
    <3> QED
      BY <3>4, <3>13 DEF Kept
  <2> QED
    BY <2>6, <2>7
<1> QED
  BY <1>3, <1>4

\* headset_sm is to be switched on when it gets to limbo, or not.
LEMMA AutoOnMoves ==
    ASSUME NEW x \in States, NEW b \in BOOLEAN, NEW y, y = [x EXCEPT !.autoOn = b]
    PROVE  Moves(x, y, x.ss, x.mq, x.playing)
<1>1. y \in States
  BY DEF States
<1>2. /\ y.sm = x.sm /\ y.alone = x.alone /\ y.limboTimer = x.limboTimer
      /\ y.plugged = x.plugged /\ y.connected = x.connected
      /\ y.pm = x.pm /\ y.on = x.on /\ y.playing = x.playing /\ y.ss = x.ss /\ y.mq = x.mq
  BY DEF States
<1> QED
  BY <1>1, <1>2 DEF Moves

\* headset_sm reads a report of system_state.
LEMMA ChangeKept ==
    ASSUME NEW x, NEW m \in Message, Taken(x, m), m.k = "change",
           NEW y \in headsetSmHandleSystemStateChange(x, m.old, m.new)
    PROVE  Kept(y)
<1>1. Steady(x) /\ x \in States /\ Coherent(x.ss)
  BY DEF Taken, Steady
<1>2. m = Change(m.old, m.new)
  BY DEF Message, Change
<1>3. ASSUME NEW new \in {"PAIRING", "IDLE"}, y = headsetSetState(x, new)
      PROVE  Kept(y)
  <2>1. new \in SmStates /\ new # "LIMBO"
    BY DEF SmStates
  <2>2. Turns(x, y, new, x.mq)
    BY <1>1, <1>3, <2>1, SetStateTurns
  <2>3. Good(y)
    BY <1>1, <2>2, TurnGood
  <2> QED
    BY <2>2, <2>3 DEF Kept, Turns
<1>4. CASE m.old = "starting_up" /\ m.new = "limbo"
  <2>1. m = StartedUp
    BY <1>2, <1>4 DEF StartedUp
  <2> PICK v : v = [x EXCEPT !.autoOn = ~x.connected]
    OBVIOUS
  <2>2. y = headsetSetState(v, "LIMBO")
    BY <1>4 DEF headsetSmHandleSystemStateChange
  <2>3. x.connected \in BOOLEAN
    BY <1>1 DEF States
  <2> PICK b \in BOOLEAN : v = [x EXCEPT !.autoOn = b]
    BY <2>3
  <2>4. Moves(x, v, x.ss, x.mq, x.playing)
    BY <1>1, AutoOnMoves
  <2>5. Steady(v)
    BY <1>1, <2>4 DEF Moves, Steady, OnUntold, OffUntold
  <2>6. v.ss.state = "limbo" /\ ~Has(v.mq, PoweringOff)
    BY <2>1, <2>4 DEF Taken, Moves
  <2> QED
    BY <2>2, <2>5, <2>6, TurnLimboGood DEF Kept
<1>5. CASE m.old = "limbo" /\ m.new = "powering_on"
  <2>1. m = PoweringOn
    BY <1>2, <1>5 DEF PoweringOn
  <2>2. y = headsetSetState(x, "POWERING_ON")
    BY <1>5 DEF headsetSmHandleSystemStateChange
  <2>3. Turns(x, y, "POWERING_ON", x.mq)
    BY <1>1, <2>2, SetStateTurns DEF SmStates
  <2>4. x.ss.state = "powering_on" /\ x.playing > 0
    BY <2>1 DEF Taken
  <2>5. Good(y)
    BY <1>1, <2>3, <2>4, TurnOnGood
  <2> QED
    BY <2>3, <2>5 DEF Kept, Turns
<1>6. CASE m.old = "powering_on" /\ m.new = "active"
  <2>1. y = headsetSetState(x, "IDLE") \/ y = headsetSetState(x, "PAIRING")
    BY <1>6 DEF headsetSmHandleSystemStateChange, headsetSmHandlePoweredOn
  <2> QED
    BY <1>3, <2>1
<1>7. CASE m.old = "active" /\ m.new = "powering_off"
  <2>1. m = PoweringOff
    BY <1>2, <1>7 DEF PoweringOff
  <2>2. y = headsetSetState(x, "POWERING_OFF")
    BY <1>7 DEF headsetSmHandleSystemStateChange
  <2>3. Turns(x, y, "POWERING_OFF", x.mq)
    BY <1>1, <2>2, SetStateTurns DEF SmStates
  <2>4. x.ss.state \in {"powering_off", "limbo"} /\ ~Has(x.mq, PoweringOff)
    BY <2>1 DEF Taken
  <2>5. Good(y)
    BY <1>1, <2>3, <2>4, TurnOffGood
  <2> QED
    BY <2>3, <2>5 DEF Kept, Turns
<1>8. CASE /\ ~(m.old = "starting_up" /\ m.new = "limbo")
           /\ ~(m.old = "limbo" /\ m.new = "powering_on")
           /\ ~(m.old = "powering_on" /\ m.new = "active")
           /\ ~(m.old = "active" /\ m.new = "powering_off")
  <2>1. y = x
    BY <1>8 DEF headsetSmHandleSystemStateChange
  <2>2. m # StartedUp /\ m # PoweringOn /\ m # PoweredOn
    BY <1>8 DEF StartedUp, PoweringOn, PoweredOn, Change
  <2>3. x \in States /\ Good(x)
    BY <2>2, TakenGood
  <2> QED
    BY <2>1, <2>3 DEF Kept
<1> QED
  BY <1>4, <1>5, <1>6, <1>7, <1>8

-----------------------------------------------------------------------------
(* The charger monitor *)

\* The charger monitor takes the message of the socket and sends its own: the
\* reports stay as they are, and its message is the only one about a charger.
LEMMA SwapCharger ==
    ASSUME NEW q \in Seq(Message), q # << >>, PromptsFirst(q), OneCharger(q),
           Head(q).k \in {"charger_on", "charger_off"},
           NEW k \in {"attached", "detached"}, NEW s, s = Append(Tail(q), Plain(k))
    PROVE  /\ s \in Seq(Message)
           /\ \A m \in Reports : Has(s, m) <=> Has(q, m)
           /\ ~HasKind(q, "prompt") /\ PromptsFirst(s)
           /\ OneCharger(s)
           /\ \A c \in ChargerKinds : HasKind(s, c) <=> c = k
           /\ Behind(q, "attached", PoweringOn) => Behind(s, "attached", PoweringOn)
           /\ Behind(q, "charger_off", PoweringOff) => Behind(s, "charger_off", PoweringOff)
           /\ Once(q, StartedUp) => Once(s, StartedUp)
           /\ Once(q, PoweringOff) => Once(s, PoweringOff)
           /\ Head(q).k = "charger_off" /\ Behind(q, "charger_off", PoweringOff) =>
                ~Has(q, PoweringOff)
<1> PICK r, n, m : r = Tail(q) /\ n = Plain(k) /\ m = Head(q)
  OBVIOUS
<1>1. r \in Seq(Message) /\ m \in Message /\ s = Append(r, n)
  BY RestOfQueue
<1>2. n \in Message /\ n.k = k
  BY PlainType DEF Messages, Plain
<1>3. s \in Seq(Message)
  BY <1>1, <1>2
<1>4. \A c \in Reports : m # c /\ n # c
  BY <1>2, ReportsDiffer
<1>5. m # PoweringOn /\ m # PoweringOff /\ n # PoweringOn /\ n # PoweringOff /\ n # StartedUp
  BY <1>4 DEF Reports
<1>6. ASSUME NEW c \in Reports
      PROVE  Has(s, c) <=> Has(q, c)
  <2>1. Has(q, c) <=> m = c \/ Has(r, c)
    BY TailHas
  <2>2. Has(Append(r, n), c) <=> Has(r, c) \/ n = c
    BY <1>1, <1>2, AppendHas
  <2> QED
    BY <1>1, <1>4, <2>1, <2>2
<1>7. PromptsFirst(r) /\ ~HasKind(q, "prompt")
  <2>1. m.k # "prompt"
    OBVIOUS
  <2> QED
    BY <2>1, TailPrompts
<1>8. PromptsFirst(s)
  BY <1>1, <1>2, <1>7, AppendPrompts
<1>9. OneCharger(r) /\ \A c \in ChargerKinds : ~HasKind(r, c)
  <2>1. m.k \in ChargerKinds
    BY DEF ChargerKinds
  <2> QED
    BY <2>1, TailCharger
<1>10. OneCharger(s)
  BY <1>1, <1>2, <1>9, AppendCharger
<1>11. ASSUME NEW c \in ChargerKinds
       PROVE  HasKind(s, c) <=> c = k
  <2>1. HasKind(Append(r, n), c) <=> HasKind(r, c) \/ n.k = c
    BY <1>1, <1>2, AppendHasKind
  <2> QED
    BY <1>1, <1>2, <1>9, <2>1
<1>12. Behind(q, "attached", PoweringOn) => Behind(s, "attached", PoweringOn)
  <2>1. Behind(q, "attached", PoweringOn) => Behind(r, "attached", PoweringOn)
    BY TailBehind
  <2>2. Behind(r, "attached", PoweringOn) => Behind(s, "attached", PoweringOn)
    BY <1>1, <1>2, <1>5, AppendBehind
  <2> QED
    BY <2>1, <2>2
<1>13. Behind(q, "charger_off", PoweringOff) => Behind(s, "charger_off", PoweringOff)
  <2>1. Behind(q, "charger_off", PoweringOff) => Behind(r, "charger_off", PoweringOff)
    BY TailBehind
  <2>2. Behind(r, "charger_off", PoweringOff) => Behind(s, "charger_off", PoweringOff)
    BY <1>1, <1>2, <1>5, AppendBehind
  <2> QED
    BY <2>1, <2>2
<1>14. Once(q, StartedUp) => Once(s, StartedUp)
  <2>1. Once(q, StartedUp) => Once(r, StartedUp)
    BY TailOnce
  <2>2. Once(r, StartedUp) => Once(s, StartedUp)
    BY <1>1, <1>2, <1>5, AppendOnce
  <2> QED
    BY <2>1, <2>2
<1>15. Once(q, PoweringOff) => Once(s, PoweringOff)
  <2>1. Once(q, PoweringOff) => Once(r, PoweringOff)
    BY TailOnce
  <2>2. Once(r, PoweringOff) => Once(s, PoweringOff)
    BY <1>1, <1>2, <1>5, AppendOnce
  <2> QED
    BY <2>1, <2>2
<1>16. m.k = "charger_off" /\ Behind(q, "charger_off", PoweringOff) => ~Has(q, PoweringOff)
  BY TailBehind
<1> QED
  BY <1>3, <1>6, <1>7, <1>8, <1>10, <1>11, <1>12, <1>13, <1>14, <1>15, <1>16

\* The flag of the charger monitor is a field of the state.
LEMMA ConnectedType ==
    ASSUME NEW x \in States, NEW b \in BOOLEAN, NEW y, y = [x EXCEPT !.connected = b]
    PROVE  /\ y \in States /\ y.connected = b
           /\ y.sm = x.sm /\ y.alone = x.alone /\ y.limboTimer = x.limboTimer
           /\ y.plugged = x.plugged /\ y.pm = x.pm /\ y.on = x.on
           /\ y.ss = x.ss /\ y.mq = x.mq /\ y.playing = x.playing
BY DEF States

\* The queue is a field of the state.
LEMMA QueueType ==
    ASSUME NEW x \in States, NEW q \in Seq(Message), NEW y, y = [x EXCEPT !.mq = q]
    PROVE  Moves(x, y, x.ss, q, x.playing)
<1>1. y \in States
  BY DEF States
<1>2. /\ y.sm = x.sm /\ y.alone = x.alone /\ y.limboTimer = x.limboTimer
      /\ y.plugged = x.plugged /\ y.connected = x.connected
      /\ y.pm = x.pm /\ y.on = x.on /\ y.playing = x.playing /\ y.ss = x.ss /\ y.mq = q
  BY DEF States
<1> QED
  BY <1>1, <1>2 DEF Moves

\* The charger monitor reads the socket and tells headset_sm.
LEMMA ChargerKept ==
    ASSUME NEW z \in States, Good(z), z.mq # << >>,
           NEW is \in BOOLEAN, Head(z.mq).k = IF is THEN "charger_on" ELSE "charger_off",
           NEW x, x = [z EXCEPT !.mq = Tail(@)],
           NEW y, y = Charger_UpdateConnected(x, is)
    PROVE  Kept(y)
<1> PICK q, k, s, v : /\ q = z.mq /\ k = IF is THEN "attached" ELSE "detached"
                      /\ s = Append(Tail(q), Plain(k)) /\ v = [x EXCEPT !.connected = is]
  OBVIOUS
<1>1. q \in Seq(Message) /\ q # << >> /\ Tail(q) \in Seq(Message)
  BY RestOfQueue DEF States
<1>2. /\ Coherent(z.ss) /\ ChargerKnown(q, z.plugged, z.connected) /\ PromptsFirst(q)
      /\ OnUntold(z) /\ OnUnderWay(z) /\ OffUntold(z) /\ OffUnderWay(z)
      /\ StartUnderWay(z) /\ InLimbo(z)
  BY DEF Good
<1>3. Head(q).k \in {"charger_on", "charger_off"} /\ k \in {"attached", "detached"}
  OBVIOUS
<1>4. OneCharger(q)
  BY <1>2 DEF ChargerKnown
<1>5. /\ s \in Seq(Message)
      /\ \A m \in Reports : Has(s, m) <=> Has(q, m)
      /\ ~HasKind(q, "prompt") /\ PromptsFirst(s)
      /\ OneCharger(s)
      /\ \A c \in ChargerKinds : HasKind(s, c) <=> c = k
      /\ Behind(q, "attached", PoweringOn) => Behind(s, "attached", PoweringOn)
      /\ Behind(q, "charger_off", PoweringOff) => Behind(s, "charger_off", PoweringOff)
      /\ Once(q, StartedUp) => Once(s, StartedUp)
      /\ Once(q, PoweringOff) => Once(s, PoweringOff)
      /\ Head(q).k = "charger_off" /\ Behind(q, "charger_off", PoweringOff) =>
           ~Has(q, PoweringOff)
  BY <1>1, <1>2, <1>3, <1>4, SwapCharger
<1>6. Moves(z, x, z.ss, Tail(q), z.playing)
  BY <1>1, QueueType
<1>7. /\ x \in States /\ x.sm = z.sm /\ x.alone = z.alone /\ x.limboTimer = z.limboTimer
      /\ x.plugged = z.plugged /\ x.connected = z.connected /\ x.pm = z.pm /\ x.on = z.on
      /\ x.ss = z.ss /\ x.mq = Tail(q) /\ x.playing = z.playing
  BY <1>6 DEF Moves
<1>8. z.connected = ~is /\ z.plugged = is
  <2>1. HasKind(q, IF is THEN "charger_on" ELSE "charger_off")
    BY <1>1, TailHasKind
  <2>2. z.connected \in BOOLEAN /\ z.plugged \in BOOLEAN
    BY DEF States
  <2>3. CASE is = TRUE
    BY <1>2, <2>1, <2>2, <2>3 DEF ChargerKnown
  <2>4. CASE is = FALSE
    BY <1>2, <2>1, <2>2, <2>4 DEF ChargerKnown
  <2> QED
    BY <2>3, <2>4
<1>9. y = Send(v, k)
  BY <1>7, <1>8 DEF Charger_UpdateConnected
<1>10. /\ v \in States /\ v.connected = is
       /\ v.sm = x.sm /\ v.alone = x.alone /\ v.limboTimer = x.limboTimer
       /\ v.plugged = x.plugged /\ v.pm = x.pm /\ v.on = x.on
       /\ v.ss = x.ss /\ v.mq = x.mq /\ v.playing = x.playing
  <2>1. x \in States /\ is \in BOOLEAN /\ v = [x EXCEPT !.connected = is]
    BY <1>7
  <2> QED
    BY ONLY <2>1, ConnectedType
<1>11. Moves(v, y, v.ss, s, v.playing)
  <2>1. k \in Messages
    BY DEF Messages
  <2>2. Moves(v, y, v.ss, Append(v.mq, Plain(k)), v.playing)
    BY <1>9, <1>10, <2>1, SendMoves
  <2> QED
    BY <1>7, <1>10, <2>2
<1>12. /\ y \in States /\ y.sm = z.sm /\ y.alone = z.alone /\ y.plugged = z.plugged
       /\ y.connected = is /\ y.ss = z.ss /\ y.mq = s /\ y.playing = z.playing
  BY <1>7, <1>10, <1>11 DEF Moves
<1>13. /\ Has(s, StartedUp) <=> Has(q, StartedUp)
       /\ Has(s, PoweringOn) <=> Has(q, PoweringOn)
       /\ Has(s, PoweredOn) <=> Has(q, PoweredOn)
       /\ Has(s, PoweringOff) <=> Has(q, PoweringOff)
  BY <1>5 DEF Reports
<1>14. ~HasKind(s, "prompt")
  <2>1. ~HasKind(Tail(q), "prompt")
    BY <1>1, <1>5, TailHasKind
  <2>2. Plain(k) \in Message /\ Plain(k).k # "prompt"
    BY PlainType DEF Messages, Plain
  <2> QED
    BY <1>1, <2>1, <2>2, AppendHasKind
<1>15. ChargerKnown(s, y.plugged, y.connected)
  <2>1. /\ (HasKind(s, "attached") <=> is) /\ (HasKind(s, "detached") <=> ~is)
        /\ ~HasKind(s, "charger_on") /\ ~HasKind(s, "charger_off")
    BY <1>5 DEF ChargerKinds
  <2>2. y.plugged = is /\ y.connected = is
    BY <1>8, <1>12
  <2>3. CASE is = TRUE
    BY <1>5, <2>1, <2>2, <2>3 DEF ChargerKnown
  <2>4. CASE is = FALSE
    BY <1>5, <2>1, <2>2, <2>4 DEF ChargerKnown
  <2> QED
    BY <2>3, <2>4
<1>16. OnUntold(y) /\ OnUnderWay(y)
  BY <1>2, <1>5, <1>12, <1>13, <1>14 DEF OnUntold, OnUnderWay
<1>17. OffUntold(y) /\ OffUnderWay(y)
  <2>1. Has(q, PoweringOff) => is
    BY <1>2, <1>5 DEF OffUntold
  <2> QED
    BY <1>2, <1>5, <1>12, <1>13, <2>1 DEF OffUntold, OffUnderWay
<1>18. StartUnderWay(y)
  <2>1. q[1].k # "change"
    BY <1>1, RestOfQueue
  <2>2. q[1] # StartedUp
    BY <2>1 DEF StartedUp, Change
  <2> QED
    BY <1>2, <1>5, <1>12, <1>13, <2>2 DEF StartUnderWay
<1>19. InLimbo(y)
  BY <1>2, <1>12, <1>13 DEF InLimbo
<1>20. LimboEnds(y)
  <2>1. ~is => HasKind(s, "detached")
    BY <1>5 DEF ChargerKinds
  <2> QED
    BY <1>12, <2>1 DEF LimboEnds
<1>21. Good(y)
  BY <1>2, <1>5, <1>12, <1>15, <1>16, <1>17, <1>18, <1>19, <1>20 DEF Good
<1> QED
  BY <1>12, <1>21 DEF Kept

\* Whatever message comes next, its handler keeps the invariant.
LEMMA HandleKept ==
    ASSUME NEW z \in States, Good(z), z.mq # << >>,
           NEW y \in Handle([z EXCEPT !.mq = Tail(@)], Head(z.mq))
    PROVE  Kept(y)
<1> PICK m, x : m = Head(z.mq) /\ x = [z EXCEPT !.mq = Tail(@)]
  OBVIOUS
<1>1. m \in Message
  BY RestOfQueue DEF States
<1>2. m.k \in Messages
  BY <1>1 DEF Message
<1>3. y \in Handle(x, m)
  OBVIOUS
<1>4. CASE m.k = "charger_on"
  <2>1. y = Charger_UpdateConnected(x, TRUE)
    BY <1>3, <1>4 DEF Handle
  <2> QED
    BY <1>4, <2>1, TRUE \in BOOLEAN, ChargerKept
<1>5. CASE m.k = "charger_off"
  <2>1. y = Charger_UpdateConnected(x, FALSE)
    BY <1>3, <1>5 DEF Handle
  <2> QED
    BY <1>5, <2>1, FALSE \in BOOLEAN, ChargerKept
<1>6. CASE m.k \notin {"charger_on", "charger_off"}
  <2>1. Taken(x, m)
    BY <1>6, TakeMessage
  <2>2. CASE m.k \in {"ui_on", "ui_off", "ui_pair"}
    <3>1. y = headsetSmHandleUiInput(x, m.k)
      BY <1>3, <2>2 DEF Handle
    <3> QED
      BY <2>1, <2>2, <3>1, UiInputKept
  <2>3. CASE m.k = "power_off"
    <3>1. y \in HandlePowerOff(x)
      BY <1>3, <2>3 DEF Handle
    <3> QED
      BY <2>1, <2>3, <3>1, PowerOffKept
  <2>4. CASE m.k \in {"pair", "pair_cfm", "audio"}
    <3>1. y \in {headsetSmHandleInternalPairHandset(x),
                 headsetSmHandlePairingPairConfirm(x), HandleAudio(x)}
      BY <1>3, <2>4 DEF Handle
    <3> QED
      BY <2>1, <2>4, <3>1, UseKept
  <2>5. CASE m.k = "attached"
    <3>1. y = HandleAttached(x)
      BY <1>3, <2>5 DEF Handle
    <3> QED
      BY <2>1, <2>5, <3>1, AttachedKept
  <2>6. CASE m.k = "detached"
    <3>1. y = HandleDetached(x)
      BY <1>3, <2>6 DEF Handle
    <3> QED
      BY <2>1, <2>6, <3>1, DetachedKept
  <2>7. CASE m.k = "prepare"
    <3>1. y = headsetSmHandlePowerShutdownPrepareInd(x)
      BY <1>3, <2>7 DEF Handle
    <3> QED
      BY <2>1, <2>7, <3>1, PrepareKept
  <2>8. CASE m.k = "prompt"
    <3>1. y \in Confirm(x, "prompt")
      BY <1>3, <2>8 DEF Handle
    <3> QED
      BY <2>1, <2>8, <3>1, PromptKept
  <2>9. CASE m.k = "stop_cfm"
    <3>1. y \in Confirm(x, "stop_cfm")
      BY <1>3, <2>9 DEF Handle
    <3> QED
      BY <2>1, <2>9, <3>1, StopCfmKept
  <2>10. CASE m.k = "change"
    <3>1. y \in headsetSmHandleSystemStateChange(x, m.old, m.new)
      BY <1>3, <2>10 DEF Handle
    <3> QED
      BY <1>1, <2>1, <2>10, <3>1, ChangeKept
  <2> QED
    BY <1>2, <1>6, <2>2, <2>3, <2>4, <2>5, <2>6, <2>7, <2>8, <2>9, <2>10 DEF Messages
<1> QED
  BY <1>4, <1>5, <1>6

-----------------------------------------------------------------------------
(* Timers and the other components *)

\* A field of no account changes: the topology's state or the audio.
LEMMA TopoMoves ==
    ASSUME NEW x \in States, NEW t \in {"stopped", "starting", "started", "stopping"},
           NEW y, y = [x EXCEPT !.topo = t]
    PROVE  Moves(x, y, x.ss, x.mq, x.playing)
<1>1. y \in States
  BY DEF States
<1>2. /\ y.sm = x.sm /\ y.alone = x.alone /\ y.limboTimer = x.limboTimer
      /\ y.plugged = x.plugged /\ y.connected = x.connected
      /\ y.pm = x.pm /\ y.on = x.on /\ y.playing = x.playing /\ y.ss = x.ss /\ y.mq = x.mq
  BY DEF States
<1> QED
  BY <1>1, <1>2 DEF Moves

\* The same for the audio.
LEMMA AudioMoves ==
    ASSUME NEW x \in States, NEW a \in {"none", "a2dp", "call"},
           NEW y, y = [x EXCEPT !.audio = a]
    PROVE  Moves(x, y, x.ss, x.mq, x.playing)
<1>1. y \in States
  BY DEF States
<1>2. /\ y.sm = x.sm /\ y.alone = x.alone /\ y.limboTimer = x.limboTimer
      /\ y.plugged = x.plugged /\ y.connected = x.connected
      /\ y.pm = x.pm /\ y.on = x.on /\ y.playing = x.playing /\ y.ss = x.ss /\ y.mq = x.mq
  BY DEF States
<1> QED
  BY <1>1, <1>2 DEF Moves

\* Nothing of account moves.
LEMMA StillKept ==
    ASSUME NEW x \in States, Good(x), NEW y, Moves(x, y, x.ss, x.mq, x.playing)
    PROVE  y \in States /\ Good(y) /\ Kept(y)
<1>1. Good(y)
  BY GoodStill
<1> QED
  BY <1>1 DEF Kept, Moves

\* Nothing of account moves, and a message of no account is sent.
LEMMA SendKept ==
    ASSUME NEW x \in States, Good(x),
           NEW v, Moves(x, v, x.ss, x.mq, x.playing),
           NEW k \in Messages, k \notin ChargerKinds \cup {"prompt"}, NEW y, y = Send(v, k)
    PROVE  Kept(y)
<1>1. v \in States /\ Good(v)
  BY StillKept
<1>2. Moves(v, y, v.ss, Append(v.mq, Plain(k)), v.playing)
  BY <1>1, SendMoves
<1>3. Plain(k) \in Message /\ Dull(Plain(k))
  BY PlainDull
<1>4. Good(y)
  BY <1>1, <1>2, <1>3, GoodSend
<1> QED
  BY <1>2, <1>4 DEF Kept, Moves

\* A headset in which nothing moves moves to itself.
LEMMA MovesNot ==
    ASSUME NEW x \in States
    PROVE  Moves(x, x, x.ss, x.mq, x.playing)
BY DEF Moves

\* The power manager is asked, or a charger is connected: limbo ends without
\* its timer.
LEMMA AskedGood ==
    ASSUME NEW x \in States, Good(x), NEW y \in States, Alike(x.mq, y.mq),
           y.sm = x.sm, y.alone = x.alone, y.plugged = x.plugged,
           y.connected = x.connected, y.ss = x.ss, y.playing = x.playing,
           x.connected \/ y.pm # "ok"
    PROVE  Good(y)
<1> PICK q, r : q = x.mq /\ r = y.mq
  OBVIOUS
<1>1. /\ Has(r, StartedUp) <=> Has(q, StartedUp)
      /\ Has(r, PoweringOn) <=> Has(q, PoweringOn)
      /\ Has(r, PoweredOn) <=> Has(q, PoweredOn)
      /\ Has(r, PoweringOff) <=> Has(q, PoweringOff)
  BY DEF Alike, Reports
<1>2. /\ HasKind(r, "charger_on") <=> HasKind(q, "charger_on")
      /\ HasKind(r, "charger_off") <=> HasKind(q, "charger_off")
      /\ HasKind(r, "attached") <=> HasKind(q, "attached")
      /\ HasKind(r, "detached") <=> HasKind(q, "detached")
      /\ HasKind(r, "prompt") <=> HasKind(q, "prompt")
  BY DEF Alike, ChargerKinds
<1>3. /\ Behind(q, "attached", PoweringOn) => Behind(r, "attached", PoweringOn)
      /\ Behind(q, "charger_off", PoweringOff) => Behind(r, "charger_off", PoweringOff)
      /\ Once(q, StartedUp) => Once(r, StartedUp)
      /\ Once(q, PoweringOff) => Once(r, PoweringOff)
      /\ PromptsFirst(q) => PromptsFirst(r)
      /\ OneCharger(q) => OneCharger(r)
      /\ Has(q, StartedUp) /\ q[1] = StartedUp => r[1] = StartedUp
  BY DEF Alike
<1>4. Coherent(y.ss) /\ ChargerKnown(r, y.plugged, y.connected) /\ PromptsFirst(r)
  BY <1>2, <1>3 DEF Good, ChargerKnown
<1>5. OnUntold(y) /\ OnUnderWay(y)
  BY <1>1, <1>2, <1>3 DEF Good, OnUntold, OnUnderWay
<1>6. OffUntold(y) /\ OffUnderWay(y)
  BY <1>1, <1>3 DEF Good, OffUntold, OffUnderWay
<1>7. StartUnderWay(y)
  BY <1>1, <1>3 DEF Good, StartUnderWay
<1>8. InLimbo(y) /\ LimboEnds(y)
  BY <1>1 DEF Good, InLimbo, LimboEnds
<1> QED
  BY <1>4, <1>5, <1>6, <1>7, <1>8 DEF Good

\* The power manager is asked to switch the headset off, by headset_sm when
\* the limbo timer expires or by itself.
LEMMA RequestKept ==
    ASSUME NEW x \in States, Good(x), NEW v, v = appPowerOffRequest(x)
    PROVE  /\ Kept(v)
           /\ \A y : y = [v EXCEPT !.limboTimer = FALSE] => Kept(y)
<1>1. /\ v \in States /\ v.sm = x.sm /\ v.alone = x.alone /\ v.on = x.on
      /\ v.limboTimer = x.limboTimer /\ v.plugged = x.plugged
      /\ v.connected = x.connected /\ v.ss = x.ss /\ v.playing = x.playing
      /\ x.connected \/ v.pm # "ok"
      /\ Alike(x.mq, v.mq)
  BY RequestMoves
<1>2. Good(v)
  BY <1>1, AskedGood
<1>3. ASSUME NEW y, y = [v EXCEPT !.limboTimer = FALSE]
      PROVE  Kept(y)
  <2>1. y \in States
    BY <1>1, <1>3, ZenonT(30) DEF States
  <2>2. /\ y.sm = v.sm /\ y.alone = v.alone /\ y.plugged = v.plugged /\ y.pm = v.pm
        /\ y.connected = v.connected /\ y.ss = v.ss /\ y.playing = v.playing /\ y.mq = v.mq
    BY <1>1, <1>3 DEF States
  <2>3. /\ y.sm = x.sm /\ y.alone = x.alone /\ y.plugged = x.plugged
        /\ y.connected = x.connected /\ y.ss = x.ss /\ y.playing = x.playing
        /\ x.connected \/ y.pm # "ok"
        /\ Alike(x.mq, y.mq)
    BY <1>1, <2>2
  <2>4. Good(y)
    BY <2>1, <2>3, AskedGood
  <2> QED
    BY <2>1, <2>4 DEF Kept
<1> QED
  BY <1>1, <1>2, <1>3 DEF Kept

\* The prompt ends when headset_sm has read all reports: its completion goes
\* in front of the rest.
LEMMA PromptEndsKept ==
    ASSUME NEW x \in States, Good(x), x.playing > 0, ~HasKind(x.mq, "change"),
           NEW y, y = [x EXCEPT !.playing = @ - 1, !.mq = <<Plain("prompt")>> \o @]
    PROVE  Kept(y)
<1> PICK q, r, n : q = x.mq /\ r = <<Plain("prompt")>> \o q /\ n = x.playing - 1
  OBVIOUS
<1>1. q \in Seq(Message) /\ PromptsFirst(q) /\ OneCharger(q)
  BY DEF States, Good, ChargerKnown
<1>2. /\ r \in Seq(Message) /\ PromptsFirst(r) /\ OneCharger(r)
      /\ \A m : m # Plain("prompt") => (Has(r, m) <=> Has(q, m))
      /\ \A k : k # "prompt" => (HasKind(r, k) <=> HasKind(q, k))
      /\ HasKind(r, "prompt")
  BY <1>1, PromptInFront
<1>3. ASSUME NEW m \in Reports
      PROVE  ~Has(q, m) /\ ~Has(r, m)
  <2>1. m.k = "change"
    BY ReportsDiffer
  <2>2. ~Has(q, m)
    BY <2>1 DEF Has, HasKind
  <2>3. m # Plain("prompt")
    <3>1. Plain("prompt").k = "prompt"
      BY DEF Plain
    <3> QED
      BY <2>1, <3>1
  <2> QED
    BY <1>2, <2>2, <2>3
<1>4. /\ ~Has(q, StartedUp) /\ ~Has(q, PoweredOn)
      /\ ~Has(r, StartedUp) /\ ~Has(r, PoweringOn) /\ ~Has(r, PoweredOn) /\ ~Has(r, PoweringOff)
      /\ ~Has(q, PoweringOn)
  BY <1>3 DEF Reports
<1>5. /\ HasKind(r, "charger_on") <=> HasKind(q, "charger_on")
      /\ HasKind(r, "charger_off") <=> HasKind(q, "charger_off")
      /\ HasKind(r, "attached") <=> HasKind(q, "attached")
      /\ HasKind(r, "detached") <=> HasKind(q, "detached")
  BY <1>2
<1>6. x.playing \in Nat /\ n \in Nat
  BY DEF States
<1> PICK v : v = [x EXCEPT !.playing = n]
  OBVIOUS
<1>7. Moves(x, v, x.ss, q, n)
  BY <1>6, PlayingMoves
<1>8. v \in States /\ y = [v EXCEPT !.mq = r]
  BY <1>7 DEF Moves
<1>9. Moves(v, y, v.ss, r, v.playing)
  BY <1>2, <1>8, QueueType
<1>10. /\ y \in States /\ y.sm = x.sm /\ y.alone = x.alone /\ y.limboTimer = x.limboTimer
       /\ y.plugged = x.plugged /\ y.connected = x.connected /\ y.pm = x.pm
       /\ y.ss = x.ss /\ y.mq = r
  BY <1>7, <1>9 DEF Moves
<1>11. Coherent(y.ss) /\ ChargerKnown(r, y.plugged, y.connected)
  BY <1>2, <1>5, <1>10 DEF Good, ChargerKnown
<1>12. OnUntold(y) /\ OnUnderWay(y)
  BY <1>2, <1>4, <1>10 DEF Good, OnUntold, OnUnderWay
<1>13. OffUntold(y) /\ OffUnderWay(y)
  BY <1>4, <1>10 DEF Good, OffUntold, OffUnderWay
<1>14. StartUnderWay(y)
  <2>1. Once(r, StartedUp)
    BY <1>4 DEF Has, Once
  <2> QED
    BY <1>4, <1>10, <2>1 DEF Good, StartUnderWay
<1>15. InLimbo(y) /\ LimboEnds(y)
  BY <1>4, <1>5, <1>10 DEF Good, InLimbo, LimboEnds
<1>16. Good(y)
  BY <1>2, <1>10, <1>11, <1>12, <1>13, <1>14, <1>15 DEF Good
<1> QED
  BY <1>10, <1>16 DEF Kept

\* The power manager gives up because a charger has come.
LEMMA GivenUpKept ==
    ASSUME NEW x \in States, Good(x), x.connected, NEW y, y = [x EXCEPT !.pm = "ok"]
    PROVE  Kept(y)
<1>1. y \in States
  BY DEF States
<1>2. /\ y.sm = x.sm /\ y.alone = x.alone /\ y.plugged = x.plugged
      /\ y.connected = x.connected /\ y.ss = x.ss /\ y.playing = x.playing /\ y.mq = x.mq
  BY DEF States
<1>3. Alike(x.mq, y.mq)
  BY <1>2, AlikeSame DEF States
<1>4. Good(y)
  BY <1>1, <1>2, <1>3, AskedGood
<1> QED
  BY <1>1, <1>4 DEF Kept

\* The socket is a field of the state.
LEMMA PluggedType ==
    ASSUME NEW x \in States, NEW b \in BOOLEAN, NEW y, y = [x EXCEPT !.plugged = b]
    PROVE  /\ y \in States /\ y.plugged = b
           /\ y.sm = x.sm /\ y.alone = x.alone /\ y.limboTimer = x.limboTimer
           /\ y.connected = x.connected /\ y.pm = x.pm /\ y.on = x.on
           /\ y.ss = x.ss /\ y.mq = x.mq /\ y.playing = x.playing
BY DEF States

\* A plug moves when nothing about the charger is unread.
LEMMA PlugKept ==
    ASSUME NEW x \in States, Good(x), \A k \in ChargerKinds : ~HasKind(x.mq, k),
           NEW b \in BOOLEAN, b = ~x.plugged, NEW v, v = [x EXCEPT !.plugged = b],
           NEW y, y = Send(v, IF b THEN "charger_on" ELSE "charger_off")
    PROVE  Kept(y)
<1> PICK q, k, n, r : /\ q = x.mq /\ k = IF b THEN "charger_on" ELSE "charger_off"
                      /\ n = Plain(k) /\ r = Append(q, n)
  OBVIOUS
<1>1. q \in Seq(Message) /\ x.plugged \in BOOLEAN /\ x.connected \in BOOLEAN
  BY DEF States
<1>2. k \in Messages /\ k \in ChargerKinds /\ k # "prompt" /\ k # "attached" /\ k # "detached"
  BY DEF Messages, ChargerKinds
<1>3. n \in Message /\ n.k = k /\ r \in Seq(Message)
  <2>1. n \in Message
    BY <1>2, PlainType
  <2>2. n.k = k
    BY DEF Plain
  <2> QED
    BY <1>1, <2>1, <2>2
<1>4. /\ v \in States /\ v.plugged = b
      /\ v.sm = x.sm /\ v.alone = x.alone /\ v.limboTimer = x.limboTimer
      /\ v.connected = x.connected /\ v.pm = x.pm /\ v.on = x.on
      /\ v.ss = x.ss /\ v.mq = q /\ v.playing = x.playing
  <2>1. x \in States /\ b \in BOOLEAN /\ v = [x EXCEPT !.plugged = b] /\ q = x.mq
    OBVIOUS
  <2> QED
    BY ONLY <2>1, PluggedType
<1>5. Moves(v, y, v.ss, r, v.playing)
  <2>1. y = Send(v, k)
    OBVIOUS
  <2>2. Moves(v, y, v.ss, Append(v.mq, Plain(k)), v.playing)
    BY <1>2, <1>4, <2>1, SendMoves
  <2> QED
    BY <1>4, <2>2
<1>6. /\ y \in States /\ y.sm = x.sm /\ y.alone = x.alone /\ y.limboTimer = x.limboTimer
      /\ y.plugged = b /\ y.connected = x.connected /\ y.pm = x.pm
      /\ y.ss = x.ss /\ y.mq = r /\ y.playing = x.playing
  BY <1>4, <1>5 DEF Moves
<1>7. \A c \in Reports : n # c
  BY <1>2, <1>3, ReportsDiffer DEF ChargerKinds
<1>8. n # StartedUp /\ n # PoweringOn /\ n # PoweredOn /\ n # PoweringOff
  BY <1>7 DEF Reports
<1>9. /\ Has(r, StartedUp) <=> Has(q, StartedUp)
      /\ Has(r, PoweringOn) <=> Has(q, PoweringOn)
      /\ Has(r, PoweredOn) <=> Has(q, PoweredOn)
      /\ Has(r, PoweringOff) <=> Has(q, PoweringOff)
  BY <1>1, <1>3, <1>8, AppendHas
<1>10. \A c \in ChargerKinds \cup {"prompt"} : HasKind(r, c) <=> HasKind(q, c) \/ k = c
  BY <1>1, <1>3, AppendHasKind
<1>11. /\ HasKind(r, "prompt") <=> HasKind(q, "prompt")
       /\ ~HasKind(r, "attached") /\ ~HasKind(r, "detached") /\ ~HasKind(q, "detached")
       /\ HasKind(r, "charger_on") <=> b
       /\ HasKind(r, "charger_off") <=> ~b
  BY <1>2, <1>10 DEF ChargerKinds
<1>12. OneCharger(r) /\ PromptsFirst(r)
  <2>1. OneCharger(q) /\ PromptsFirst(q)
    BY DEF Good, ChargerKnown
  <2> QED
    BY <1>1, <1>2, <1>3, <2>1, AppendCharger, AppendPrompts
<1>13. ChargerKnown(r, y.plugged, y.connected)
  <2>1. x.connected = x.plugged
    BY DEF Good, ChargerKnown, ChargerKinds
  <2>2. y.plugged = b /\ y.connected = ~b
    BY <1>1, <1>6, <2>1
  <2>3. CASE b = TRUE
    BY <1>11, <1>12, <2>2, <2>3 DEF ChargerKnown
  <2>4. CASE b = FALSE
    BY <1>11, <1>12, <2>2, <2>4 DEF ChargerKnown
  <2> QED
    BY <2>3, <2>4
<1>14. OnUntold(y) /\ OnUnderWay(y)
  <2>1. Behind(q, "attached", PoweringOn) => Behind(r, "attached", PoweringOn)
    BY <1>1, <1>3, <1>8, AppendBehind
  <2> QED
    BY <1>6, <1>9, <1>11, <2>1 DEF Good, OnUntold, OnUnderWay
<1>15. OffUntold(y) /\ OffUnderWay(y)
  <2>1. Behind(q, "charger_off", PoweringOff) => Behind(r, "charger_off", PoweringOff)
    BY <1>1, <1>3, <1>8, AppendBehind
  <2>2. Once(q, PoweringOff) => Once(r, PoweringOff)
    BY <1>1, <1>3, <1>8, AppendOnce
  <2> QED
    BY <1>6, <1>9, <2>1, <2>2 DEF Good, OffUntold, OffUnderWay
<1>16. StartUnderWay(y)
  <2>1. Once(q, StartedUp) => Once(r, StartedUp)
    BY <1>1, <1>3, <1>8, AppendOnce
  <2>2. Has(q, StartedUp) => r[1] = q[1]
    BY <1>1, <1>3 DEF Has
  <2> QED
    BY <1>6, <1>9, <2>1, <2>2 DEF Good, StartUnderWay
<1>17. InLimbo(y) /\ LimboEnds(y)
  BY <1>6, <1>9, <1>11 DEF Good, InLimbo, LimboEnds
<1>18. Good(y)
  BY <1>6, <1>12, <1>13, <1>14, <1>15, <1>16, <1>17 DEF Good
<1> QED
  BY <1>6, <1>18 DEF Kept

-----------------------------------------------------------------------------
(* The invariant *)

\* The first state: start-up has ended and headset_sm has not read so.
LEMMA InitIInv == Init => IInv
<1> SUFFICES ASSUME Init PROVE IInv
  OBVIOUS
<1> PICK plugged \in BOOLEAN :
      d = [sm |-> "NULL", autoOn |-> FALSE, enable |-> "no", limboTimer |-> FALSE,
           force |-> FALSE, delayed |-> FALSE,
           ss |-> [S!InitialContext EXCEPT !.state = "limbo", !.transition = "startup",
                                           !.onCompletion = "limbo"],
           topo |-> "stopped", audio |-> "none", playing |-> 0, plugged |-> plugged,
           connected |-> plugged, pm |-> "ok", on |-> TRUE, alone |-> FALSE,
           mq |-> <<[k |-> "change", old |-> "starting_up", new |-> "limbo"]>>]
  BY DEF Init
<1> PICK c, q : /\ c = [S!InitialContext EXCEPT !.state = "limbo", !.transition = "startup",
                                                !.onCompletion = "limbo"]
                /\ q = <<[k |-> "change", old |-> "starting_up", new |-> "limbo"]>>
  OBVIOUS
<1>1. c = Context("limbo", "startup", 0, "limbo")
  BY DEF S!InitialContext, Context
<1>2. Coherent(c)
  BY <1>1 DEF Coherent
<1>3. c \in S!Contexts
  BY <1>2, CoherentType
<1>4. q = <<StartedUp>>
  BY DEF StartedUp, Change
<1>5. StartedUp \in Message
  BY ReportsDiffer DEF Reports
<1>6. q \in Seq(Message) /\ Len(q) = 1 /\ q[1] = StartedUp
  BY <1>4, <1>5
<1>7. d \in States
  BY <1>3, <1>6 DEF States, SmStates
<1>8. /\ Has(q, StartedUp) /\ Once(q, StartedUp)
      /\ ~Has(q, PoweringOn) /\ ~Has(q, PoweredOn) /\ ~Has(q, PoweringOff)
  BY <1>6, ReportsDiffer DEF Has, Once
<1>9. \A k \in ChargerKinds \cup {"prompt"} : ~HasKind(q, k)
  <2>1. StartedUp.k = "change"
    BY ReportsDiffer DEF Reports
  <2> QED
    BY <1>6, <2>1 DEF HasKind, ChargerKinds
<1>10. PromptsFirst(q) /\ OneCharger(q)
  BY <1>6 DEF PromptsFirst, OneCharger
<1>11. ChargerKnown(q, plugged, plugged)
  BY <1>9, <1>10 DEF ChargerKnown, ChargerKinds
<1>12. /\ d.sm = "NULL" /\ d.ss = c /\ d.mq = q
       /\ d.plugged = plugged /\ d.connected = plugged
  OBVIOUS
<1>13. d.ss.state = "limbo"
  BY <1>1, <1>12 DEF Context
<1>14. OnUntold(d) /\ OnUnderWay(d) /\ OffUntold(d) /\ OffUnderWay(d)
  BY <1>8, <1>12 DEF OnUntold, OnUnderWay, OffUntold, OffUnderWay
<1>15. StartUnderWay(d) /\ InLimbo(d) /\ LimboEnds(d)
  BY <1>6, <1>8, <1>12, <1>13 DEF StartUnderWay, InLimbo, LimboEnds
<1>16. Good(d)
  BY <1>2, <1>10, <1>11, <1>12, <1>14, <1>15 DEF Good
<1> QED
  BY <1>7, <1>16 DEF IInv

\* Every step keeps the invariant.
LEMMA NextIInv == IInv /\ [Next]_vars => IInv'
<1> SUFFICES ASSUME IInv, [Next]_vars PROVE IInv'
  OBVIOUS
<1>1. d \in States
  BY DEF IInv
<1>2. ASSUME Kept(d')
      PROVE  IInv'
  <2>1. d' \in States /\ (d'.on => Good(d'))
    BY <1>2 DEF Kept
  <2> QED
    BY <2>1 DEF IInv, Good, Coherent, Context, ChargerKnown, PromptsFirst, OneCharger,
       OnUntold, OnUnderWay, OffUntold, OffUnderWay, StartUnderWay, InLimbo, LimboEnds,
       Has, HasKind, Behind, Once
<1>3. d.on => Good(d)
  BY DEF IInv
<1>4. Moves(d, d, d.ss, d.mq, d.playing)
  BY <1>1, MovesNot
<1>5. CASE Deliver
  <2>1. d.on /\ d.mq # << >> /\ d' \in Handle([d EXCEPT !.mq = Tail(@)], Head(d.mq))
    BY <1>5 DEF Deliver
  <2>2. Kept(d')
    BY <1>1, <1>3, <2>1, HandleKept
  <2> QED
    BY <1>2, <2>2
<1>6. CASE LimboTimeout
  <2>1. d.on /\ d' = [appPowerOffRequest(d) EXCEPT !.limboTimer = FALSE]
    BY <1>6 DEF LimboTimeout, Settled, Idle
  <2>2. Kept(d')
    BY <1>1, <1>3, <2>1, RequestKept
  <2> QED
    BY <1>2, <2>2
<1>7. CASE ForcePowerOff
  <2> PICK v : v = [d EXCEPT !.force = FALSE]
    OBVIOUS
  <2>1. d.on /\ (d' = SystemState_EmergencyShutdown(v) \/ d' = v)
    BY <1>7 DEF ForcePowerOff, Idle
  <2>2. Moves(d, v, d.ss, d.mq, d.playing)
    BY <1>1, FALSE \in BOOLEAN, ForceMoves
  <2>3. v \in States /\ Good(v) /\ Kept(v)
    BY <1>1, <1>3, <2>1, <2>2, StillKept
  <2>4. CASE d' = SystemState_EmergencyShutdown(v)
    <3>1. Coherent(v.ss)
      BY <2>3 DEF Good
    <3>2. d' \in States /\ ~d'.on
      BY <2>3, <2>4, <3>1, EmergencyMoves
    <3> QED
      BY <1>2, <3>2 DEF Kept
  <2> QED
    BY <1>2, <2>1, <2>3, <2>4
<1>8. CASE PowerOffAgain
  <2> PICK v : v = [d EXCEPT !.delayed = FALSE]
    OBVIOUS
  <2>1. d.on /\ d' = Send(v, "power_off")
    BY <1>8 DEF PowerOffAgain, Idle
  <2>2. Moves(d, v, d.ss, d.mq, d.playing)
    BY <1>1, FALSE \in BOOLEAN, DelayedMoves
  <2>3. "power_off" \in Messages /\ "power_off" \notin ChargerKinds \cup {"prompt"}
    BY DEF Messages, ChargerKinds
  <2>4. Kept(d')
    BY <1>1, <1>3, <2>1, <2>2, <2>3, SendKept
  <2> QED
    BY <1>2, <2>4
<1>9. CASE PowerOffEnabled
  <2>1. d.on /\ d' = [d EXCEPT !.enable = "yes"]
    BY <1>9 DEF PowerOffEnabled, Idle
  <2>2. Moves(d, d', d.ss, d.mq, d.playing)
    BY <1>1, <2>1, EnableMoves
  <2>3. Kept(d')
    BY <1>1, <1>3, <2>1, <2>2, StillKept
  <2> QED
    BY <1>2, <2>3
<1>10. CASE TopologyStarted
  <2>1. d.on /\ d' = [d EXCEPT !.topo = "started"]
    BY <1>10 DEF TopologyStarted
  <2>2. Moves(d, d', d.ss, d.mq, d.playing)
    BY <1>1, <2>1, TopoMoves
  <2>3. Kept(d')
    BY <1>1, <1>3, <2>1, <2>2, StillKept
  <2> QED
    BY <1>2, <2>3
<1>11. CASE TopologyStopped
  <2> PICK v : v = [d EXCEPT !.topo = "stopped"]
    OBVIOUS
  <2>1. d.on /\ d' = Send(v, "stop_cfm")
    BY <1>11 DEF TopologyStopped
  <2>2. Moves(d, v, d.ss, d.mq, d.playing)
    BY <1>1, TopoMoves
  <2>3. "stop_cfm" \in Messages /\ "stop_cfm" \notin ChargerKinds \cup {"prompt"}
    BY DEF Messages, ChargerKinds
  <2>4. Kept(d')
    BY <1>1, <1>3, <2>1, <2>2, <2>3, SendKept
  <2> QED
    BY <1>2, <2>4
<1>12. CASE PromptEnds
  <2>1. /\ d.on /\ d.playing > 0 /\ ~HasKind(d.mq, "change")
        /\ d' = [d EXCEPT !.playing = @ - 1, !.mq = <<Plain("prompt")>> \o @]
    BY <1>12 DEF PromptEnds, Unread, HasKind, Plain
  <2>2. Kept(d')
    BY <1>1, <1>3, <2>1, PromptEndsKept
  <2> QED
    BY <1>2, <2>2
<1>13. CASE ClientsResponded
  <2>1. d.on /\ \/ d.connected /\ d' = [d EXCEPT !.pm = "ok"]
                \/ d' = SystemState_EmergencyShutdown(d)
    BY <1>13 DEF ClientsResponded
  <2>2. CASE d.connected /\ d' = [d EXCEPT !.pm = "ok"]
    <3>1. Kept(d')
      BY <1>1, <1>3, <2>1, <2>2, GivenUpKept
    <3> QED
      BY <1>2, <3>1
  <2>3. CASE d' = SystemState_EmergencyShutdown(d)
    <3>1. Coherent(d.ss)
      BY <1>3, <2>1 DEF Good
    <3>2. d' \in States /\ ~d'.on
      BY <1>1, <2>3, <3>1, EmergencyMoves
    <3> QED
      BY <1>2, <3>2 DEF Kept
  <2> QED
    BY <2>1, <2>2, <2>3
<1>14. CASE PlugOrUnplug
  <2>1. /\ \A i \in 1 .. Len(d.mq) : d.mq[i].k \notin ChargerKinds
        /\ d.on
        /\ d' = Send([d EXCEPT !.plugged = ~d.plugged],
                     IF d.plugged THEN "charger_off" ELSE "charger_on")
    BY <1>14 DEF PlugOrUnplug, Event, ChargerKinds
  <2>2. \A k \in ChargerKinds : ~HasKind(d.mq, k)
    BY <2>1 DEF HasKind
  <2>3. d.plugged \in BOOLEAN
    BY <1>1 DEF States
  <2> PICK b \in BOOLEAN : b = ~d.plugged
    BY <2>3
  <2> PICK v : v = [d EXCEPT !.plugged = b]
    OBVIOUS
  <2>4. d' = Send(v, IF b THEN "charger_on" ELSE "charger_off")
    BY <2>1, <2>3
  <2>5. Kept(d')
    BY <1>1, <1>3, <2>1, <2>2, <2>4, PlugKept
  <2> QED
    BY <1>2, <2>5
<1>15. CASE UserPresses
  <2> PICK input \in {"ui_on", "ui_off", "ui_pair"} : Event(Send(d, input))
    BY <1>15 DEF UserPresses
  <2>1. d.on /\ d' = Send(d, input)
    BY DEF Event
  <2>2. input \in Messages /\ input \notin ChargerKinds \cup {"prompt"}
    BY DEF Messages, ChargerKinds
  <2>3. Kept(d')
    BY <1>1, <1>3, <1>4, <2>1, <2>2, SendKept
  <2> QED
    BY <1>2, <2>3
<1>16. CASE AudioChanges
  <2> PICK audio \in {"none", "a2dp", "call"} : Event(Send([d EXCEPT !.audio = audio], "audio"))
    BY <1>16 DEF AudioChanges
  <2> PICK v : v = [d EXCEPT !.audio = audio]
    OBVIOUS
  <2>1. d.on /\ d' = Send(v, "audio")
    BY DEF Event
  <2>2. Moves(d, v, d.ss, d.mq, d.playing)
    BY <1>1, AudioMoves
  <2>3. "audio" \in Messages /\ "audio" \notin ChargerKinds \cup {"prompt"}
    BY DEF Messages, ChargerKinds
  <2>4. Kept(d')
    BY <1>1, <1>3, <2>1, <2>2, <2>3, SendKept
  <2> QED
    BY <1>2, <2>4
<1>17. CASE PairingEnds \/ IdleTimeout
  <2> PICK k \in {"pair_cfm", "power_off"} : Event(Send(d, k))
    BY <1>17 DEF PairingEnds, IdleTimeout
  <2>1. d.on /\ d' = Send(d, k)
    BY DEF Event
  <2>2. k \in Messages /\ k \notin ChargerKinds \cup {"prompt"}
    BY DEF Messages, ChargerKinds
  <2>3. Kept(d')
    BY <1>1, <1>3, <1>4, <2>1, <2>2, SendKept
  <2> QED
    BY <1>2, <2>3
<1>18. CASE BatteryUnsafe
  <2>1. d.on /\ d' = appPowerOffRequest(d)
    BY <1>18 DEF BatteryUnsafe, Event
  <2>2. Kept(d')
    BY <1>1, <1>3, <2>1, RequestKept
  <2> QED
    BY <1>2, <2>2
<1>19. CASE UNCHANGED vars
  <2>1. d' = d
    BY <1>19 DEF vars
  <2>2. Kept(d')
    BY <1>1, <1>3, <2>1 DEF Kept
  <2> QED
    BY <1>2, <2>2
<1> QED
  BY <1>5, <1>6, <1>7, <1>8, <1>9, <1>10, <1>11, <1>12, <1>13, <1>14, <1>15, <1>16,
     <1>17, <1>18, <1>19 DEF Next

\* The two state machines of the headset never lose each other, whatever the
\* user, the charger, the battery and the prompts do, and however often.
THEOREM HeadsetInvariant == Spec => []IInv
<1>1. Init => IInv
  BY InitIInv
<1>2. IInv /\ [Next]_vars => IInv'
  BY NextIInv
<1> QED
  BY <1>1, <1>2, PTL DEF Spec

\* A headset is powering on for as long as the transition lasts and its prompt
\* plays: headset_sm is never left in POWERING_ON, where it ignores the user
\* and the charger.  All state keeps its types.
THEOREM HeadsetPoweringOn == Spec => []PoweringOnIsUnderWay
<1>1. IInv => PoweringOnIsUnderWay
  <2> SUFFICES ASSUME IInv PROVE PoweringOnIsUnderWay
    OBVIOUS
  <2>1. d \in States /\ (d.on => Good(d))
    BY DEF IInv
  <2>2. ASSUME Idle, d.sm = "POWERING_ON"
        PROVE  d.ss.state = "powering_on" /\ d.playing > 0
    <3>1. OnUnderWay(d) /\ d.mq = << >>
      BY <2>1, <2>2 DEF Idle, Good
    <3>2. ~Has(d.mq, PoweredOn) /\ ~HasKind(d.mq, "prompt")
      BY <3>1 DEF Has, HasKind
    <3> QED
      BY <2>2, <3>1, <3>2 DEF OnUnderWay
  <2> QED
    BY <2>1, <2>2 DEF PoweringOnIsUnderWay, TypeOK
<1> QED
  BY <1>1, HeadsetInvariant, PTL

\* A headset that has gone to limbo together with system_state and that has
\* no charger is on its way to being switched off.
THEOREM HeadsetLimbo == Spec => []LimboIsLeft
<1>1. IInv => LimboIsLeft
  <2> SUFFICES ASSUME IInv, Idle, d.sm = "LIMBO", ~d.alone, ~d.connected
               PROVE  d.ss.state = "limbo" /\ (d.limboTimer \/ d.pm # "ok")
    BY DEF LimboIsLeft
  <2>1. InLimbo(d) /\ LimboEnds(d) /\ d.mq = << >>
    BY DEF IInv, Idle, Good
  <2>2. ~Has(d.mq, PoweringOn) /\ ~HasKind(d.mq, "detached")
    BY <2>1 DEF Has, HasKind
  <2> QED
    BY <2>1, <2>2 DEF InLimbo, LimboEnds
<1> QED
  BY <1>1, HeadsetInvariant, PTL

=============================================================================
