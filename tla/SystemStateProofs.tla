------------------------- MODULE SystemStateProofs -------------------------
(***************************************************************************)
(* Proofs about the transition engine: for every set of tables, and        *)
(* whatever the order of calls and confirmations, no transition loses its  *)
(* wake-up and no stable state is left half-way through a table.           *)
(***************************************************************************)
EXTENDS SystemState, TLAPS, WellFoundedInduction

\* Every non-empty set of natural numbers has a least element.
LEMMA MinOfNats ==
    ASSUME NEW S \in SUBSET Nat, S # {}
    PROVE  Min(S) \in S /\ \A k \in S : Min(S) <= k
<1> DEFINE R == {p \in Nat \X Nat : p[1] < p[2]}
<1>1. OpToRel(<, Nat) = R
  BY DEF OpToRel
<1>2. IsWellFoundedOn(R, Nat)
  BY <1>1, NatLessThanWellFounded, Zenon
<1>3. PICK x \in S : \A y \in S : ~ (<<y, x>> \in R)
  <2> HIDE DEF R
  <2> QED BY <1>2, WFMin
<1>4. ASSUME NEW y \in S PROVE x <= y
  <2>1. ~ (<<y, x>> \in R)
    BY <1>3
  <2>2. x \in Nat /\ y \in Nat /\ ~ (y < x)
    BY <2>1
  <2> QED BY <2>2
<1> QED
  BY <1>4 DEF Min

\* The tables are sequences over MsgIds and NoMsg.
LEMMA TableType ==
    ASSUME NEW t \in Transitions
    PROVE  /\ Count(t) \in Nat
           /\ \A i \in 0 .. Count(t) - 1 : AsyncId(t, i) \in MsgIds \cup {NoMsg}
BY TableAssumption DEF Count, AsyncId

\* What the engine's invariant says of a context s.
Coherent(s) ==
    /\ s.state \in Transitional =>
          /\ <<s.transition, s.onCompletion>> = WalkOf(s)
          /\ Paused(s)
          /\ s.ran = s.index + 1
    /\ s.state \in Stable /\ s.transition # NoTransition =>
          /\ s.state = s.onCompletion
          /\ s.index >= Count(s.transition)
          /\ s.ran = Count(s.transition)

\* The inductive invariant of the engine.
Inv == TypeOK /\ Coherent(ss)

\* systemState_SetState keeps the context well-typed and changes nothing but
\* the state and the list of messages.
LEMMA SetStateType ==
    ASSUME NEW s \in Contexts, NEW new \in States
    PROVE  LET r == SetState(s, new) IN
           /\ r \in Contexts
           /\ r.state = new
           /\ r.transition = s.transition
           /\ r.index = s.index
           /\ r.onCompletion = s.onCompletion
           /\ r.limboRemoved = s.limboRemoved
           /\ r.ran = s.ran
           /\ r.posted = s.posted
           /\ r.changes = Append(s.changes, <<s.state, new>>)
<1>1. s.state \in States /\ s.changes \in Seq(States \X States)
  BY DEF Contexts
<1>2. <<s.state, new>> \in States \X States
  BY <1>1
<1> DEFINE c == Append(s.changes, <<s.state, new>>)
<1>3. c \in Seq(States \X States)
  <2> HIDE DEF States
  <2> QED BY <1>1, <1>2
<1> HIDE DEF c
<1>4. SetState(s, new) = [s EXCEPT !.state = new, !.changes = c]
  BY DEF SetState, c
<1>5. c = Append(s.changes, <<s.state, new>>)
  BY DEF c
<1> QED
  BY <1>3, <1>4, <1>5 DEF Contexts

\* A walk that has steps left to run pauses at one of them and asks for its
\* confirmation; one that has none left reaches the end state.
LEMMA WalkFromResult ==
    ASSUME NEW s \in Contexts, s.transition \in Transitions, NEW i \in Nat,
           i < Count(s.transition) => s.ran = i,
           i >= Count(s.transition) => s.ran = Count(s.transition)
    PROVE  LET r == WalkFrom(s, i) IN
           /\ r \in Contexts
           /\ r.transition = s.transition
           /\ r.onCompletion = s.onCompletion
           /\ r.limboRemoved = s.limboRemoved
           /\ \/ /\ i < Count(s.transition) /\ r.state = s.state /\ Paused(r)
                 /\ r.ran = r.index + 1
              \/ /\ r.state = s.onCompletion /\ r.index >= Count(s.transition)
                 /\ r.ran = Count(s.transition)
<1> DEFINE t == s.transition
           P == PausesFrom(t, i)
<1>1. Count(t) \in Nat /\ \A j \in 0 .. Count(t) - 1 : AsyncId(t, j) \in MsgIds \cup {NoMsg}
  BY TableType
<1>2. CASE P = {}
  <2> DEFINE n == IF i < Count(t) THEN Count(t) ELSE i
             c == Count(t)
             s1 == [s EXCEPT !.index = n, !.ran = c]
  <2>0. s.ran \in Nat /\ s.index \in Nat
    BY DEF Contexts
  <2>1. n \in Nat /\ n >= Count(t)
    BY <1>1
  <2>2. s1 \in Contexts
    BY <1>1, <2>1 DEF Contexts
  <2>3. WalkFrom(s, i) = SetState(s1, s.onCompletion)
    <3>1. CASE i < Count(t)
      <4>1. s.ran + Count(t) - i = c
        BY <1>1, <2>0, <3>1
      <4> QED BY <1>2, <3>1, <4>1 DEF WalkFrom, CompleteTransition, Contexts
    <3>2. CASE ~ (i < Count(t))
      <4>1. s.ran = c
        BY <1>1, <2>0, <3>2
      <4>2. [s EXCEPT !.index = i] = s1
        BY <3>2, <4>1 DEF Contexts
      <4>3. [s EXCEPT !.index = i].onCompletion = s.onCompletion
        BY DEF Contexts
      <4> QED BY <1>2, <3>2, <4>2, <4>3 DEF WalkFrom, CompleteTransition
    <3> QED BY <3>1, <3>2
  <2>4. s.onCompletion \in States
    BY DEF Contexts
  <2>5. s1.index = n /\ s1.transition = t /\ s1.onCompletion = s.onCompletion
        /\ s1.limboRemoved = s.limboRemoved /\ s1.ran = c
    BY DEF Contexts
  <2> HIDE DEF s1, n
  <2> DEFINE r == SetState(s1, s.onCompletion)
  <2>6. /\ r \in Contexts /\ r.state = s.onCompletion /\ r.transition = s1.transition
        /\ r.index = s1.index /\ r.onCompletion = s1.onCompletion
        /\ r.limboRemoved = s1.limboRemoved /\ r.ran = s1.ran
    BY <2>2, <2>4, SetStateType
  <2> QED
    BY <2>1, <2>3, <2>5, <2>6
<1>3. CASE P # {}
  <2> DEFINE j == Min(P)
             a == AsyncId(t, j)
  <2>1. j \in P
    BY <1>1, <1>3, MinOfNats DEF PausesFrom
  <2>2. j \in Nat /\ i < Count(t) /\ j < Count(t) /\ a \in MsgIds /\ a # NoMsg
    BY <1>1, <2>1, TableAssumption DEF PausesFrom
  <2> HIDE DEF j
  <2> DEFINE np == [s.posted EXCEPT ![a] = @ + 1]
             m == j + 1
             r == [s EXCEPT !.index = j, !.ran = m, !.posted = np]
  <2>3. s.posted \in [MsgIds -> Nat] /\ s.ran \in Nat
    BY DEF Contexts
  <2>4. np \in [MsgIds -> Nat] /\ np[a] > 0
    BY <2>2, <2>3
  <2>5. WalkFrom(s, i) = r
    <3>1. s.ran + j - i + 1 = m
      BY <2>2, <2>3
    <3> QED BY <1>3, <3>1 DEF WalkFrom, j
  <2>8. m \in Nat /\ m = j + 1
    BY <2>2
  <2> HIDE DEF np, m
  <2>6. /\ r \in Contexts /\ r.state = s.state /\ r.transition = t
        /\ r.onCompletion = s.onCompletion /\ r.limboRemoved = s.limboRemoved
        /\ r.index = j /\ r.posted = np /\ r.ran = m
    BY <2>2, <2>4, <2>8 DEF Contexts
  <2> HIDE DEF r
  <2>7. Paused(r)
    BY <2>2, <2>4, <2>6 DEF Paused
  <2> QED
    BY <2>2, <2>5, <2>6, <2>7, <2>8
<1> QED
  BY <1>2, <1>3

\* A walk on behalf of a transitional state leaves a coherent context.
LEMMA WalkFromCoherent ==
    ASSUME NEW s \in Contexts, s.state \in Transitional,
           <<s.transition, s.onCompletion>> = WalkOf(s), NEW i \in Nat,
           s.ran = i, i <= Count(s.transition)
    PROVE  WalkFrom(s, i) \in Contexts /\ Coherent(WalkFrom(s, i))
<1>1. s.transition \in Transitions /\ s.onCompletion \in Stable
  BY DEF WalkOf, Base, Transitional, Transitions, Stable, Contexts
<1> DEFINE r == WalkFrom(s, i)
<1>2. /\ r \in Contexts
      /\ r.transition = s.transition
      /\ r.onCompletion = s.onCompletion
      /\ r.limboRemoved = s.limboRemoved
      /\ \/ r.state = s.state /\ Paused(r) /\ r.ran = r.index + 1
         \/ /\ r.state = s.onCompletion /\ r.index >= Count(s.transition)
            /\ r.ran = Count(s.transition)
  <2>1. Count(s.transition) \in Nat
    BY <1>1, TableType
  <2>2. i >= Count(s.transition) => s.ran = Count(s.transition)
    BY <2>1
  <2> QED BY <1>1, <2>2, WalkFromResult
<1> HIDE DEF r
<1>3. ASSUME r.state = s.state /\ Paused(r) /\ r.ran = r.index + 1
      PROVE  Coherent(r)
  <2>1. WalkOf(r) = WalkOf(s)
    BY <1>2, <1>3 DEF WalkOf, Base
  <2>2. r.state \notin Stable
    BY <1>3 DEF Stable, Transitional
  <2> QED BY <1>2, <1>3, <2>1, <2>2 DEF Coherent
<1>4. ASSUME /\ r.state = s.onCompletion /\ r.index >= Count(s.transition)
             /\ r.ran = Count(s.transition)
      PROVE  Coherent(r)
  <2>1. r.state \notin Transitional
    BY <1>1, <1>4 DEF Stable, Transitional
  <2> QED BY <1>2, <1>4, <2>1 DEF Coherent
<1> QED
  BY <1>2, <1>3, <1>4 DEF r

\* A new transition leaves a coherent context, whatever it replaces.
LEMMA SetupAndRunCoherent ==
    ASSUME NEW s \in Contexts, NEW via \in Transitional,
           NEW t \in Transitions, NEW end \in Stable,
           \A z \in Contexts : z.state = via /\ z.limboRemoved = s.limboRemoved
                => WalkOf(z) = <<t, end>>
    PROVE  LET r == SetupAndRun(SetState(s, via), t, end)
           IN  r \in Contexts /\ Coherent(r)
<1> DEFINE s1 == SetState(s, via)
           s2 == [s1 EXCEPT !.transition = t, !.onCompletion = end, !.ran = 0]
<1>1. via \in States /\ end \in States
  BY DEF States
<1>2. s1 \in Contexts /\ s1.state = via /\ s1.limboRemoved = s.limboRemoved
  BY <1>1, SetStateType
<1> HIDE DEF s1
<1>3. /\ s2 \in Contexts /\ s2.state = via /\ s2.limboRemoved = s.limboRemoved
      /\ s2.transition = t /\ s2.onCompletion = end /\ s2.ran = 0
  BY <1>1, <1>2 DEF Contexts
<1>4. SetupAndRun(s1, t, end) = WalkFrom(s2, 0)
  BY DEF SetupAndRun
<1> HIDE DEF s2
<1>5. WalkFrom(s2, 0) \in Contexts /\ Coherent(WalkFrom(s2, 0))
  <2>1. 0 <= Count(t)
    BY TableType
  <2> QED BY <1>3, <2>1, WalkFromCoherent
<1> QED
  BY <1>4, <1>5 DEF s1

\* Every operation keeps the context coherent.
LEMMA OperationsCoherent ==
    ASSUME NEW s \in Contexts, Coherent(s)
    PROVE  /\ Initialise(s) \in Contexts /\ Coherent(Initialise(s))
           /\ StartUp(s) \in Contexts /\ Coherent(StartUp(s))
           /\ PowerOn(s) \in Contexts /\ Coherent(PowerOn(s))
           /\ PowerOff(s) \in Contexts /\ Coherent(PowerOff(s))
           /\ Sleep(s) \in Contexts /\ Coherent(Sleep(s))
           /\ Shutdown(s) \in Contexts /\ Coherent(Shutdown(s))
           /\ EmergencyShutdown(s) \in Contexts /\ Coherent(EmergencyShutdown(s))
<1>0. Base(s) \in Stable
  BY DEF Base, Stable
<1>1. Initialise(s) \in Contexts /\ Coherent(Initialise(s))
  <2>1. \A z \in Contexts : z.state = "initialisation" => WalkOf(z) = <<"init", "initialised">>
    BY DEF WalkOf
  <2>2. LET r == SetupAndRun(SetState(s, "initialisation"), "init", "initialised")
        IN  r \in Contexts /\ Coherent(r)
    BY <2>1, SetupAndRunCoherent DEF Transitional, Stable, Transitions
  <2> QED BY <2>2 DEF Initialise, InitiateTransition
<1>2. StartUp(s) \in Contexts /\ Coherent(StartUp(s))
  <2>1. \A z \in Contexts : z.state = "starting_up" /\ z.limboRemoved = s.limboRemoved
            => WalkOf(z) = <<"startup", Base(s)>>
    BY DEF WalkOf, Base
  <2>2. LET r == SetupAndRun(SetState(s, "starting_up"), "startup", Base(s))
        IN  r \in Contexts /\ Coherent(r)
    BY <1>0, <2>1, SetupAndRunCoherent DEF Transitional, Transitions
  <2> QED BY <2>2 DEF StartUp, InitiateTransition
<1>3. PowerOn(s) \in Contexts /\ Coherent(PowerOn(s))
  <2>1. \A z \in Contexts : z.state = "powering_on" => WalkOf(z) = <<"power_on", "active">>
    BY DEF WalkOf
  <2>2. LET r == SetupAndRun(SetState(s, "powering_on"), "power_on", "active")
        IN  r \in Contexts /\ Coherent(r)
    BY <2>1, SetupAndRunCoherent DEF Transitional, Stable, Transitions
  <2> QED BY <2>2 DEF PowerOn, InitiateTransition
<1>4. PowerOff(s) \in Contexts /\ Coherent(PowerOff(s))
  <2>1. \A z \in Contexts : z.state = "powering_off" => WalkOf(z) = <<"power_off", "limbo">>
    BY DEF WalkOf
  <2>2. LET r == SetupAndRun(SetState(s, "powering_off"), "power_off", "limbo")
        IN  r \in Contexts /\ Coherent(r)
    BY <2>1, SetupAndRunCoherent DEF Transitional, Stable, Transitions
  <2> QED BY <2>2 DEF PowerOff, InitiateTransition
<1>5. Sleep(s) \in Contexts /\ Coherent(Sleep(s))
  <2>1. \A z \in Contexts : z.state = "going_to_sleep" => WalkOf(z) = <<"sleep", "sleeping">>
    BY DEF WalkOf
  <2>2. LET r == SetupAndRun(SetState(s, "going_to_sleep"), "sleep", "sleeping")
        IN  r \in Contexts /\ Coherent(r)
    BY <2>1, SetupAndRunCoherent DEF Transitional, Stable, Transitions
  <2> QED BY <2>2 DEF Sleep, InitiateTransition
<1>6. Shutdown(s) \in Contexts /\ Coherent(Shutdown(s))
  <2>1. \A z \in Contexts : z.state = "shutting_down" => WalkOf(z) = <<"shutdown", "powered_off">>
    BY DEF WalkOf
  <2>2. LET r == SetupAndRun(SetState(s, "shutting_down"), "shutdown", "powered_off")
        IN  r \in Contexts /\ Coherent(r)
    BY <2>1, SetupAndRunCoherent DEF Transitional, Stable, Transitions
  <2> QED BY <2>2 DEF Shutdown, InitiateTransition
<1>7. EmergencyShutdown(s) \in Contexts /\ Coherent(EmergencyShutdown(s))
  <2>1. \A z \in Contexts : z.state = "shutting_down_promptly"
            => WalkOf(z) = <<"emergency_shutdown", "powered_off">>
    BY DEF WalkOf
  <2>2. LET r == SetupAndRun(SetState(s, "shutting_down_promptly"),
                             "emergency_shutdown", "powered_off")
        IN  r \in Contexts /\ Coherent(r)
    BY <2>1, SetupAndRunCoherent DEF Transitional, Stable, Transitions
  <2> QED BY <2>2 DEF EmergencyShutdown
<1> QED
  BY <1>1, <1>2, <1>3, <1>4, <1>5, <1>6, <1>7

\* A confirmation, expected or late, keeps the context coherent.
LEMMA MessageHandlerCoherent ==
    ASSUME NEW s \in Contexts, Coherent(s), NEW id \in MsgIds, s.posted[id] > 0,
           NEW r \in MessageHandler([s EXCEPT !.posted[id] = @ - 1], id)
    PROVE  r \in Contexts /\ Coherent(r)
<1> DEFINE np == [s.posted EXCEPT ![id] = @ - 1]
           s1 == [s EXCEPT !.posted = np]
           t == s.transition
<1>0. s.posted \in [MsgIds -> Nat]
  BY DEF Contexts
<1>1. np \in [MsgIds -> Nat] /\ \A a \in MsgIds : a # id => np[a] = s.posted[a]
  BY <1>0
<1> HIDE DEF np
<1>2. /\ s1 \in Contexts /\ s1.state = s.state /\ s1.transition = t
      /\ s1.index = s.index /\ s1.onCompletion = s.onCompletion
      /\ s1.limboRemoved = s.limboRemoved /\ s1.posted = np /\ s1.ran = s.ran
  BY <1>1 DEF Contexts
<1>3. r \in MessageHandler(s1, id)
  BY DEF np
<1> HIDE DEF s1
<1>4. /\ s.state \in States /\ s.index \in Nat /\ t \in Transitions \cup {NoTransition}
      /\ s.onCompletion \in States
  BY DEF Contexts
<1>5. WalkOf(s1) = WalkOf(s)
  BY <1>2 DEF WalkOf, Base
<1>6. s.state \in Transitional => t \in Transitions /\ t # NoTransition
  BY DEF Coherent, WalkOf, Base, Transitional, Transitions, NoTransition
<1>7. s.state \in Transitional => s.state \notin Stable
  BY DEF Stable, Transitional
<1>8. ASSUME s.state \in Stable PROVE Coherent(s1)
  BY <1>2, <1>7, <1>8 DEF Coherent
<1>9. CASE s.state \in Stable
  <2>1. CASE r = s1
    BY <1>2, <1>8, <1>9, <2>1
  <2>2. CASE r # s1
    <3>1. t # NoTransition /\ t \in Transitions /\ s.index >= Count(t) /\ r = DoTransition(s1)
      BY <1>2, <1>3, <1>4, <1>9, <2>2, TableType DEF MessageHandler, Coherent
    <3>2. s.state = s.onCompletion /\ s.ran = Count(t)
      BY <1>9, <3>1 DEF Coherent
    <3>3. r = WalkFrom(s1, s.index + 1)
      BY <1>2, <3>1 DEF DoTransition
    <3>4. Count(t) \in Nat /\ s.index + 1 \in Nat /\ ~ (s.index + 1 < Count(t))
      BY <1>4, <3>1, TableType
    <3>5. /\ r \in Contexts /\ r.transition = t /\ r.onCompletion = s.onCompletion
          /\ r.state = s.onCompletion /\ r.index >= Count(t) /\ r.ran = Count(t)
      BY <1>2, <3>1, <3>2, <3>3, <3>4, WalkFromResult
    <3> QED BY <1>7, <1>9, <3>2, <3>5 DEF Coherent
  <2> QED BY <2>1, <2>2
<1>10. CASE s.state \in Transitional
  <2>1. <<t, s.onCompletion>> = WalkOf(s) /\ Paused(s) /\ s.ran = s.index + 1
    BY <1>10 DEF Coherent
  <2>2. /\ s.index < Count(t) /\ AsyncId(t, s.index) # NoMsg
        /\ s.posted[AsyncId(t, s.index)] > 0
    BY <2>1 DEF Paused
  <2>3. Count(t) \in Nat /\ AsyncId(t, s.index) \in MsgIds
    BY <1>4, <1>6, <1>10, <2>2, TableType
  <2>4. Table[t] # << >> /\ ~ (s.index >= Count(t))
    BY <1>4, <2>2, <2>3 DEF Count
  <2>5. r = IF id # AsyncId(t, s.index) THEN s1 ELSE DoTransition(s1)
    BY <1>2, <1>3, <1>6, <1>10, <2>4 DEF MessageHandler
  <2>6. CASE id # AsyncId(t, s.index)
    <3>1. Paused(s1)
      BY <1>1, <1>2, <2>2, <2>3, <2>6 DEF Paused
    <3> QED BY <1>2, <1>5, <1>7, <1>10, <2>1, <2>5, <2>6, <3>1 DEF Coherent
  <2>7. CASE id = AsyncId(t, s.index)
    <3>1. /\ r = WalkFrom(s1, s.index + 1) /\ s.index + 1 \in Nat
          /\ s.index + 1 <= Count(t)
      BY <1>2, <1>4, <2>2, <2>3, <2>5, <2>7 DEF DoTransition
    <3> QED BY <1>2, <1>5, <1>10, <2>1, <3>1, WalkFromCoherent
  <2> QED BY <2>6, <2>7
<1> QED
  BY <1>4, <1>9, <1>10 DEF States

\* A handler starts with an empty list of messages, which breaks nothing.
LEMMA FreshCoherent ==
    ASSUME Inv
    PROVE  /\ Fresh \in Contexts /\ Coherent(Fresh)
           /\ Fresh.posted = ss.posted /\ Fresh.state = ss.state
           /\ Fresh.transition = ss.transition
<1> DEFINE f == [ss EXCEPT !.changes = << >>]
<1>1. << >> \in Seq(States \X States)
  <2> HIDE DEF States
  <2> QED OBVIOUS
<1>2. /\ f \in Contexts /\ f.state = ss.state /\ f.transition = ss.transition
      /\ f.index = ss.index /\ f.onCompletion = ss.onCompletion
      /\ f.limboRemoved = ss.limboRemoved /\ f.posted = ss.posted
      /\ f.ran = ss.ran
  BY <1>1 DEF Inv, TypeOK, Contexts
<1>3. Fresh = f
  BY DEF Fresh
<1> HIDE DEF f
<1>4. WalkOf(f) = WalkOf(ss) /\ (Paused(ss) => Paused(f))
  BY <1>2 DEF WalkOf, Base, Paused
<1> QED
  BY <1>2, <1>3, <1>4 DEF Inv, Coherent

\* The invariant holds in every reachable state.
THEOREM EngineInvariant == Spec => []Inv
<1>1. Init => Inv
  <2> SUFFICES ASSUME Init PROVE Inv
    OBVIOUS
  <2>1. << >> \in Seq(States \X States)
    <3> HIDE DEF States
    <3> QED OBVIOUS
  <2>2. ss \in Contexts
    BY <2>1 DEF Init, InitialContext, Contexts, States, Stable, NoTransition
  <2>3. ss.state = "powered_off" /\ ss.transition = NoTransition
    BY DEF Init, InitialContext
  <2> QED BY <2>2, <2>3 DEF Inv, TypeOK, Coherent, Transitional
<1>2. Inv /\ [Next]_ss => Inv'
  <2> SUFFICES ASSUME Inv, [Next]_ss PROVE Inv'
    OBVIOUS
  <2>0. SUFFICES ss' \in Contexts /\ Coherent(ss')
    BY DEF Inv, TypeOK, Coherent, WalkOf, Base, Paused
  <2>1. Fresh \in Contexts /\ Coherent(Fresh) /\ Fresh.posted = ss.posted
    BY FreshCoherent
  <2>2. CASE SystemState_RemoveLimboState
    <3> DEFINE f == Fresh
               r == [f EXCEPT !.limboRemoved = TRUE]
    <3>1. f \in Contexts /\ f.state = "powered_off" /\ f.transition = NoTransition
      BY <2>2, FreshCoherent DEF SystemState_RemoveLimboState
    <3> HIDE DEF f
    <3>2. r \in Contexts /\ r.state = "powered_off" /\ r.transition = NoTransition
      BY <3>1 DEF Contexts
    <3>3. ss' = r
      BY <2>2 DEF SystemState_RemoveLimboState, f
    <3> HIDE DEF r
    <3> QED BY <3>2, <3>3 DEF Coherent, Transitional
  <2>3. CASE SystemState_Initialise
    BY <2>1, <2>3, OperationsCoherent DEF SystemState_Initialise
  <2>4. CASE SystemState_StartUp
    BY <2>1, <2>4, OperationsCoherent DEF SystemState_StartUp
  <2>5. CASE SystemState_PowerOn
    BY <2>1, <2>5, OperationsCoherent DEF SystemState_PowerOn
  <2>6. CASE SystemState_PowerOff
    BY <2>1, <2>6, OperationsCoherent DEF SystemState_PowerOff
  <2>7. CASE SystemState_Sleep
    BY <2>1, <2>7, OperationsCoherent DEF SystemState_Sleep
  <2>8. CASE SystemState_Shutdown
    BY <2>1, <2>8, OperationsCoherent DEF SystemState_Shutdown
  <2>9. CASE SystemState_EmergencyShutdown
    BY <2>1, <2>9, OperationsCoherent DEF SystemState_EmergencyShutdown
  <2>10. CASE \E id \in MsgIds : Deliver(id)
    <3>1. PICK id \in MsgIds : Deliver(id)
      BY <2>10
    <3>2. ss.posted[id] > 0 /\ ss' \in MessageHandler([Fresh EXCEPT !.posted[id] = @ - 1], id)
      BY <3>1 DEF Deliver
    <3> QED BY <2>1, <3>2, MessageHandlerCoherent
  <2>11. CASE UNCHANGED ss
    BY <2>11 DEF Inv, TypeOK
  <2> QED
    BY <2>2, <2>3, <2>4, <2>5, <2>6, <2>7, <2>8, <2>9, <2>10, <2>11 DEF Next
<1> QED
  BY <1>1, <1>2, PTL DEF Spec

\* The context keeps its types.
THEOREM EngineTypeOK == Spec => []TypeOK
BY EngineInvariant, PTL DEF Inv

\* For every table, no transition loses its wake-up: see NoLostWakeup.
THEOREM EngineNoLostWakeup == Spec => []NoLostWakeup
<1>1. Inv => NoLostWakeup
  BY DEF Inv, Coherent, NoLostWakeup
<1> QED
  BY <1>1, EngineInvariant, PTL

\* For every table, a stable state is a finished transition: see
\* StableIsFinished.
THEOREM EngineStableIsFinished == Spec => []StableIsFinished
<1>1. Inv => StableIsFinished
  BY DEF Inv, Coherent, StableIsFinished
<1> QED
  BY <1>1, EngineInvariant, PTL

-----------------------------------------------------------------------------
(***************************************************************************)
(* The state changes that listeners are told of.  Told(r) says of the      *)
(* context r that an operation started in ss has reached so far that its   *)
(* messages lead from the state of ss to that of r along allowed changes.  *)
(***************************************************************************)
Path(c, new) ==
    /\ \A k \in 1 .. Len(c) : Allowed(c[k][1], c[k][2])
    /\ \A k \in 1 .. Len(c) - 1 : c[k][2] = c[k + 1][1]
    /\ IF c = << >> THEN new = ss.state
       ELSE c[1][1] = ss.state /\ c[Len(c)][2] = new

Told(r) ==
    /\ r \in Contexts
    /\ r.limboRemoved = ss.limboRemoved
    /\ Path(r.changes, r.state)

\* systemState_SetState tells the listeners of the change it makes.
LEMMA SetStateTold ==
    ASSUME NEW s, Told(s), NEW new \in States, Allowed(s.state, new)
    PROVE  Told(SetState(s, new))
<1> DEFINE c == s.changes
           p == <<s.state, new>>
           d == Append(c, p)
           r == SetState(s, new)
           n == Len(c)
<1>1. /\ r \in Contexts /\ r.state = new /\ r.limboRemoved = ss.limboRemoved
      /\ r.changes = d
  BY SetStateType DEF Told
<1>2. c \in Seq(States \X States) /\ s.state \in States
  BY DEF Told, Contexts
<1>3. /\ n \in Nat /\ Len(d) = n + 1 /\ d[n + 1] = p
      /\ \A k \in 1 .. n : d[k] = c[k]
      /\ c = << >> <=> n = 0
  <2>1. p \in States \X States
    BY <1>2
  <2> HIDE DEF States, p, c
  <2> QED BY <1>2, <2>1
<1>4. p[1] = s.state /\ p[2] = new
  OBVIOUS
<1>5. Path(c, s.state)
  BY DEF Told
<1> HIDE DEF c, d, n, p, r
<1>6. ASSUME NEW k \in 1 .. Len(d) PROVE Allowed(d[k][1], d[k][2])
  <2>1. CASE k = n + 1
    BY <1>3, <1>4, <2>1
  <2>2. CASE k # n + 1
    <3>1. k \in 1 .. n
      BY <1>3, <2>2
    <3> QED BY <1>3, <1>5, <3>1 DEF Path, n
  <2> QED BY <2>1, <2>2
<1>7. ASSUME NEW k \in 1 .. Len(d) - 1 PROVE d[k][2] = d[k + 1][1]
  <2>1. k \in 1 .. n /\ n # 0 /\ c # << >>
    BY <1>3
  <2>2. CASE k = n
    <3>1. c[n][2] = s.state
      BY <1>5, <2>1 DEF Path, n
    <3> QED BY <1>3, <1>4, <2>1, <2>2, <3>1
  <2>3. CASE k # n
    <3>1. k \in 1 .. n - 1 /\ k + 1 \in 1 .. n
      BY <1>3, <2>1, <2>3
    <3>2. c[k][2] = c[k + 1][1]
      BY <1>5, <3>1 DEF Path, n
    <3> QED BY <1>3, <2>1, <3>1, <3>2
  <2> QED BY <2>2, <2>3
<1>8. d # << >> /\ d[1][1] = ss.state /\ d[Len(d)][2] = new
  <2>1. d # << >>
    BY <1>3
  <2>2. d[Len(d)][2] = new
    BY <1>3, <1>4
  <2>3. CASE n = 0
    BY <1>3, <1>4, <1>5, <2>1, <2>2, <2>3 DEF Path
  <2>4. CASE n # 0
    <3>1. c # << >> /\ 1 \in 1 .. n
      BY <1>3, <2>4
    <3>2. c[1][1] = ss.state
      BY <1>5, <3>1 DEF Path
    <3> QED BY <1>3, <2>1, <2>2, <3>1, <3>2
  <2> QED BY <2>3, <2>4
<1>9. Path(d, new)
  BY <1>6, <1>7, <1>8 DEF Path
<1> QED BY <1>1, <1>9 DEF Told, r

\* What does not touch the state or the list leaves the path as it is.
LEMMA SameTold ==
    ASSUME NEW s, Told(s), NEW r \in Contexts, r.limboRemoved = s.limboRemoved,
           r.changes = s.changes, r.state = s.state
    PROVE  Told(r)
BY DEF Told

\* A walk changes the state only at its end, to the end state.
LEMMA WalkTold ==
    ASSUME NEW s, Told(s), s.transition \in Transitions, NEW i \in Nat,
           Allowed(s.state, s.onCompletion)
    PROVE  Told(WalkFrom(s, i))
<1> DEFINE t == s.transition
           P == PausesFrom(t, i)
<1>1. Count(t) \in Nat /\ \A j \in 0 .. Count(t) - 1 : AsyncId(t, j) \in MsgIds \cup {NoMsg}
  BY TableType
<1>2. s \in Contexts /\ s.ran \in Nat /\ s.posted \in [MsgIds -> Nat]
  BY DEF Told, Contexts
<1>3. CASE P = {}
  <2> DEFINE c == IF i < Count(t)
                  THEN [s EXCEPT !.index = Count(t), !.ran = @ + Count(t) - i]
                  ELSE [s EXCEPT !.index = i]
  <2>1. WalkFrom(s, i) = SetState(c, c.onCompletion)
    BY <1>3 DEF WalkFrom, CompleteTransition
  <2>2. /\ c \in Contexts /\ c.limboRemoved = s.limboRemoved /\ c.changes = s.changes
        /\ c.state = s.state /\ c.onCompletion = s.onCompletion
    <3>1. CASE i < Count(t)
      <4> DEFINE k == s.ran + Count(t) - i
                 m == Count(t)
      <4>1. k \in Nat /\ m \in Nat
        BY <1>1, <1>2, <3>1
      <4>2. c = [s EXCEPT !.index = m, !.ran = k]
        BY <3>1
      <4> HIDE DEF k, m, c
      <4> QED BY <1>2, <4>1, <4>2 DEF Contexts
    <3>2. CASE ~ (i < Count(t))
      <4>1. c = [s EXCEPT !.index = i]
        BY <3>2
      <4> HIDE DEF c
      <4> QED BY <1>2, <4>1 DEF Contexts
    <3> QED BY <3>1, <3>2
  <2> HIDE DEF c
  <2>3. c.onCompletion \in States
    BY <2>2 DEF Contexts
  <2>4. Told(c)
    BY <2>2, SameTold
  <2>5. Told(SetState(c, c.onCompletion))
    BY <2>2, <2>3, <2>4, SetStateTold
  <2> QED BY <2>1, <2>5
<1>4. CASE P # {}
  <2> DEFINE j == Min(P)
             a == AsyncId(t, j)
             k == s.ran + j - i + 1
             np == [s.posted EXCEPT ![a] = @ + 1]
             r == [s EXCEPT !.index = j, !.ran = k, !.posted = np]
  <2>1. j \in P
    BY <1>1, <1>4, MinOfNats DEF PausesFrom
  <2>2. j \in Nat /\ i <= j /\ a \in MsgIds
    BY <1>1, <2>1, TableAssumption DEF PausesFrom
  <2>3. WalkFrom(s, i) = r
    BY <1>4 DEF WalkFrom
  <2> HIDE DEF j
  <2>4. k \in Nat /\ np \in [MsgIds -> Nat]
    BY <1>2, <2>2
  <2> HIDE DEF k, np
  <2>5. /\ r \in Contexts /\ r.limboRemoved = s.limboRemoved /\ r.changes = s.changes
        /\ r.state = s.state
    BY <1>2, <2>2, <2>4 DEF Contexts
  <2> HIDE DEF r
  <2>6. Told(r)
    BY <2>5, SameTold
  <2> QED BY <2>3, <2>6
<1> QED BY <1>3, <1>4

\* A new transition changes the state to its transitional state and, if it
\* has no step to wait for, to its end state.
LEMMA SetupAndRunTold ==
    ASSUME NEW s, Told(s), NEW via \in States, NEW t \in Transitions,
           NEW end \in States, Allowed(s.state, via), Allowed(via, end)
    PROVE  Told(SetupAndRun(SetState(s, via), t, end))
<1> DEFINE s1 == SetState(s, via)
           s2 == [s1 EXCEPT !.transition = t, !.onCompletion = end, !.ran = 0]
<1>1. Told(s1) /\ s1 \in Contexts /\ s1.state = via
  BY SetStateTold, SetStateType DEF Told
<1> HIDE DEF s1
<1>2. /\ s2 \in Contexts /\ s2.state = s1.state /\ s2.limboRemoved = s1.limboRemoved
      /\ s2.changes = s1.changes /\ s2.transition = t /\ s2.onCompletion = end
  BY <1>1 DEF Contexts
<1>3. SetupAndRun(s1, t, end) = WalkFrom(s2, 0)
  BY DEF SetupAndRun
<1> HIDE DEF s2
<1>4. Told(s2)
  BY <1>1, <1>2, SameTold
<1>5. Told(WalkFrom(s2, 0))
  BY <1>1, <1>2, <1>4, WalkTold
<1> QED BY <1>3, <1>5 DEF s1

\* Where the limbo state was removed, nothing is powered on or off.
NoDetour == ss.limboRemoved => ss.state \notin {"powering_on", "powering_off"}

\* Every operation changes the state along the graph.
LEMMA OperationsTold ==
    ASSUME NEW s, Told(s)
    PROVE  /\ Told(Initialise(s)) /\ Told(StartUp(s)) /\ Told(PowerOn(s))
           /\ Told(PowerOff(s)) /\ Told(Sleep(s)) /\ Told(Shutdown(s))
           /\ Told(EmergencyShutdown(s))
<1>1. Base(s) = Base(ss) /\ s.limboRemoved = ss.limboRemoved /\ Base(s) \in States
  BY DEF Base, Told, States, Stable
<1> USE DEF Transitions
<1>2. /\ "initialisation" \in States /\ "initialised" \in States
      /\ "starting_up" \in States /\ "powering_on" \in States /\ "active" \in States
      /\ "powering_off" \in States /\ "limbo" \in States /\ "going_to_sleep" \in States
      /\ "sleeping" \in States /\ "shutting_down" \in States /\ "powered_off" \in States
      /\ "shutting_down_promptly" \in States
  BY DEF States, Stable, Transitional
<1>3. Told(Initialise(s))
  <2>1. /\ Allowed("powered_off", "initialisation")
        /\ Allowed("initialisation", "initialised")
    BY DEF Allowed
  <2> QED BY <1>2, <2>1, SetupAndRunTold DEF Initialise, InitiateTransition
<1>4. Told(StartUp(s))
  <2>1. /\ Allowed("initialised", "starting_up")
        /\ Allowed("starting_up", Base(s))
    BY <1>1 DEF Allowed
  <2> QED BY <1>1, <1>2, <2>1, SetupAndRunTold DEF StartUp, InitiateTransition
<1>5. Told(PowerOn(s))
  <2>1. CASE s.limboRemoved
    BY <2>1 DEF PowerOn
  <2>2. CASE ~s.limboRemoved
    <3>1. /\ Allowed("powering_off", "powering_on") /\ Allowed("limbo", "powering_on")
          /\ Allowed("powering_on", "active")
      BY <1>1, <2>2 DEF Allowed
    <3> QED BY <1>2, <2>2, <3>1, SetupAndRunTold DEF PowerOn, InitiateTransition
  <2> QED BY <2>1, <2>2
<1>6. Told(PowerOff(s))
  <2>1. CASE s.limboRemoved
    BY <2>1 DEF PowerOff
  <2>2. CASE ~s.limboRemoved
    <3>1. /\ Allowed("powering_on", "powering_off") /\ Allowed("active", "powering_off")
          /\ Allowed("powering_off", "limbo")
      BY <1>1, <2>2 DEF Allowed
    <3> QED BY <1>2, <2>2, <3>1, SetupAndRunTold DEF PowerOff, InitiateTransition
  <2> QED BY <2>1, <2>2
<1>7. Told(Sleep(s))
  <2>1. /\ Allowed(Base(s), "going_to_sleep") /\ Allowed("going_to_sleep", "sleeping")
    BY <1>1 DEF Allowed
  <2> QED BY <1>2, <2>1, SetupAndRunTold DEF Sleep, InitiateTransition
<1>8. Told(Shutdown(s))
  <2>1. /\ Allowed(Base(s), "shutting_down") /\ Allowed("shutting_down", "powered_off")
    BY <1>1 DEF Allowed
  <2> QED BY <1>2, <2>1, SetupAndRunTold DEF Shutdown, InitiateTransition
<1>9. Told(EmergencyShutdown(s))
  <2>1. /\ Allowed(s.state, "shutting_down_promptly")
        /\ Allowed("shutting_down_promptly", "powered_off")
    BY DEF Allowed
  <2> QED BY <1>2, <2>1, SetupAndRunTold DEF EmergencyShutdown
<1> QED BY <1>3, <1>4, <1>5, <1>6, <1>7, <1>8, <1>9

\* A confirmation, expected or late, changes the state along the graph.
LEMMA MessageHandlerTold ==
    ASSUME Inv, NoDetour, NEW id, NEW s, Told(s), s.state = ss.state,
           s.transition = ss.transition, s.index = ss.index,
           s.onCompletion = ss.onCompletion, NEW r \in MessageHandler(s, id)
    PROVE  Told(r)
<1>1. CASE r = s
  BY <1>1
<1>2. CASE r # s
  <2>1. r = WalkFrom(s, s.index + 1) /\ s.transition # NoTransition
    BY <1>2 DEF MessageHandler, DoTransition
  <2>2. /\ s.transition \in Transitions /\ s.index + 1 \in Nat
        /\ ss.state \in Stable \cup Transitional
    BY <2>1 DEF Told, Contexts, Inv, TypeOK, States
  <2>3. Allowed(s.state, s.onCompletion)
    <3>1. CASE ss.state \in Stable
      BY <2>1, <3>1 DEF Inv, Coherent, Allowed
    <3>2. CASE ss.state \in Transitional
      <4>1. <<ss.transition, ss.onCompletion>> = WalkOf(ss)
        BY <3>2 DEF Inv, Coherent
      <4> QED BY <3>2, <4>1 DEF WalkOf, Transitional, Allowed, NoDetour
    <3> QED BY <2>2, <3>1, <3>2
  <2> QED BY <2>1, <2>2, <2>3, WalkTold
<1> QED BY <1>1, <1>2

\* One step of the engine.
LEMMA StepTold ==
    ASSUME Inv, NoDetour, [Next]_ss
    PROVE  [ChangesFollowGraph]_ss /\ NoDetour'
<1>1. CASE UNCHANGED ss
  BY <1>1 DEF NoDetour
<1>2. CASE SystemState_RemoveLimboState
  <2> DEFINE f == Fresh
  <2>1. f \in Contexts /\ f.state = ss.state /\ f.changes = << >>
    BY FreshCoherent DEF Fresh, Inv, TypeOK, Contexts
  <2> HIDE DEF f
  <2>2. ss' = [f EXCEPT !.limboRemoved = TRUE] /\ ss.state = "powered_off"
    BY <1>2 DEF SystemState_RemoveLimboState, f
  <2>3. ss'.state = ss.state /\ ss'.changes = << >>
    BY <2>1, <2>2 DEF Contexts
  <2>4. ChangesFollowGraph
    BY <2>3 DEF ChangesFollowGraph
  <2> QED BY <2>2, <2>3, <2>4 DEF NoDetour
<1>3. ASSUME Told(ss') PROVE [ChangesFollowGraph]_ss /\ NoDetour'
  <2>1. Path(ss'.changes, ss'.state) /\ ss'.limboRemoved = ss.limboRemoved
    BY <1>3 DEF Told
  <2>2. ChangesFollowGraph
    BY <2>1 DEF ChangesFollowGraph, Path
  <2>3. NoDetour'
    <3>1. CASE ss'.changes = << >>
      BY <2>1, <3>1 DEF Path, NoDetour
    <3>2. CASE ss'.changes # << >>
      <4> DEFINE n == Len(ss'.changes)
      <4>1. n \in 1 .. n
        <5>1. ss'.changes \in Seq(States \X States)
          BY <1>3 DEF Told, Contexts
        <5> HIDE DEF States
        <5> QED BY <3>2, <5>1
      <4>2. Allowed(ss'.changes[n][1], ss'.state)
        BY <2>1, <3>2, <4>1 DEF Path
      <4> QED BY <2>1, <4>2 DEF Allowed, NoDetour, Stable, Base
    <3> QED BY <3>1, <3>2
  <2> QED BY <2>2, <2>3
<1>4. Told(Fresh)
  <2>1. /\ Fresh \in Contexts /\ Fresh.state = ss.state
        /\ Fresh.changes = << >> /\ Fresh.limboRemoved = ss.limboRemoved
    BY FreshCoherent DEF Fresh, Inv, TypeOK, Contexts
  <2> QED BY <2>1 DEF Told, Path
<1>5. CASE \/ SystemState_Initialise \/ SystemState_StartUp \/ SystemState_PowerOn
           \/ SystemState_PowerOff \/ SystemState_Sleep \/ SystemState_Shutdown
           \/ SystemState_EmergencyShutdown
  <2>1. Told(ss')
    BY <1>4, <1>5, OperationsTold
       DEF SystemState_Initialise, SystemState_StartUp, SystemState_PowerOn,
           SystemState_PowerOff, SystemState_Sleep, SystemState_Shutdown,
           SystemState_EmergencyShutdown
  <2> QED BY <1>3, <2>1
<1>6. CASE \E id \in MsgIds : Deliver(id)
  <2>1. PICK id \in MsgIds : Deliver(id)
    BY <1>6
  <2> DEFINE np == [ss.posted EXCEPT ![id] = @ - 1]
             s == [Fresh EXCEPT !.posted = np]
  <2>2. np \in [MsgIds -> Nat] /\ Fresh \in Contexts /\ Fresh.posted = ss.posted
    BY <2>1, FreshCoherent DEF Deliver, Inv, TypeOK, Contexts
  <2>3. ss' \in MessageHandler(s, id)
    BY <2>1, <2>2 DEF Deliver
  <2> HIDE DEF np
  <2>4. /\ Fresh.state = ss.state /\ Fresh.transition = ss.transition
        /\ Fresh.index = ss.index /\ Fresh.onCompletion = ss.onCompletion
    BY DEF Fresh, Inv, TypeOK, Contexts
  <2>5. /\ s \in Contexts /\ s.limboRemoved = Fresh.limboRemoved
        /\ s.changes = Fresh.changes /\ s.state = Fresh.state
        /\ s.transition = Fresh.transition /\ s.index = Fresh.index
        /\ s.onCompletion = Fresh.onCompletion
    BY <2>2 DEF Contexts
  <2> HIDE DEF s
  <2>6. Told(s)
    BY <1>4, <2>5, SameTold
  <2>7. Told(ss')
    BY <2>3, <2>4, <2>5, <2>6, MessageHandlerTold
  <2> QED BY <1>3, <2>7
<1> QED BY <1>1, <1>2, <1>5, <1>6 DEF Next

\* For every table, listeners are told of every change of state, in order and
\* without a gap, and every change is an allowed one: see TransitionGraph.
THEOREM EngineTransitionGraph == Spec => TransitionGraph
<1>1. Init => NoDetour
  BY DEF Init, InitialContext, NoDetour
<1>2. Inv /\ NoDetour /\ [Next]_ss => [ChangesFollowGraph]_ss /\ NoDetour'
  BY StepTold
<1> QED BY <1>1, <1>2, EngineInvariant, PTL DEF Spec, TransitionGraph
=============================================================================
