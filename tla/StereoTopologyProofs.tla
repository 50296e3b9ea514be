----------------------- MODULE StereoTopologyProofs -----------------------
(***************************************************************************)
(* For every set of handsets, every choice of calls and every number of    *)
(* events: no handler of the stereo topology panics.                       *)
(*                                                                         *)
(* The topology uses the operations of the goals engine and of the rules   *)
(* engine; what the proofs of those modules say of them is taken over by   *)
(* instantiating the modules in the way the topology does.                 *)
(***************************************************************************)
EXTENDS StereoTopology, SequenceTheorems, FiniteSetTheorems, TLAPS

GP == INSTANCE GoalsEngineProofs WITH
          None       <- NoGoal,
          Exclusive  <- ExclusiveGoal,
          Concurrent <- ConcurrentGoals,
          Slots      <- 8,
          MaxQueued  <- 0,
          MaxIgnored <- 0,
          gs         <- t.gs,
          proc       <- t.fn

RP == INSTANCE RulesEngineProofs WITH
          Events    <- RuleEvents,
          Count     <- Len(RuleTable),
          EventsOf  <- [r \in 1 .. Len(RuleTable) |-> {RuleTable[r][1]}],
          MessageOf <- [r \in 1 .. Len(RuleTable) |-> RuleTable[r][2]],
          Actions   <- {"run", "ignore"},
          MaxSent   <- 0,
          rs        <- t.rs,
          inbox     <- t.mq

-----------------------------------------------------------------------------
(* The tables satisfy the assumptions of the two engines *)

\* A set grows by at most one.
LEMMA OneMore ==
    ASSUME NEW S, IsFiniteSet(S), NEW n \in Nat, Cardinality(S) <= n, NEW x
    PROVE  IsFiniteSet(S \cup {x}) /\ Cardinality(S \cup {x}) <= n + 1
<1>1. Cardinality(S) \in Nat
  BY FS_CardinalityType
<1>2. /\ IsFiniteSet(S \cup {x})
      /\ Cardinality(S \cup {x}) = IF x \in S THEN Cardinality(S) ELSE Cardinality(S) + 1
  BY FS_AddElement
<1> QED BY <1>1, <1>2

\* There are not more goals than slots.
LEMMA GoalsFit == IsFiniteSet(Goals) /\ Cardinality(Goals) <= 8
<1> DEFINE A == {"connect"}
           B == A \cup {"disconnect"}
           C == B \cup {"connectable"}
           D == C \cup {"allow_handset"}
           E == D \cup {"allow_le"}
           F == E \cup {"stop"}
           G == F \cup {"lru"}
<1>1. IsFiniteSet(A) /\ Cardinality(A) <= 1
  BY FS_Singleton
<1>2. IsFiniteSet(B) /\ Cardinality(B) <= 2
  <2> HIDE DEF A
  <2>1. 1 \in Nat /\ 1 + 1 = 2
    OBVIOUS
  <2>2. IsFiniteSet(B) /\ Cardinality(B) <= 1 + 1
    BY <1>1, <2>1, OneMore, Zenon
  <2> QED BY <2>1, <2>2, Zenon
<1>3. IsFiniteSet(C) /\ Cardinality(C) <= 3
  <2> HIDE DEF B
  <2>1. 2 \in Nat /\ 2 + 1 = 3
    OBVIOUS
  <2>2. IsFiniteSet(C) /\ Cardinality(C) <= 2 + 1
    BY <1>2, <2>1, OneMore, Zenon
  <2> QED BY <2>1, <2>2, Zenon
<1>4. IsFiniteSet(D) /\ Cardinality(D) <= 4
  <2> HIDE DEF C
  <2>1. 3 \in Nat /\ 3 + 1 = 4
    OBVIOUS
  <2>2. IsFiniteSet(D) /\ Cardinality(D) <= 3 + 1
    BY <1>3, <2>1, OneMore, Zenon
  <2> QED BY <2>1, <2>2, Zenon
<1>5. IsFiniteSet(E) /\ Cardinality(E) <= 5
  <2> HIDE DEF D
  <2>1. 4 \in Nat /\ 4 + 1 = 5
    OBVIOUS
  <2>2. IsFiniteSet(E) /\ Cardinality(E) <= 4 + 1
    BY <1>4, <2>1, OneMore, Zenon
  <2> QED BY <2>1, <2>2, Zenon
<1>6. IsFiniteSet(F) /\ Cardinality(F) <= 6
  <2> HIDE DEF E
  <2>1. 5 \in Nat /\ 5 + 1 = 6
    OBVIOUS
  <2>2. IsFiniteSet(F) /\ Cardinality(F) <= 5 + 1
    BY <1>5, <2>1, OneMore, Zenon
  <2> QED BY <2>1, <2>2, Zenon
<1>7. IsFiniteSet(G) /\ Cardinality(G) <= 7
  <2> HIDE DEF F
  <2>1. 6 \in Nat /\ 6 + 1 = 7
    OBVIOUS
  <2>2. IsFiniteSet(G) /\ Cardinality(G) <= 6 + 1
    BY <1>6, <2>1, OneMore, Zenon
  <2> QED BY <2>1, <2>2, Zenon
<1>8. Goals = G
  BY DEF Goals
<1>9. Cardinality(G) \in Nat
  <2> HIDE DEF G
  <2> QED BY <1>7, FS_CardinalityType
<1> HIDE DEF G
<1> QED BY <1>7, <1>8, <1>9

\* The two modules mean the same by a finite set and its size.
LEMMA SameFinite == GP!IsFiniteSet(Goals) <=> IsFiniteSet(Goals)
BY Zenon DEF GP!IsFiniteSet, IsFiniteSet

\* They have the same size.
LEMMA SameSize == GP!Cardinality(Goals) = Cardinality(Goals)
BY SameFinite, Zenon DEF GP!Cardinality, Cardinality, GP!IsFiniteSet, IsFiniteSet

\* The assumptions of the goals engine.
LEMMA GoalTables ==
    /\ Contention \in [Goals -> {"wait", "cancel", "concurrent"}]
    /\ ExclusiveGoal \in [Goals -> Goals \cup {NoGoal}]
    /\ ConcurrentGoals \in [Goals -> SUBSET Goals]
    /\ \A g \in Goals : ExclusiveGoal[g] \notin ConcurrentGoals[g]
BY NoGoalAssumption DEF Contention, ExclusiveGoal, ConcurrentGoals, Goals

\* All that is assumed of the goals engine's constants.
LEMMA GoalsOk ==
    /\ GP!IsFiniteSet(Goals) /\ GP!Cardinality(Goals) <= 8
    /\ NoGoal \notin Goals
    /\ Contention \in [Goals -> {"wait", "cancel", "concurrent"}]
    /\ ExclusiveGoal \in [Goals -> Goals \cup {NoGoal}]
    /\ ConcurrentGoals \in [Goals -> SUBSET Goals]
    /\ \A g \in Goals : ExclusiveGoal[g] \notin ConcurrentGoals[g]
BY GoalTables, SameFinite, SameSize, GoalsFit, NoGoalAssumption

\* The table of rules, and with it what is assumed of the rules engine's
\* constants.
LEMMA RulesOk ==
    /\ Len(RuleTable) = 10 /\ Len(RuleTable) \in Nat
    /\ \A r \in 1 .. Len(RuleTable) :
         RuleTable[r][1] \in RuleEvents /\ RuleTable[r][2] \in Goals
    /\ [r \in 1 .. Len(RuleTable) |-> {RuleTable[r][1]}]
         \in [1 .. Len(RuleTable) -> (SUBSET RuleEvents) \ {{}}]
<1>1. Len(RuleTable) = 10
  BY DEF RuleTable
<1>2. ASSUME NEW r \in 1 .. 10 PROVE RuleTable[r][2] \in Goals
  <2>1. r \in {1, 2, 3, 4, 5, 6, 7, 8, 9, 10}
    OBVIOUS
  <2> QED BY <2>1 DEF RuleTable, Goals
<1>3. \A r \in 1 .. Len(RuleTable) : RuleTable[r][1] \in RuleEvents
  BY DEF RuleEvents
<1>4. [r \in 1 .. Len(RuleTable) |-> {RuleTable[r][1]}]
        \in [1 .. Len(RuleTable) -> (SUBSET RuleEvents) \ {{}}]
  <2>1. PICK f : f = [r \in 1 .. Len(RuleTable) |-> {RuleTable[r][1]}]
    OBVIOUS
  <2>2. ASSUME NEW r \in 1 .. Len(RuleTable)
        PROVE  {RuleTable[r][1]} \in (SUBSET RuleEvents) \ {{}}
    BY <1>3
  <2> QED BY <2>2
<1>5. \A r \in 1 .. Len(RuleTable) : RuleTable[r][2] \in Goals
  BY <1>1, <1>2
<1>6. Len(RuleTable) \in Nat
  BY <1>1
<1> QED BY <1>1, <1>3, <1>4, <1>5, <1>6

-----------------------------------------------------------------------------
(* The operations of the topology's engines are those of the proofs *)

\* The types.
LEMMA SameGoalSet == GE!GoalSet = GP!GoalSet
BY DEF GE!GoalSet, GP!GoalSet, GE!SlotIds, GP!SlotIds

\* The initial goal set.
LEMMA SameCreate == GE!GoalsEngine_CreateGoalSet = GP!GoalsEngine_CreateGoalSet
BY Zenon DEF GE!GoalsEngine_CreateGoalSet, GP!GoalsEngine_CreateGoalSet, GE!SlotIds, GP!SlotIds

\* NoCalls.
LEMMA SameNoCalls == ASSUME NEW e PROVE GE!NoCalls(e) = GP!NoCalls(e)
BY Zenon DEF GE!NoCalls, GP!NoCalls

\* WaitMask.
LEMMA SameWaitMask == ASSUME NEW e, NEW g PROVE GE!WaitMask(e, g) = GP!WaitMask(e, g)
BY Zenon DEF GE!WaitMask, GP!WaitMask

\* QueueGoal.
LEMMA SameQueueGoal ==
    ASSUME NEW e, NEW g, NEW wait
    PROVE  GE!QueueGoal(e, g, wait) = GP!QueueGoal(e, g, wait)
BY Zenon DEF GE!QueueGoal, GP!QueueGoal, GE!QueueIndex, GP!QueueIndex, GE!SlotIds, GP!SlotIds

\* DequeGoal.
LEMMA SameDequeGoal ==
    ASSUME NEW e, NEW g
    PROVE  GE!DequeGoal(e, g) = GP!DequeGoal(e, g)
BY Zenon DEF GE!DequeGoal, GP!DequeGoal, GE!SlotIds, GP!SlotIds

\* ResetPendingQueueIfEmpty.
LEMMA SameReset ==
    ASSUME NEW e
    PROVE  GE!ResetPendingQueueIfEmpty(e) = GP!ResetPendingQueueIfEmpty(e)
BY Zenon DEF GE!ResetPendingQueueIfEmpty, GP!ResetPendingQueueIfEmpty, GE!SlotIds, GP!SlotIds

\* ClearPendingGoalsQueue.
LEMMA SameClear ==
    ASSUME NEW e
    PROVE  GE!ClearPendingGoalsQueue(e) = GP!ClearPendingGoalsQueue(e)
BY SameReset, Zenon DEF GE!ClearPendingGoalsQueue, GP!ClearPendingGoalsQueue

\* StartGoal.
LEMMA SameStart ==
    ASSUME NEW e, NEW g
    PROVE  GE!StartGoal(e, g) = GP!StartGoal(e, g)
BY Zenon DEF GE!StartGoal, GP!StartGoal, GE!UpdateQueueMasks, GP!UpdateQueueMasks,
   GE!WaitMask, GP!WaitMask, GE!SlotIds, GP!SlotIds

\* GoalsEngine_ClearGoal.
LEMMA SameClearGoal ==
    ASSUME NEW e, NEW g
    PROVE  GE!GoalsEngine_ClearGoal(e, g) = GP!GoalsEngine_ClearGoal(e, g)
BY Zenon DEF GE!GoalsEngine_ClearGoal, GP!GoalsEngine_ClearGoal, GE!SlotIds, GP!SlotIds

\* CancelGoals.
LEMMA SameCancel ==
    ASSUME NEW e, NEW set, NEW sync
    PROVE  GE!CancelGoals(e, set, sync) = GP!CancelGoals(e, set, sync)
BY Zenon DEF GE!CancelGoals, GP!CancelGoals, GE!SlotIds, GP!SlotIds

\* StartOrQueue.
LEMMA SameStartOrQueue ==
    ASSUME NEW e, NEW g, NEW wait, NEW start
    PROVE  GE!StartOrQueue(e, g, wait, start) = GP!StartOrQueue(e, g, wait, start)
BY SameStart, SameQueueGoal, Zenon DEF GE!StartOrQueue, GP!StartOrQueue

\* GoalCanRunNow.
LEMMA SameCanRun ==
    ASSUME NEW e, NEW isNew
    PROVE  GE!GoalCanRunNow(e, isNew) <=> GP!GoalCanRunNow(e, isNew)
BY Zenon DEF GE!GoalCanRunNow, GP!GoalCanRunNow

\* ActivateCancelling.
LEMMA SameCancelling ==
    ASSUME NEW e, NEW g, NEW isNew, NEW sync
    PROVE  GE!ActivateCancelling(e, g, isNew, sync) = GP!ActivateCancelling(e, g, isNew, sync)
BY SameClear, SameCancel, SameStartOrQueue, Zenon
   DEF GE!ActivateCancelling, GP!ActivateCancelling, GE!GoalCanRunNow, GP!GoalCanRunNow

\* HandleExclusiveGoals.
LEMMA SameExclusive ==
    ASSUME NEW e, NEW g, NEW sync
    PROVE  GE!HandleExclusiveGoals(e, g, sync) = GP!HandleExclusiveGoals(e, g, sync)
BY SameDequeGoal, SameCancel, Zenon DEF GE!HandleExclusiveGoals, GP!HandleExclusiveGoals

\* ActivateOther.
LEMMA SameOther ==
    ASSUME NEW e, NEW g, NEW isNew, NEW sync
    PROVE  GE!ActivateOther(e, g, isNew, sync) = GP!ActivateOther(e, g, isNew, sync)
BY SameExclusive, SameStartOrQueue, Zenon
   DEF GE!ActivateOther, GP!ActivateOther, GE!GoalCanRunNow, GP!GoalCanRunNow,
       GE!WaitMask, GP!WaitMask

\* GoalsEngine_ActivateGoal.
LEMMA SameActivate ==
    ASSUME NEW e, NEW g, NEW isNew, NEW sync
    PROVE  GE!GoalsEngine_ActivateGoal(e, g, isNew, sync)
             = GP!GoalsEngine_ActivateGoal(e, g, isNew, sync)
BY SameNoCalls, SameClear, SameReset, SameStart, SameCancelling, SameOther, Zenon
   DEF GE!GoalsEngine_ActivateGoal, GP!GoalsEngine_ActivateGoal,
       GE!GoalCanRunNow, GP!GoalCanRunNow

\* Taken and Deliverable.
LEMMA SameTaken ==
    ASSUME NEW e, NEW g
    PROVE  /\ GE!Taken(e, g) = GP!Taken(e, g)
           /\ GE!Deliverable(e, g) <=> GP!Deliverable(e, g)
BY Zenon DEF GE!Taken, GP!Taken, GE!Deliverable, GP!Deliverable

\* The rule sets.
LEMMA SameRuleSet ==
    /\ RE!RuleSet = RP!RuleSet
    /\ RE!RulesEngine_CreateRuleSet = RP!RulesEngine_CreateRuleSet
BY Zenon DEF RE!RuleSet, RP!RuleSet, RE!Rules, RP!Rules,
   RE!RulesEngine_CreateRuleSet, RP!RulesEngine_CreateRuleSet

\* RulesEngine_ResetEvent.
LEMMA SameResetEvent ==
    ASSUME NEW e, NEW set
    PROVE  RE!RulesEngine_ResetEvent(e, set) = RP!RulesEngine_ResetEvent(e, set)
BY Zenon DEF RE!RulesEngine_ResetEvent, RP!RulesEngine_ResetEvent, RE!Rules, RP!Rules

\* RulesEngine_UpdateRuleStatus.
LEMMA SameUpdate ==
    ASSUME NEW e, NEW m, NEW from, NEW set
    PROVE  RE!RulesEngine_UpdateRuleStatus(e, m, from, set)
             = RP!RulesEngine_UpdateRuleStatus(e, m, from, set)
BY SameResetEvent, Zenon DEF RE!RulesEngine_UpdateRuleStatus, RP!RulesEngine_UpdateRuleStatus,
   RE!Rules, RP!Rules

\* RulesEngine_SetEvent and RulesEngine_SetRuleComplete.
LEMMA SameCheck ==
    ASSUME NEW e, NEW act
    PROVE  RE!RulesEngine_Check(e, act) = RP!RulesEngine_Check(e, act)
BY SameUpdate, Zenon
   DEF RE!RulesEngine_Check, RP!RulesEngine_Check, RE!RunRule, RP!RunRule,
       RE!RulesEngine_UpdateRuleStatus, RP!RulesEngine_UpdateRuleStatus,
       RE!RulesEngine_ResetEvent, RP!RulesEngine_ResetEvent, RE!Rules, RP!Rules

-----------------------------------------------------------------------------
(* What the rules engine keeps *)

RulesGood(e) == e \in RE!RuleSet /\ RP!SomeRuleLeft(e)

Act == [1 .. Len(RuleTable) -> {"run", "ignore"}]

\* Every rule of the topology needs one event and every event has a rule.
LEMMA TopologyRules == RP!OneEventPerRule
<1>1. \A r \in 1 .. Len(RuleTable) : \E v \in RuleEvents : {RuleTable[r][1]} = {v}
  BY RulesOk
<1>2. \A v \in RuleEvents : \E r \in 1 .. Len(RuleTable) : v \in {RuleTable[r][1]}
  BY DEF RuleEvents
<1> QED BY <1>1, <1>2 DEF RP!OneEventPerRule, RP!Rules

\* The decisions are for goals.
LEMMA SentGoals ==
    ASSUME NEW e \in RE!RuleSet
    PROVE  e.sent \in Seq(Goals)
<1> DEFINE M == {[n \in 1 .. Len(RuleTable) |-> RuleTable[n][2]][r] : r \in 1 .. Len(RuleTable)}
<1>1. e.sent \in Seq(M)
  BY DEF RE!RuleSet, RE!Rules
<1>2. M \subseteq Goals
  BY RulesOk
<1> HIDE DEF M
<1>3. /\ e.sent = [i \in 1 .. Len(e.sent) |-> e.sent[i]] /\ Len(e.sent) \in Nat
      /\ \A i \in 1 .. Len(e.sent) : e.sent[i] \in M
  BY <1>1
<1> QED BY <1>2, <1>3

\* The loop over the rules.
LEMMA CheckGood ==
    ASSUME NEW e, RulesGood(e), NEW act \in Act
    PROVE  RulesGood(RE!RulesEngine_Check(e, act))
<1>1. e \in RP!RuleSet /\ act \in [RP!Rules -> {"run", "ignore"}]
  BY SameRuleSet DEF RulesGood, Act, RP!Rules
<1>2. LET c == RP!RulesEngine_Check(e, act)
      IN  c \in RP!RuleSet /\ (RP!OneEventPerRule => RP!SomeRuleLeft(c))
  BY <1>1, RulesOk, RP!CheckFacts DEF RulesGood
<1> QED BY <1>2, SameCheck, SameRuleSet, TopologyRules DEF RulesGood

\* The rules that a topology creates.
LEMMA CreateRulesGood == RulesGood(RE!RulesEngine_CreateRuleSet)
<1> DEFINE e == RP!RulesEngine_CreateRuleSet
<1>1. e \in RP!RuleSet
  BY RulesOk DEF RP!RulesEngine_CreateRuleSet, RP!RuleSet
<1>2. e.status = [r \in 1 .. Len(RuleTable) |-> "not_done"]
  BY DEF RP!RulesEngine_CreateRuleSet, RP!Rules
<1>3. RP!SomeRuleLeft(e)
  <2> HIDE DEF e
  <2> QED BY <1>2, TopologyRules DEF RP!SomeRuleLeft, RP!OneEventPerRule, RP!Rules
<1> QED BY <1>1, <1>3, SameRuleSet DEF RulesGood

\* A topology that starts resets all events.
LEMMA ResetRulesGood ==
    ASSUME NEW e, RulesGood(e)
    PROVE  RulesGood(RE!RulesEngine_ResetEvent(e, RuleEvents))
<1>1. e \in RP!RuleSet
  BY SameRuleSet DEF RulesGood
<1>2. RP!RulesEngine_ResetEvent(e, RuleEvents) \in RP!RuleSet
  BY <1>1, RulesOk, RP!ResetFacts
<1>3. RP!SomeRuleLeft(RP!RulesEngine_ResetEvent(e, RuleEvents))
  BY <1>1, RulesOk, TopologyRules, RP!ResetLeavesRule
<1> QED BY <1>2, <1>3, SameResetEvent, SameRuleSet DEF RulesGood

\* An event is raised.
LEMMA SetEventGood ==
    ASSUME NEW e, RulesGood(e), NEW v \in RuleEvents, NEW act \in Act
    PROVE  RulesGood(RE!RulesEngine_SetEvent(e, {v}, act))
<1>1. PICK c : c = [e EXCEPT !.events = @ \cup {v}, !.sent = << >>]
  OBVIOUS
<1>2. c \in RE!RuleSet /\ c.status = e.status
  <2>1. PICK b : b = [e EXCEPT !.events = @ \cup {v}]
    OBVIOUS
  <2>2. b \in RP!RuleSet /\ b.status = e.status
    BY <2>1, SameRuleSet DEF RulesGood, RP!RuleSet
  <2>3. [b EXCEPT !.sent = << >>] \in RP!RuleSet /\ [b EXCEPT !.sent = << >>].status = b.status
    BY <2>2, RulesOk, RP!NothingSent
  <2>4. c = [b EXCEPT !.sent = << >>]
    BY <1>1, <2>1
  <2> QED BY <2>2, <2>3, <2>4, SameRuleSet
<1>3. RulesGood(c)
  BY <1>2 DEF RulesGood, RP!SomeRuleLeft
<1>4. RE!RulesEngine_SetEvent(e, {v}, act) = RE!RulesEngine_Check(c, act)
  BY <1>1 DEF RE!RulesEngine_SetEvent
<1> QED BY <1>3, <1>4, CheckGood

\* A decision is reported as complete.
LEMMA RuleCompleteGood ==
    ASSUME NEW e, RulesGood(e), NEW m, NEW act \in Act
    PROVE  RulesGood(RE!RulesEngine_SetRuleComplete(e, m, act))
<1>1. PICK c : c = [e EXCEPT !.sent = << >>]
  OBVIOUS
<1>2. c \in RE!RuleSet /\ c.status = e.status
  BY <1>1, RulesOk, SameRuleSet, RP!NothingSent DEF RulesGood
<1>3. c \in RP!RuleSet /\ RP!SomeRuleLeft(c)
  BY <1>2, SameRuleSet DEF RulesGood, RP!SomeRuleLeft
<1>4. PICK u : u = RP!RulesEngine_UpdateRuleStatus(c, m, "in_progress", RuleEvents)
  OBVIOUS
<1>5. u \in RP!RuleSet
  BY <1>3, <1>4, RulesOk, RP!UpdateFacts
<1>6. RP!SomeRuleLeft(u)
  BY <1>3, <1>4, RulesOk, TopologyRules, RP!UpdateLeavesRule
<1>7. RulesGood(u)
  BY <1>5, <1>6, SameRuleSet DEF RulesGood
<1>8. RE!RulesEngine_SetRuleComplete(e, m, act) = RE!RulesEngine_Check(u, act)
  BY <1>1, <1>4, SameUpdate DEF RE!RulesEngine_SetRuleComplete
<1> QED BY <1>7, <1>8, CheckGood

-----------------------------------------------------------------------------
(* Queues *)

NoneOf(q, S) == \A i \in 1 .. Len(q) : q[i] \notin S

Single(q, S) == \A i, j \in 1 .. Len(q) : q[i] \in S /\ q[j] \in S => i = j

\* p is what is left of the first n messages of q when some are dropped.
PartOf(p, q, n) ==
    \E f \in [1 .. Len(p) -> 1 .. n] :
        /\ \A i, j \in 1 .. Len(p) : f[i] = f[j] => i = j
        /\ \A i \in 1 .. Len(p) : p[i] = q[f[i]]

\* A message that is sent is the last of the queue.
LEMMA AppendFacts ==
    ASSUME NEW M, NEW q \in Seq(M), NEW m \in M
    PROVE  /\ Append(q, m) \in Seq(M) /\ Len(q) \in Nat
           /\ Len(Append(q, m)) = Len(q) + 1
           /\ Append(q, m)[Len(q) + 1] = m
           /\ \A i \in 1 .. Len(q) : Append(q, m)[i] = q[i]
OBVIOUS

\* What sending does to the messages of a set.
LEMMA AppendSet ==
    ASSUME NEW M, NEW q \in Seq(M), NEW m \in M, NEW S
    PROVE  /\ NoneOf(q, S) /\ m \notin S => NoneOf(Append(q, m), S)
           /\ Single(q, S) /\ m \notin S => Single(Append(q, m), S)
           /\ NoneOf(q, S) => Single(Append(q, m), S)
<1>1. PICK p : p = Append(q, m)
  OBVIOUS
<1>2. /\ Len(q) \in Nat /\ Len(p) = Len(q) + 1 /\ p[Len(q) + 1] = m
      /\ \A i \in 1 .. Len(q) : p[i] = q[i]
  BY <1>1, AppendFacts
<1>3. \A i \in 1 .. Len(p) : i \in 1 .. Len(q) \/ i = Len(q) + 1
  BY <1>2
<1>4. NoneOf(q, S) /\ m \notin S => NoneOf(p, S)
  BY <1>2, <1>3 DEF NoneOf
<1>5. Single(q, S) /\ m \notin S => Single(p, S)
  BY <1>2, <1>3 DEF Single
<1>6. NoneOf(q, S) => Single(p, S)
  BY <1>2, <1>3 DEF Single, NoneOf
<1> QED BY <1>1, <1>4, <1>5, <1>6

\* What is left of a queue has no more messages of a set than the queue.
LEMMA PartSet ==
    ASSUME NEW q, NEW p, PartOf(p, q, Len(q)), NEW S
    PROVE  /\ NoneOf(q, S) => NoneOf(p, S)
           /\ Single(q, S) => Single(p, S)
<1>1. PICK f \in [1 .. Len(p) -> 1 .. Len(q)] :
        /\ \A i, j \in 1 .. Len(p) : f[i] = f[j] => i = j
        /\ \A i \in 1 .. Len(p) : p[i] = q[f[i]]
  BY DEF PartOf
<1> QED BY <1>1 DEF NoneOf, Single

\* Messages behind others.
LEMMA ConcatSet ==
    ASSUME NEW M, NEW q \in Seq(M), NEW r \in Seq(M), NEW S, NoneOf(r, S)
    PROVE  /\ q \o r \in Seq(M)
           /\ NoneOf(q, S) => NoneOf(q \o r, S)
           /\ Single(q, S) => Single(q \o r, S)
<1>1. PICK p : p = q \o r
  OBVIOUS
<1>2. /\ Len(q) \in Nat /\ Len(r) \in Nat /\ p \in Seq(M)
      /\ Len(p) = Len(q) + Len(r)
      /\ \A i \in 1 .. Len(q) : p[i] = q[i]
      /\ \A i \in 1 .. Len(r) : p[Len(q) + i] = r[i]
  BY <1>1, ConcatProperties
<1>3. ASSUME NEW i \in 1 .. Len(p), p[i] \in S
      PROVE  i \in 1 .. Len(q) /\ p[i] = q[i]
  <2>1. CASE i <= Len(q)
    BY <1>2, <2>1
  <2>2. CASE ~(i <= Len(q))
    <3>1. i - Len(q) \in 1 .. Len(r) /\ i = Len(q) + (i - Len(q))
      BY <1>2, <2>2
    <3>2. p[i] = r[i - Len(q)]
      BY <1>2, <3>1
    <3> QED BY <1>3, <3>1, <3>2 DEF NoneOf
  <2> QED BY <2>1, <2>2
<1>4. NoneOf(q, S) => NoneOf(p, S)
  BY <1>3 DEF NoneOf
<1>5. Single(q, S) => Single(p, S)
  BY <1>3 DEF Single
<1> QED BY <1>1, <1>2, <1>4, <1>5

\* p is the queue q without message i.
Left(p, q, i) == p = SubSeq(q, 1, i - 1) \o SubSeq(q, i + 1, Len(q))

\* The queue without message i.
LEMMA TakeFacts ==
    ASSUME NEW M, NEW q \in Seq(M), NEW i \in 1 .. Len(q),
           NEW p, Left(p, q, i)
    PROVE  /\ p \in Seq(M) /\ Len(p) = Len(q) - 1
           /\ \A j \in 1 .. Len(p) : p[j] = q[IF j < i THEN j ELSE j + 1]
<1>1. PICK a : a = SubSeq(q, 1, i - 1)
  OBVIOUS
<1>2. PICK b : b = SubSeq(q, i + 1, Len(q))
  OBVIOUS
<1>3. Len(q) \in Nat /\ i \in Nat /\ i >= 1 /\ i <= Len(q)
  OBVIOUS
<1>4. a \in Seq(M) /\ Len(a) = i - 1 /\ \A j \in 1 .. i - 1 : a[j] = q[j]
  BY <1>1, <1>3
<1>5. b \in Seq(M) /\ Len(b) = Len(q) - i /\ \A j \in 1 .. Len(q) - i : b[j] = q[i + j]
  BY <1>2, <1>3
<1>6. p = a \o b /\ a \in Seq(M) /\ b \in Seq(M)
  BY <1>1, <1>2, <1>4, <1>5 DEF Left
<1>7. /\ p \in Seq(M) /\ Len(p) = Len(a) + Len(b)
      /\ \A j \in 1 .. Len(a) : p[j] = a[j]
      /\ \A j \in 1 .. Len(b) : p[Len(a) + j] = b[j]
  BY ONLY <1>6, ConcatProperties
<1>8. Len(p) = Len(q) - 1
  BY ONLY <1>3, <1>4, <1>5, <1>7
<1>9. ASSUME NEW j \in 1 .. Len(p)
      PROVE  p[j] = q[IF j < i THEN j ELSE j + 1]
  <2>1. CASE j < i
    <3>1. j \in 1 .. i - 1
      BY <1>3, <1>8, <2>1
    <3> QED BY <1>4, <1>7, <2>1, <3>1
  <2>2. CASE ~(j < i)
    <3>1. PICK k \in 1 .. Len(b) : j = Len(a) + k /\ i + k = j + 1
      <4>1. j - (i - 1) \in 1 .. Len(b) /\ j = Len(a) + (j - (i - 1)) /\ i + (j - (i - 1)) = j + 1
        BY ONLY <1>3, <1>4, <1>5, <1>8, <2>2, j \in 1 .. Len(p)
      <4> QED BY <4>1
    <3>2. p[j] = b[k] /\ b[k] = q[i + k]
      BY <1>5, <1>7, <3>1
    <3> QED BY <2>2, <3>1, <3>2
  <2> QED BY <2>1, <2>2
<1> QED BY <1>7, <1>8, <1>9

\* A message that is delivered leaves the queue.
LEMMA TakeSet ==
    ASSUME NEW M, NEW q \in Seq(M), NEW i \in 1 .. Len(q), NEW S,
           NEW p, Left(p, q, i)
    PROVE  /\ p \in Seq(M)
           /\ NoneOf(q, S) => NoneOf(p, S)
           /\ Single(q, S) => Single(p, S)
           /\ Single(q, S) /\ q[i] \in S => NoneOf(p, S)
<1>1. Len(q) \in Nat
  OBVIOUS
<1>2. /\ p \in Seq(M) /\ Len(p) = Len(q) - 1
      /\ \A j \in 1 .. Len(p) : p[j] = q[IF j < i THEN j ELSE j + 1]
  BY TakeFacts
<1>3. ASSUME NEW j \in 1 .. Len(p)
      PROVE  \E k \in 1 .. Len(q) : k = (IF j < i THEN j ELSE j + 1) /\ k # i /\ p[j] = q[k]
  <2>1. PICK k : k = (IF j < i THEN j ELSE j + 1)
    OBVIOUS
  <2>2. i \in 1 .. Len(q) /\ j \in 1 .. Len(p) /\ p[j] = q[k]
    BY <1>2, <2>1
  <2>3. k \in 1 .. Len(q) /\ k # i
    BY ONLY <1>1, <1>2, <2>1, <2>2
  <2> QED BY <2>1, <2>2, <2>3
<1>4. NoneOf(q, S) => NoneOf(p, S)
  BY <1>3 DEF NoneOf
<1>5. ASSUME Single(q, S), NEW j \in 1 .. Len(p), NEW k \in 1 .. Len(p), p[j] \in S, p[k] \in S
      PROVE  j = k
  <2>1. PICK a \in 1 .. Len(q) : a = (IF j < i THEN j ELSE j + 1) /\ p[j] = q[a]
    BY <1>3
  <2>2. PICK b \in 1 .. Len(q) : b = (IF k < i THEN k ELSE k + 1) /\ p[k] = q[b]
    BY <1>3
  <2>3. a = b
    BY <1>5, <2>1, <2>2 DEF Single
  <2> QED BY <1>1, <1>2, <2>1, <2>2, <2>3
<1>6. ASSUME Single(q, S), q[i] \in S, NEW j \in 1 .. Len(p)
      PROVE  p[j] \notin S
  BY <1>3, <1>6 DEF Single
<1> QED BY <1>2, <1>4, <1>5, <1>6 DEF Single, NoneOf

(***************************************************************************)
(* The queue without some messages, which the module defines recursively.  *)
(* That there is such a queue, and what it is, is shown for the least      *)
(* number of messages for which it would fail.                             *)
(***************************************************************************)
IsKept(f, q, dropped, n) ==
    f = [i \in 0 .. n |-> IF i = 0 THEN << >>
                          ELSE IF q[i] \in dropped THEN f[i - 1]
                          ELSE Append(f[i - 1], q[i])]

\* Every non-empty set of natural numbers has a least element.
LEMMA LeastNat ==
    ASSUME NEW S \in SUBSET Nat, S # {}
    PROVE  \E x \in S : \A y \in S : x <= y
BY GoalsOk, GP!LeastNat

\* The walk over the queue has a result.
LEMMA KeptExists ==
    ASSUME NEW q, NEW dropped, NEW n \in Nat
    PROVE  \E f : IsKept(f, q, dropped, n)
<1> DEFINE bad == {m \in Nat : ~ \E f : IsKept(f, q, dropped, m)}
<1> SUFFICES ASSUME bad # {} PROVE FALSE
  OBVIOUS
<1>1. PICK m \in bad : \A k \in bad : m <= k
  <2> HIDE DEF bad
  <2>1. bad \in SUBSET Nat
    BY DEF bad
  <2> QED BY <2>1, LeastNat
<1>2. CASE m = 0
  <2> DEFINE f == [i \in 0 .. 0 |-> << >>]
  <2>1. IsKept(f, q, dropped, 0)
    BY DEF IsKept
  <2> QED BY <1>1, <1>2, <2>1
<1>3. CASE m # 0
  <2>1. m \in Nat /\ m - 1 \in Nat /\ m - 1 \notin bad
    BY <1>1, <1>3
  <2>2. PICK f : IsKept(f, q, dropped, m - 1)
    BY <2>1
  <2> DEFINE last == IF q[m] \in dropped THEN f[m - 1] ELSE Append(f[m - 1], q[m])
             g == [i \in 0 .. m |-> IF i = m THEN last ELSE f[i]]
  <2>3. ASSUME NEW i \in 0 .. m
        PROVE  g[i] = IF i = 0 THEN << >>
                      ELSE IF q[i] \in dropped THEN g[i - 1] ELSE Append(g[i - 1], q[i])
    <3>1. CASE i = m
      <4>1. g[m] = last /\ g[m - 1] = f[m - 1]
        <5> HIDE DEF last
        <5> QED BY <1>3, <2>1
      <4> HIDE DEF g
      <4> QED BY <1>3, <3>1, <4>1
    <3>2. CASE i # m
      <4>1. i \in 0 .. m - 1 /\ (i # 0 => i - 1 \in 0 .. m - 1)
        BY <2>1, <3>2
      <4>2. g[i] = f[i] /\ (i # 0 => g[i - 1] = f[i - 1])
        <5> HIDE DEF last
        <5> QED BY <2>1, <3>2, <4>1
      <4>3. f[i] = IF i = 0 THEN << >>
                   ELSE IF q[i] \in dropped THEN f[i - 1] ELSE Append(f[i - 1], q[i])
        BY <2>2, <4>1 DEF IsKept
      <4> HIDE DEF g
      <4> QED BY <4>2, <4>3
    <3> QED BY <3>1, <3>2
  <2>4. g = [i \in 0 .. m |-> g[i]]
    OBVIOUS
  <2> HIDE DEF g
  <2>5. g = [i \in 0 .. m |-> IF i = 0 THEN << >>
                              ELSE IF q[i] \in dropped THEN g[i - 1]
                              ELSE Append(g[i - 1], q[i])]
    BY <2>3, <2>4
  <2>6. IsKept(g, q, dropped, m)
    BY <2>5 DEF IsKept
  <2> QED BY <1>1, <2>6
<1> QED BY <1>2, <1>3

\* One more message is looked at.
LEMMA PartNext ==
    ASSUME NEW M, NEW q \in Seq(M), NEW n \in Nat, n + 1 <= Len(q),
           NEW p \in Seq(M), PartOf(p, q, n)
    PROVE  /\ PartOf(p, q, n + 1)
           /\ Append(p, q[n + 1]) \in Seq(M)
           /\ PartOf(Append(p, q[n + 1]), q, n + 1)
<1>1. PICK f \in [1 .. Len(p) -> 1 .. n] :
        /\ \A i, j \in 1 .. Len(p) : f[i] = f[j] => i = j
        /\ \A i \in 1 .. Len(p) : p[i] = q[f[i]]
  BY DEF PartOf
<1>2. f \in [1 .. Len(p) -> 1 .. n + 1]
  BY <1>1
<1>3. PartOf(p, q, n + 1)
  BY <1>1, <1>2 DEF PartOf
<1>4. q[n + 1] \in M /\ Len(p) \in Nat
  OBVIOUS
<1>5. PICK r : r = Append(p, q[n + 1])
  OBVIOUS
<1>6. /\ r \in Seq(M) /\ Len(r) = Len(p) + 1 /\ r[Len(p) + 1] = q[n + 1]
      /\ \A i \in 1 .. Len(p) : r[i] = p[i]
  BY <1>4, <1>5, AppendFacts
<1> DEFINE g == [i \in 1 .. Len(r) |-> IF i = Len(p) + 1 THEN n + 1 ELSE f[i]]
<1>7. \A i \in 1 .. Len(r) : i = Len(p) + 1 \/ (i \in 1 .. Len(p) /\ i # Len(p) + 1)
  BY <1>4, <1>6
<1>8. /\ g \in [1 .. Len(r) -> 1 .. n + 1]
      /\ g[Len(p) + 1] = n + 1
      /\ \A i \in 1 .. Len(p) : g[i] = f[i] /\ f[i] # n + 1
  <2>1. \A i \in 1 .. Len(p) : f[i] \in 1 .. n /\ f[i] # n + 1 /\ f[i] \in 1 .. n + 1
    BY <1>1
  <2>2. Len(p) + 1 \in 1 .. Len(r) /\ n + 1 \in 1 .. n + 1
    BY <1>4, <1>6
  <2>3. \A i \in 1 .. Len(p) : i \in 1 .. Len(r) /\ i # Len(p) + 1
    BY <1>4, <1>6
  <2>4. \A i \in 1 .. Len(r) :
          (IF i = Len(p) + 1 THEN n + 1 ELSE f[i]) \in 1 .. n + 1
    BY <1>7, <2>1, <2>2
  <2> QED BY <2>1, <2>2, <2>3, <2>4
<1> HIDE DEF g
<1>9. \A i, j \in 1 .. Len(r) : g[i] = g[j] => i = j
  BY <1>1, <1>7, <1>8
<1>10. \A i \in 1 .. Len(r) : r[i] = q[g[i]]
  BY <1>1, <1>6, <1>7, <1>8
<1>11. PartOf(r, q, n + 1)
  BY <1>8, <1>9, <1>10 DEF PartOf
<1> QED BY <1>3, <1>5, <1>6, <1>11

\* What is kept of the first n messages is a part of them.
LEMMA KeptPart ==
    ASSUME NEW M, NEW q \in Seq(M), NEW dropped, NEW f, IsKept(f, q, dropped, Len(q)),
           NEW n \in 0 .. Len(q)
    PROVE  f[n] \in Seq(M) /\ PartOf(f[n], q, n)
<1> DEFINE bad == {m \in 0 .. Len(q) : ~ (f[m] \in Seq(M) /\ PartOf(f[m], q, m))}
<1> SUFFICES ASSUME bad # {} PROVE FALSE
  OBVIOUS
<1>1. Len(q) \in Nat
  OBVIOUS
<1>2. PICK m \in bad : \A k \in bad : m <= k
  <2>1. bad \in SUBSET Nat
    BY <1>1
  <2> HIDE DEF bad
  <2> QED BY <2>1, LeastNat
<1>3. m \in 0 .. Len(q) /\ ~ (f[m] \in Seq(M) /\ PartOf(f[m], q, m))
  BY <1>2
<1>4. CASE m = 0
  <2>1. f[0] = << >>
    BY <1>1 DEF IsKept
  <2>2. << >> \in Seq(M) /\ Len(<< >>) = 0
    OBVIOUS
  <2>3. PartOf(<< >>, q, 0)
    <3> DEFINE h == [i \in 1 .. 0 |-> 1]
    <3>1. h \in [1 .. 0 -> 1 .. 0] /\ \A i \in 1 .. 0 : FALSE
      OBVIOUS
    <3> QED BY <2>2, <3>1 DEF PartOf
  <2> QED BY <1>3, <1>4, <2>1, <2>2, <2>3
<1>5. CASE m # 0
  <2>1. PICK k \in Nat : k = m - 1 /\ k + 1 = m /\ k \in 0 .. Len(q) /\ k + 1 <= Len(q)
    BY <1>1, <1>3, <1>5
  <2>2. k \notin bad
    BY <1>1, <1>2, <2>1
  <2>3. f[k] \in Seq(M) /\ PartOf(f[k], q, k)
    BY <2>1, <2>2
  <2>4. f[m] = IF q[m] \in dropped THEN f[k] ELSE Append(f[k], q[m])
    BY <1>3, <1>5, <2>1 DEF IsKept
  <2>5. PICK p \in Seq(M) : p = f[k]
    BY <2>3
  <2>6. /\ PartOf(p, q, k + 1)
        /\ Append(p, q[k + 1]) \in Seq(M)
        /\ PartOf(Append(p, q[k + 1]), q, k + 1)
    BY <2>1, <2>3, <2>5, PartNext
  <2>7. CASE q[m] \in dropped
    <3>1. f[m] = p
      BY <2>4, <2>5, <2>7
    <3> QED BY <1>3, <2>1, <2>6, <3>1
  <2>8. CASE q[m] \notin dropped
    <3>1. f[m] = Append(p, q[k + 1])
      BY <2>1, <2>4, <2>5, <2>8
    <3> QED BY <1>3, <2>1, <2>6, <3>1
  <2> QED BY <2>7, <2>8
<1> QED BY <1>4, <1>5

\* Messages are cancelled: nothing but the queue changes, which is a part of
\* what it was.
LEMMA WithoutFacts ==
    ASSUME NEW x, x.mq \in Seq(Message), NEW dropped
    PROVE  \E p \in Seq(Message) :
             /\ PartOf(p, x.mq, Len(x.mq))
             /\ Without(x, dropped) = [x EXCEPT !.mq = p]
<1> DEFINE f == CHOOSE f : IsKept(f, x.mq, dropped, Len(x.mq))
<1>1. PICK q \in Seq(Message) : q = x.mq
  OBVIOUS
<1>2. Len(q) \in Nat /\ Len(q) \in 0 .. Len(q)
  OBVIOUS
<1>3. IsKept(f, x.mq, dropped, Len(x.mq))
  BY <1>1, <1>2, KeptExists
<1>4. Without(x, dropped) = [x EXCEPT !.mq = f[Len(x.mq)]]
  BY DEF Without, IsKept
<1> HIDE DEF f
<1>5. f[Len(q)] \in Seq(Message) /\ PartOf(f[Len(q)], q, Len(q))
  BY <1>1, <1>2, <1>3, KeptPart
<1> QED BY <1>1, <1>4, <1>5

-----------------------------------------------------------------------------
(***************************************************************************)
(* The invariant, a predicate of the topology's record.  A step of the     *)
(* stop script is ended by one thing only: its delayed confirmation, or    *)
(* the answer of a service to the callback that it left behind.  So the    *)
(* script moves on only when its step has ended.                           *)
(***************************************************************************)

\* Confirmations of steps of the stop script.
ScriptDone == [k : {"done"}, a : Procs, b : {"script"}]

\* The answer to the disconnection of LE links.
LeDone == {Msg("disconnect_le_cfm")}

\* Nobody sends these.
Never ==
    [k : {"done"}, a : Procs \ (Goals \ {"stop"}), b : {"goal"}] \cup
    [k : {"cancelled"}, a : {"stop"}, b : {""}]

Plain == Message \ (ScriptDone \cup LeDone \cup Never)

\* The steps that end with their delayed confirmation are the others.
Answered == {0, 4, 5, 6}

QueueOk(q, script, down) ==
    /\ NoneOf(q, Never)
    /\ Single(q, ScriptDone)
    /\ script \in Answered => NoneOf(q, ScriptDone)
    /\ Single(q, LeDone)
    /\ script # 6 \/ down => NoneOf(q, LeDone)

CallbacksOk(fn, script) ==
    /\ fn.disconnect = "script" => script = 5
    /\ fn.le = "script" => script = 4
    /\ fn.leDown = "script" => script = 6

Core(x) ==
    /\ x \in Topology
    /\ ~x.panic
    /\ GP!Good(x.gs)
    /\ RulesGood(x.rs)
    /\ QueueOk(x.mq, x.script, x.hs.leDown)
    /\ CallbacksOk(x.fn, x.script)
    /\ x.hs.leDown => x.script = 6

\* The goal of the stop script is active exactly while the script runs.
Sound(x) == Core(x) /\ (("stop" \in x.gs.active) <=> x.script # 0)

\* x and y differ in nothing that the invariant speaks about.
Alike(x, y) ==
    /\ y \in Topology
    /\ y.panic = x.panic /\ y.gs = x.gs /\ y.rs = x.rs /\ y.script = x.script
    /\ y.fn = x.fn /\ y.mq = x.mq /\ y.hs.leDown = x.hs.leDown

\* The goals and the script are where they were.
Undisturbed(x, y) == Core(y) /\ y.gs = x.gs /\ y.script = x.script

\* What the invariant does not speak about may change.
LEMMA AlikeCore ==
    ASSUME NEW x, Core(x), NEW y, Alike(x, y)
    PROVE  Undisturbed(x, y)
BY DEF Core, Alike, Undisturbed

\* A step that disturbs neither goals nor script keeps the invariant.
LEMMA UndisturbedSound ==
    ASSUME NEW x, Sound(x), NEW y, Undisturbed(x, y)
    PROVE  Sound(y)
BY DEF Sound, Undisturbed

\* Two such steps are one.
LEMMA UndisturbedTwice ==
    ASSUME NEW x, NEW y, Undisturbed(x, y), NEW z, Undisturbed(y, z)
    PROVE  Undisturbed(x, z)
BY DEF Undisturbed

\* The fields of a topology.
LEMMA Fields ==
    ASSUME NEW x \in Topology
    PROVE  /\ x.mq \in Seq(Message) /\ x.gs \in GE!GoalSet /\ x.rs \in RE!RuleSet
           /\ x.script \in 0 .. Len(StopScript)
           /\ x.fn \in [connect    : {"none", "complete", "cancel"},
                        disconnect : {"none", "goal", "script"},
                        le         : {"none", "goal", "script"},
                        leDown     : {"none", "script"}]
           /\ x.panic \in BOOLEAN /\ x.hs.leDown \in BOOLEAN
BY DEF Topology

\* Another queue.
LEMMA QueueField ==
    ASSUME NEW x \in Topology, NEW q \in Seq(Message), NEW y, y = [x EXCEPT !.mq = q]
    PROVE  /\ y \in Topology /\ y.mq = q
           /\ y.panic = x.panic /\ y.gs = x.gs /\ y.rs = x.rs /\ y.script = x.script
           /\ y.fn = x.fn /\ y.hs = x.hs /\ y.hs.leDown = x.hs.leDown
           /\ y.state = x.state /\ y.prohibit = x.prohibit /\ y.shutdown = x.shutdown
           /\ y.radio = x.radio
BY DEF Topology

\* Other goals.
LEMMA GoalsField ==
    ASSUME NEW x \in Topology, NEW e \in GE!GoalSet, NEW y, y = [x EXCEPT !.gs = e]
    PROVE  /\ y \in Topology /\ y.gs = e
           /\ y.panic = x.panic /\ y.mq = x.mq /\ y.rs = x.rs /\ y.script = x.script
           /\ y.fn = x.fn /\ y.hs = x.hs /\ y.hs.leDown = x.hs.leDown
BY DEF Topology

\* Messages that the invariant does not speak about.
LEMMA PlainMessages ==
    /\ \A g \in Goals : /\ [k |-> "decision", a |-> g, b |-> ""] \in Plain
                        /\ [k |-> "queued", a |-> g, b |-> ""] \in Plain
    /\ \A g \in Goals \ {"stop"} : /\ [k |-> "done", a |-> g, b |-> "goal"] \in Plain
                                   /\ [k |-> "cancelled", a |-> g, b |-> ""] \in Plain
    /\ \A s \in {"success", "failed", "cancelled"} :
         [k |-> "connect_cfm", a |-> s, b |-> ""] \in Plain
    /\ \A m \in {"connect_stop_cfm", "disconnect_all_cfm", "disconnect_cfm", "le_cfm",
                 "linkloss", "stop_finished"} : Msg(m) \in Plain
BY ZenonT(30) DEF Plain, Message, ScriptDone, LeDone, Never, Msg, Goals, Procs

-----------------------------------------------------------------------------
(* The queue and the invariant *)

\* A plain message is sent.
LEMMA PlainQueue ==
    ASSUME NEW q \in Seq(Message), NEW m \in Plain, NEW s, NEW d, QueueOk(q, s, d)
    PROVE  Append(q, m) \in Seq(Message) /\ QueueOk(Append(q, m), s, d)
<1>1. m \in Message /\ m \notin Never /\ m \notin ScriptDone /\ m \notin LeDone
  BY DEF Plain
<1>2. Append(q, m) \in Seq(Message)
  BY <1>1, AppendFacts
<1>3. NoneOf(Append(q, m), Never)
  BY <1>1, AppendSet DEF QueueOk
<1>4. Single(Append(q, m), ScriptDone) /\ Single(Append(q, m), LeDone)
  BY <1>1, AppendSet DEF QueueOk
<1>5. s \in Answered => NoneOf(Append(q, m), ScriptDone)
  BY <1>1, AppendSet DEF QueueOk
<1>6. s # 6 \/ d => NoneOf(Append(q, m), LeDone)
  BY <1>1, AppendSet DEF QueueOk
<1> QED BY <1>2, <1>3, <1>4, <1>5, <1>6 DEF QueueOk

\* A step of the script is confirmed.
LEMMA ScriptQueue ==
    ASSUME NEW q \in Seq(Message), NEW m \in ScriptDone, NEW s, NEW d, QueueOk(q, s, d),
           NoneOf(q, ScriptDone), s \notin Answered
    PROVE  Append(q, m) \in Seq(Message) /\ QueueOk(Append(q, m), s, d)
<1>1. m \in Message /\ m \notin Never /\ m \notin LeDone
  <2>1. PICK a \in Procs : m = [k |-> "done", a |-> a, b |-> "script"]
    BY DEF ScriptDone
  <2>2. m \in Message
    BY <2>1 DEF Message
  <2>3. m.k = "done" /\ m.b = "script"
    BY <2>1
  <2>4. m \notin Never
    BY <2>3 DEF Never
  <2>5. m \notin LeDone
    <3>1. Msg("disconnect_le_cfm").k = "disconnect_le_cfm"
      BY DEF Msg
    <3> QED BY <2>3, <3>1 DEF LeDone
  <2> QED BY <2>2, <2>4, <2>5
<1>2. Append(q, m) \in Seq(Message)
  BY <1>1, AppendFacts
<1>3. NoneOf(Append(q, m), Never)
  BY <1>1, AppendSet DEF QueueOk
<1>4. Single(Append(q, m), ScriptDone) /\ Single(Append(q, m), LeDone)
  BY <1>1, AppendSet DEF QueueOk
<1>5. s # 6 \/ d => NoneOf(Append(q, m), LeDone)
  BY <1>1, AppendSet DEF QueueOk
<1> QED BY <1>2, <1>3, <1>4, <1>5 DEF QueueOk

\* Messages are cancelled.
LEMMA PartQueue ==
    ASSUME NEW q \in Seq(Message), NEW p \in Seq(Message), PartOf(p, q, Len(q)),
           NEW s, NEW d, QueueOk(q, s, d)
    PROVE  QueueOk(p, s, d)
<1>1. NoneOf(p, Never) /\ Single(p, ScriptDone) /\ Single(p, LeDone)
  BY PartSet DEF QueueOk
<1>2. s \in Answered => NoneOf(p, ScriptDone)
  BY PartSet DEF QueueOk
<1>3. s # 6 \/ d => NoneOf(p, LeDone)
  BY PartSet DEF QueueOk
<1> QED BY <1>1, <1>2, <1>3 DEF QueueOk

\* Plain messages are sent.
LEMMA PlainQueues ==
    ASSUME NEW q \in Seq(Message), NEW r \in Seq(Message), NEW s, NEW d, QueueOk(q, s, d),
           \A i \in 1 .. Len(r) : r[i] \in Plain
    PROVE  q \o r \in Seq(Message) /\ QueueOk(q \o r, s, d)
<1>1. NoneOf(r, Never) /\ NoneOf(r, ScriptDone) /\ NoneOf(r, LeDone)
  BY DEF NoneOf, Plain
<1>2. q \o r \in Seq(Message) /\ NoneOf(q \o r, Never)
  BY <1>1, ConcatSet DEF QueueOk
<1>3. Single(q \o r, ScriptDone) /\ Single(q \o r, LeDone)
  BY <1>1, ConcatSet DEF QueueOk
<1>4. s \in Answered => NoneOf(q \o r, ScriptDone)
  BY <1>1, ConcatSet DEF QueueOk
<1>5. s # 6 \/ d => NoneOf(q \o r, LeDone)
  BY <1>1, ConcatSet DEF QueueOk
<1> QED BY <1>2, <1>3, <1>4, <1>5 DEF QueueOk

\* A message is delivered.
LEMMA TakeQueue ==
    ASSUME NEW q \in Seq(Message), NEW i \in 1 .. Len(q),
           NEW p, Left(p, q, i),
           NEW s, NEW d, QueueOk(q, s, d)
    PROVE  /\ p \in Seq(Message) /\ QueueOk(p, s, d)
           /\ q[i] \in Message /\ q[i] \notin Never
           /\ q[i] \in ScriptDone => NoneOf(p, ScriptDone) /\ s \notin Answered
           /\ q[i] \in LeDone => NoneOf(p, LeDone) /\ s = 6 /\ ~d
<1>1. ASSUME NEW S
      PROVE  /\ p \in Seq(Message)
             /\ NoneOf(q, S) => NoneOf(p, S)
             /\ Single(q, S) => Single(p, S)
             /\ Single(q, S) /\ q[i] \in S => NoneOf(p, S)
  BY TakeSet
<1>2. q[i] \in Message /\ i \in 1 .. Len(q)
  OBVIOUS
<1>3. p \in Seq(Message) /\ QueueOk(p, s, d)
  BY ONLY <1>1, QueueOk(q, s, d) DEF QueueOk
<1>4. q[i] \notin Never
  BY ONLY <1>2, QueueOk(q, s, d) DEF QueueOk, NoneOf
<1>5. ASSUME q[i] \in ScriptDone PROVE NoneOf(p, ScriptDone) /\ s \notin Answered
  BY ONLY <1>1, <1>2, <1>5, QueueOk(q, s, d) DEF QueueOk, NoneOf
<1>6. ASSUME q[i] \in LeDone PROVE NoneOf(p, LeDone) /\ s = 6 /\ ~d
  BY ONLY <1>1, <1>2, <1>6, QueueOk(q, s, d) DEF QueueOk, NoneOf
<1> QED BY <1>2, <1>3, <1>4, <1>5, <1>6

\* A handler sends a plain message.
LEMMA SendCore ==
    ASSUME NEW x, Core(x), NEW m \in Plain
    PROVE  Undisturbed(x, Send(x, m))
<1>1. PICK q \in Seq(Message) : q = x.mq
  BY Fields DEF Core
<1>2. PICK p : p = Append(q, m)
  OBVIOUS
<1>3. p \in Seq(Message) /\ QueueOk(p, x.script, x.hs.leDown)
  BY <1>1, <1>2, PlainQueue DEF Core
<1>4. PICK y : y = [x EXCEPT !.mq = p]
  OBVIOUS
<1>5. Send(x, m) = y
  BY <1>1, <1>2, <1>4 DEF Send
<1>6. Undisturbed(x, y)
  BY <1>3, <1>4, QueueField DEF Core, Undisturbed
<1> QED BY <1>5, <1>6

\* A handler cancels messages.
LEMMA WithoutCore ==
    ASSUME NEW x, Core(x), NEW dropped
    PROVE  Undisturbed(x, Without(x, dropped))
<1>1. x \in Topology /\ x.mq \in Seq(Message)
  BY Fields DEF Core
<1>2. PICK p \in Seq(Message) : /\ PartOf(p, x.mq, Len(x.mq))
                                /\ Without(x, dropped) = [x EXCEPT !.mq = p]
  BY <1>1, WithoutFacts
<1>3. PICK y : y = [x EXCEPT !.mq = p]
  OBVIOUS
<1>4. QueueOk(p, x.script, x.hs.leDown)
  BY <1>1, <1>2, PartQueue DEF Core
<1>5. Undisturbed(x, y)
  BY <1>3, <1>4, QueueField DEF Core, Undisturbed
<1> QED BY <1>2, <1>3, <1>5

-----------------------------------------------------------------------------
(* The rules and the invariant *)

\* What the rules decide is to run or to ignore.
LEMMA ActionsOfRules ==
    ASSUME NEW x
    PROVE  RuleAction(x) \in Act
<1>1. \A r \in 1 .. Len(RuleTable) : RuleAction(x)[r] \in {"run", "ignore"}
  BY DEF RuleAction, ConnectHandset
<1>2. RuleAction(x) = [r \in 1 .. Len(RuleTable) |-> RuleAction(x)[r]]
  BY DEF RuleAction
<1> QED BY <1>1, <1>2 DEF Act

\* Other rules.
LEMMA RulesField ==
    ASSUME NEW x \in Topology, NEW e \in RE!RuleSet, NEW y, y = [x EXCEPT !.rs = e]
    PROVE  /\ y \in Topology /\ y.rs = e
           /\ y.panic = x.panic /\ y.mq = x.mq /\ y.gs = x.gs /\ y.script = x.script
           /\ y.fn = x.fn /\ y.hs = x.hs /\ y.hs.leDown = x.hs.leDown
BY DEF Topology

\* The rules engine did something.
LEMMA RulesCore ==
    ASSUME NEW x, Core(x), NEW e, RulesGood(e)
    PROVE  Undisturbed(x, [x EXCEPT !.rs = e])
<1>1. PICK y : y = [x EXCEPT !.rs = e]
  OBVIOUS
<1> QED BY <1>1, RulesField DEF Core, RulesGood, Undisturbed

\* Decisions are sent.
LEMMA DecidedCore ==
    ASSUME NEW x, Core(x), NEW e, RulesGood(e)
    PROVE  Undisturbed(x, Decided(x, e))
<1>1. PICK y : y = [x EXCEPT !.rs = e]
  OBVIOUS
<1>2. Undisturbed(x, y)
  BY <1>1, RulesCore
<1>3. PICK r : r = [i \in 1 .. Len(e.sent) |-> [k |-> "decision", a |-> e.sent[i], b |-> ""]]
  OBVIOUS
<1>4. e.sent \in Seq(Goals)
  BY SentGoals DEF RulesGood
<1>5. Len(e.sent) \in Nat /\ \A i \in 1 .. Len(e.sent) : e.sent[i] \in Goals
  BY <1>4
<1>6. \A i \in 1 .. Len(e.sent) : r[i] \in Plain /\ r[i] \in Message
  BY <1>3, <1>5, PlainMessages DEF Plain
<1>7. r \in Seq(Message) /\ Len(r) = Len(e.sent)
  <2>1. PICK n \in Nat : n = Len(e.sent)
    BY <1>5
  <2>2. r = [i \in 1 .. n |-> r[i]] /\ \A i \in 1 .. n : r[i] \in Message
    BY <1>3, <1>6, <2>1
  <2>3. r \in Seq(Message) /\ Len(r) = n
    BY ONLY <2>2, n \in Nat
  <2> QED BY <2>1, <2>3
<1>8. PICK q \in Seq(Message) : q = y.mq
  BY <1>2, Fields DEF Undisturbed, Core
<1>9. PICK p : p = q \o r
  OBVIOUS
<1>10. p \in Seq(Message) /\ QueueOk(p, y.script, y.hs.leDown)
  <2>1. QueueOk(q, y.script, y.hs.leDown)
    BY <1>2, <1>8 DEF Undisturbed, Core
  <2>2. \A i \in 1 .. Len(r) : r[i] \in Plain
    BY <1>6, <1>7
  <2> QED BY ONLY <1>7, <1>8, <1>9, <2>1, <2>2, PlainQueues
<1>11. PICK z : z = [y EXCEPT !.mq = p]
  OBVIOUS
<1>12. Undisturbed(y, z)
  BY <1>2, <1>10, <1>11, QueueField DEF Core, Undisturbed
<1>13. x.mq = y.mq
  BY <1>1, RulesField DEF Core, RulesGood
<1>14. Decided(x, e) = z
  BY <1>1, <1>3, <1>8, <1>9, <1>11, <1>13 DEF Decided
<1> QED BY <1>2, <1>12, <1>14, UndisturbedTwice

\* An event is raised.
LEMMA RaiseCore ==
    ASSUME NEW x, Core(x), NEW v \in RuleEvents
    PROVE  Undisturbed(x, StereoTopologyRules_SetEvent(x, v))
<1>1. PICK act \in Act : act = RuleAction(x)
  BY ActionsOfRules
<1>2. PICK e : e = RE!RulesEngine_SetEvent(x.rs, {v}, act)
  OBVIOUS
<1>3. RulesGood(e)
  BY <1>2, SetEventGood DEF Core
<1>4. StereoTopologyRules_SetEvent(x, v) = Decided(x, e)
  BY <1>1, <1>2 DEF StereoTopologyRules_SetEvent
<1> QED BY <1>3, <1>4, DecidedCore

\* A decision is taken.
LEMMA RuleCompleteCore ==
    ASSUME NEW x, Core(x), NEW g
    PROVE  Undisturbed(x, StereoTopologyRules_SetRuleComplete(x, g))
<1>1. PICK act \in Act : act = RuleAction(x)
  BY ActionsOfRules
<1>2. PICK e : e = RE!RulesEngine_SetRuleComplete(x.rs, g, act)
  OBVIOUS
<1>3. RulesGood(e)
  BY <1>2, RuleCompleteGood DEF Core
<1>4. StereoTopologyRules_SetRuleComplete(x, g) = Decided(x, e)
  BY <1>1, <1>2 DEF StereoTopologyRules_SetRuleComplete
<1> QED BY <1>3, <1>4, DecidedCore

-----------------------------------------------------------------------------
(* Procedures of goals and the invariant *)

\* The callback of a reconnection.
LEMMA ConnectFn ==
    ASSUME NEW x, Core(x), NEW c \in {"none", "complete", "cancel"},
           NEW y, y = [x EXCEPT !.fn.connect = c]
    PROVE  Undisturbed(x, y)
<1>1. y \in Topology
  BY DEF Core, Topology
<1>2. /\ y.panic = x.panic /\ y.mq = x.mq /\ y.gs = x.gs /\ y.script = x.script
      /\ y.rs = x.rs /\ y.hs = x.hs
      /\ y.fn.disconnect = x.fn.disconnect /\ y.fn.le = x.fn.le /\ y.fn.leDown = x.fn.leDown
  BY DEF Core, Topology
<1> QED BY <1>1, <1>2 DEF Core, Undisturbed, CallbacksOk

\* The callback of a disconnection that a goal asks for, or none.
LEMMA DisconnectFn ==
    ASSUME NEW x, Core(x), NEW c \in {"none", "goal"},
           NEW y, y = [x EXCEPT !.fn.disconnect = c]
    PROVE  Undisturbed(x, y)
<1>1. y \in Topology
  BY DEF Core, Topology
<1>2. /\ y.panic = x.panic /\ y.mq = x.mq /\ y.gs = x.gs /\ y.script = x.script
      /\ y.rs = x.rs /\ y.hs = x.hs
      /\ y.fn.disconnect = c /\ y.fn.le = x.fn.le /\ y.fn.leDown = x.fn.leDown
  BY DEF Core, Topology
<1> QED BY <1>1, <1>2 DEF Core, Undisturbed, CallbacksOk

\* The callback of LE advertising that a goal asks for, or none.
LEMMA LeFn ==
    ASSUME NEW x, Core(x), NEW c \in {"none", "goal"},
           NEW y, y = [x EXCEPT !.fn.le = c]
    PROVE  Undisturbed(x, y)
<1>1. y \in Topology
  BY DEF Core, Topology
<1>2. /\ y.panic = x.panic /\ y.mq = x.mq /\ y.gs = x.gs /\ y.script = x.script
      /\ y.rs = x.rs /\ y.hs = x.hs
      /\ y.fn.disconnect = x.fn.disconnect /\ y.fn.le = c /\ y.fn.leDown = x.fn.leDown
  BY DEF Core, Topology
<1> QED BY <1>1, <1>2 DEF Core, Undisturbed, CallbacksOk

\* The callback of the disconnection of LE links is forgotten.
LEMMA LeDownFn ==
    ASSUME NEW x, Core(x), NEW y, y = [x EXCEPT !.fn.leDown = "none"]
    PROVE  Undisturbed(x, y)
<1>1. y \in Topology
  BY DEF Core, Topology
<1>2. /\ y.panic = x.panic /\ y.mq = x.mq /\ y.gs = x.gs /\ y.script = x.script
      /\ y.rs = x.rs /\ y.hs = x.hs
      /\ y.fn.disconnect = x.fn.disconnect /\ y.fn.le = x.fn.le /\ y.fn.leDown = "none"
  BY DEF Core, Topology
<1> QED BY <1>1, <1>2 DEF Core, Undisturbed, CallbacksOk

\* What the procedures allow is not what the invariant speaks about.
LEMMA RadioCore ==
    ASSUME NEW x, Core(x), NEW b \in BOOLEAN
    PROVE  /\ Undisturbed(x, [x EXCEPT !.radio.connectable = b])
           /\ Undisturbed(x, [x EXCEPT !.radio.handset = b])
           /\ Undisturbed(x, [x EXCEPT !.radio.le = b])
<1>1. PICK y : y = [x EXCEPT !.radio.connectable = b]
  OBVIOUS
<1>2. PICK z : z = [x EXCEPT !.radio.handset = b]
  OBVIOUS
<1>3. PICK w : w = [x EXCEPT !.radio.le = b]
  OBVIOUS
<1>4. Alike(x, y)
  BY <1>1 DEF Core, Topology, Alike
<1>5. Alike(x, z)
  BY <1>2 DEF Core, Topology, Alike
<1>6. Alike(x, w)
  BY <1>3 DEF Core, Topology, Alike
<1>7. Undisturbed(x, y) /\ Undisturbed(x, z) /\ Undisturbed(x, w)
  BY <1>4, <1>5, <1>6, AlikeCore
<1> QED BY <1>1, <1>2, <1>3, <1>7

\* Neither is what the handset service does with its links.
LEMMA HandsetCore ==
    ASSUME NEW x, Core(x), NEW b \in BOOLEAN, NEW h \in Handsets
    PROVE  /\ Undisturbed(x, [x EXCEPT !.hs.busy = b])
           /\ Undisturbed(x, [x EXCEPT !.hs.stopping = b])
           /\ Undisturbed(x, [x EXCEPT !.hs.all = b])
           /\ Undisturbed(x, [x EXCEPT !.hs.lru = @ \cup {h}])
           /\ Undisturbed(x, [x EXCEPT !.hs.le = {"advertising", "connectable"}])
           /\ Undisturbed(x, [x EXCEPT !.hs.links = @ \cup {h}, !.hs.mru = h])
           /\ Undisturbed(x, [x EXCEPT !.hs.links = @ \ {h}, !.hs.lru = @ \ {h}])
<1>1. ASSUME NEW y, y = [x EXCEPT !.hs.busy = b] PROVE Alike(x, y)
  BY <1>1 DEF Core, Topology, Alike
<1>2. ASSUME NEW y, y = [x EXCEPT !.hs.stopping = b] PROVE Alike(x, y)
  BY <1>2 DEF Core, Topology, Alike
<1>3. ASSUME NEW y, y = [x EXCEPT !.hs.all = b] PROVE Alike(x, y)
  BY <1>3 DEF Core, Topology, Alike
<1>4. ASSUME NEW y, y = [x EXCEPT !.hs.lru = @ \cup {h}] PROVE Alike(x, y)
  BY <1>4 DEF Core, Topology, Alike
<1>5. ASSUME NEW y, y = [x EXCEPT !.hs.le = {"advertising", "connectable"}] PROVE Alike(x, y)
  BY <1>5 DEF Core, Topology, Alike
<1>6. ASSUME NEW y, y = [x EXCEPT !.hs.links = @ \cup {h}, !.hs.mru = h] PROVE Alike(x, y)
  BY <1>6, ZenonT(30) DEF Core, Topology, Alike
<1>7. ASSUME NEW y, y = [x EXCEPT !.hs.links = @ \ {h}, !.hs.lru = @ \ {h}] PROVE Alike(x, y)
  BY <1>7, ZenonT(30) DEF Core, Topology, Alike
<1> QED BY <1>1, <1>2, <1>3, <1>4, <1>5, <1>6, <1>7, AlikeCore

\* The procedure of a goal is started.
LEMMA StartCore ==
    ASSUME NEW x, Core(x), NEW p \in Goals \ {"stop"}
    PROVE  Undisturbed(x, ProcedureStart(x, p, "goal"))
<1>1. CASE p = "connect"
  <2>1. PICK y : y = [x EXCEPT !.fn.connect = "complete"]
    OBVIOUS
  <2>2. Undisturbed(x, y) /\ Core(y)
    BY <2>1, ConnectFn DEF Undisturbed
  <2>3. Undisturbed(y, HandsetService_ReconnectRequest(y))
    BY <2>2, SendCore, PlainMessages, HandsetCore, HandsetsAssumption
       DEF HandsetService_ReconnectRequest
  <2>4. ProcedureStart(x, p, "goal") = HandsetService_ReconnectRequest(y)
    BY <1>1, <2>1 DEF ProcedureStart
  <2> QED BY <2>2, <2>3, <2>4, UndisturbedTwice
<1>2. CASE p = "disconnect"
  <2>1. PICK y : y = [x EXCEPT !.fn.disconnect = "goal"]
    OBVIOUS
  <2>2. Undisturbed(x, y) /\ Core(y)
    BY <2>1, DisconnectFn DEF Undisturbed
  <2>3. Undisturbed(y, HandsetService_DisconnectAll(y))
    BY <2>2, SendCore, PlainMessages, HandsetCore, HandsetsAssumption
       DEF HandsetService_DisconnectAll
  <2>4. ProcedureStart(x, p, "goal") = HandsetService_DisconnectAll(y)
    BY <1>2, <2>1 DEF ProcedureStart
  <2> QED BY <2>2, <2>3, <2>4, UndisturbedTwice
<1>3. CASE p = "lru"
  <2>1. PICK y : y = [x EXCEPT !.fn.disconnect = "goal"]
    OBVIOUS
  <2>2. Undisturbed(x, y) /\ Core(y) /\ Undisturbed(y, y)
    BY <2>1, DisconnectFn DEF Undisturbed
  <2>3. y.hs.links # {} => LruHandset(y.hs) \in Handsets
    <3>1. y.hs.links \subseteq Handsets
      BY <2>2 DEF Core, Topology
    <3>2. ASSUME y.hs.links # {}
          PROVE  \E h \in y.hs.links : h # y.hs.mru \/ y.hs.links = {y.hs.mru}
      BY <3>2
    <3> QED BY <3>1, <3>2 DEF LruHandset
  <2>4. Undisturbed(y, HandsetService_DisconnectLruHandsetRequest(y))
    <3>1. CASE y.hs.links = {}
      BY <2>2, <3>1 DEF HandsetService_DisconnectLruHandsetRequest
    <3>2. CASE y.hs.links # {}
      BY <2>2, <2>3, <3>2, HandsetCore DEF HandsetService_DisconnectLruHandsetRequest
    <3> QED BY <3>1, <3>2
  <2>5. ProcedureStart(x, p, "goal") = HandsetService_DisconnectLruHandsetRequest(y)
    BY <1>3, <2>1 DEF ProcedureStart
  <2> QED BY <2>2, <2>4, <2>5, UndisturbedTwice
<1>4. ASSUME NEW y, Undisturbed(x, y)
      PROVE  Undisturbed(x, DelayedComplete(y, p, "goal"))
  <2>1. Undisturbed(y, DelayedComplete(y, p, "goal"))
    BY <1>4, SendCore, PlainMessages DEF DelayedComplete, Undisturbed
  <2> QED BY <1>4, <2>1, UndisturbedTwice
<1>5. CASE p = "connectable"
  <2>1. ProcedureStart(x, p, "goal")
          = DelayedComplete([x EXCEPT !.radio.connectable = TRUE], p, "goal")
    BY <1>5 DEF ProcedureStart
  <2> QED BY <1>4, <2>1, RadioCore
<1>6. CASE p = "allow_handset"
  <2>1. ProcedureStart(x, p, "goal")
          = DelayedComplete([x EXCEPT !.radio.handset = TRUE], p, "goal")
    BY <1>6 DEF ProcedureStart
  <2> QED BY <1>4, <2>1, RadioCore
<1>7. CASE p = "allow_le"
  <2>1. PICK y : y = [x EXCEPT !.radio.le = TRUE]
    OBVIOUS
  <2>2. Undisturbed(x, y) /\ Core(y)
    BY <2>1, RadioCore DEF Undisturbed
  <2>3. PICK z : z = [y EXCEPT !.fn.le = "goal"]
    OBVIOUS
  <2>4. Undisturbed(x, z) /\ Core(z)
    <3>1. Undisturbed(y, z)
      BY <2>2, <2>3, LeFn
    <3> QED BY <2>2, <3>1, UndisturbedTwice DEF Undisturbed
  <2>5. PICK w : w = [z EXCEPT !.hs.le = {"advertising", "connectable"}]
    OBVIOUS
  <2>6. Undisturbed(z, w)
    BY <2>4, <2>5, HandsetCore, HandsetsAssumption
  <2>7. ProcedureStart(x, p, "goal") = w
    <3>1. ProcedureStart(x, p, "goal") = [x EXCEPT !.radio.le = TRUE, !.fn.le = "goal",
                                                   !.hs.le = {"advertising", "connectable"}]
      BY <1>7 DEF ProcedureStart
    <3> QED BY <2>1, <2>3, <2>5, <3>1 DEF Core, Topology
  <2> QED BY <2>4, <2>6, <2>7, UndisturbedTwice
<1> QED BY <1>1, <1>2, <1>3, <1>5, <1>6, <1>7 DEF Goals

\* The delayed confirmation of a procedure is replaced by that of its
\* cancellation.
LEMMA DelayedCancelCore ==
    ASSUME NEW x, Core(x), NEW g \in Goals \ {"stop"}
    PROVE  Undisturbed(x, DelayedCancel(x, g))
<1>1. PICK y : y = Without(x, Completions(g))
  OBVIOUS
<1>2. Undisturbed(x, y) /\ Core(y)
  BY <1>1, WithoutCore DEF Undisturbed
<1>3. PICK m \in Plain : m = [k |-> "cancelled", a |-> g, b |-> ""]
  BY PlainMessages
<1>4. PICK z : z = Send(y, m)
  OBVIOUS
<1>5. Undisturbed(x, z)
  <2>1. Undisturbed(y, z)
    BY <1>2, <1>4, SendCore
  <2> QED BY ONLY <1>2, <2>1, UndisturbedTwice
<1>6. DelayedCancel(x, g) = z
  BY <1>1, <1>3, <1>4, Zenon DEF DelayedCancel
<1> QED BY ONLY <1>5, <1>6

\* The procedure of a goal is cancelled.
LEMMA CancelCore ==
    ASSUME NEW x, Core(x), NEW g \in Goals \ {"stop"}
    PROVE  Undisturbed(x, ProcedureCancel(x, g))
<1>1. ASSUME NEW y, Undisturbed(x, y)
      PROVE  Undisturbed(x, DelayedCancel(y, g))
  <2>1. Undisturbed(y, DelayedCancel(y, g))
    BY <1>1, DelayedCancelCore DEF Undisturbed
  <2> QED BY <1>1, <2>1, UndisturbedTwice
<1>2. CASE g = "connect"
  <2>1. PICK y : y = [x EXCEPT !.fn.connect = "cancel"]
    OBVIOUS
  <2>2. Undisturbed(x, y) /\ Core(y)
    BY <2>1, ConnectFn DEF Undisturbed
  <2>3. Undisturbed(y, HandsetService_StopReconnect(y))
    BY <2>2, SendCore, PlainMessages, HandsetCore, HandsetsAssumption
       DEF HandsetService_StopReconnect
  <2>4. ProcedureCancel(x, g) = HandsetService_StopReconnect(y)
    BY <1>2, <2>1 DEF ProcedureCancel
  <2> QED BY <2>2, <2>3, <2>4, UndisturbedTwice
<1>3. CASE g \in {"disconnect", "lru"}
  <2>1. ProcedureCancel(x, g) = DelayedCancel([x EXCEPT !.fn.disconnect = "none"], g)
    BY <1>3 DEF ProcedureCancel
  <2>2. Undisturbed(x, [x EXCEPT !.fn.disconnect = "none"])
    BY DisconnectFn
  <2> QED BY <1>1, <2>1, <2>2
<1>4. CASE g = "connectable"
  <2>1. ProcedureCancel(x, g) = DelayedCancel([x EXCEPT !.radio.connectable = FALSE], g)
    BY <1>4 DEF ProcedureCancel
  <2>2. Undisturbed(x, [x EXCEPT !.radio.connectable = FALSE])
    BY RadioCore
  <2> QED BY <1>1, <2>1, <2>2
<1>5. CASE g = "allow_le"
  <2>1. ProcedureCancel(x, g) = DelayedCancel([x EXCEPT !.fn.le = "none"], g)
    BY <1>5 DEF ProcedureCancel
  <2>2. Undisturbed(x, [x EXCEPT !.fn.le = "none"])
    BY LeFn
  <2> QED BY <1>1, <2>1, <2>2
<1>6. CASE g = "allow_handset"
  <2>1. ProcedureCancel(x, g) = DelayedCancel(x, g)
    BY <1>6 DEF ProcedureCancel
  <2> QED BY <2>1, DelayedCancelCore
<1> QED BY <1>2, <1>3, <1>4, <1>5, <1>6 DEF Goals

(***************************************************************************)
(* The walk over the goals that are to be cancelled.                       *)
(***************************************************************************)
CancelStep(y, S, n) == IF GoalOrder[n] \in S THEN ProcedureCancel(y, GoalOrder[n]) ELSE y

IsCancelled(f, x, S) ==
    f = [n \in 0 .. Len(GoalOrder) |-> IF n = 0 THEN x
                                       ELSE IF GoalOrder[n] \in S
                                       THEN ProcedureCancel(f[n - 1], GoalOrder[n])
                                       ELSE f[n - 1]]

\* The walk has seven steps.
LEMMA CancelOrder == Len(GoalOrder) = 7 /\ \A n \in 1 .. 7 : GoalOrder[n] \in Goals
BY DEF GoalOrder, Goals

\* The walk has a result.
LEMMA CancelledExists ==
    ASSUME NEW x, NEW S
    PROVE  \E f : IsCancelled(f, x, S)
<1>1. PICK c1 : c1 = CancelStep(x, S, 1)
  OBVIOUS
<1>2. PICK c2 : c2 = CancelStep(c1, S, 2)
  OBVIOUS
<1>3. PICK c3 : c3 = CancelStep(c2, S, 3)
  OBVIOUS
<1>4. PICK c4 : c4 = CancelStep(c3, S, 4)
  OBVIOUS
<1>5. PICK c5 : c5 = CancelStep(c4, S, 5)
  OBVIOUS
<1>6. PICK c6 : c6 = CancelStep(c5, S, 6)
  OBVIOUS
<1>7. PICK c7 : c7 = CancelStep(c6, S, 7)
  OBVIOUS
<1> DEFINE f == [n \in 0 .. 7 |-> IF n = 0 THEN x ELSE IF n = 1 THEN c1
                                  ELSE IF n = 2 THEN c2 ELSE IF n = 3 THEN c3
                                  ELSE IF n = 4 THEN c4 ELSE IF n = 5 THEN c5
                                  ELSE IF n = 6 THEN c6 ELSE c7]
<1>8. /\ f[0] = x /\ f[1] = c1 /\ f[2] = c2 /\ f[3] = c3 /\ f[4] = c4 /\ f[5] = c5
      /\ f[6] = c6 /\ f[7] = c7
  OBVIOUS
<1>9. f = [n \in 0 .. 7 |-> f[n]]
  OBVIOUS
<1> HIDE DEF f
<1>10. \A n \in 0 .. 7 : f[n] = IF n = 0 THEN x ELSE CancelStep(f[n - 1], S, n)
  <2>1. \A n \in 0 .. 7 : n = 0 \/ n = 1 \/ n = 2 \/ n = 3 \/ n = 4 \/ n = 5 \/ n = 6 \/ n = 7
    OBVIOUS
  <2> QED BY <1>1, <1>2, <1>3, <1>4, <1>5, <1>6, <1>7, <1>8, <2>1
<1>11. f = [n \in 0 .. 7 |-> IF n = 0 THEN x ELSE CancelStep(f[n - 1], S, n)]
  BY <1>9, <1>10
<1>12. IsCancelled(f, x, S)
  BY <1>11, CancelOrder DEF IsCancelled, CancelStep
<1> QED BY <1>12

\* Goals other than that of the stop script are cancelled.
LEMMA CancelledCore ==
    ASSUME NEW x, Core(x), NEW S, "stop" \notin S, NEW f, IsCancelled(f, x, S)
    PROVE  Undisturbed(x, f[Len(GoalOrder)])
<1>1. /\ f[0] = x
      /\ \A n \in 1 .. 7 : f[n] = IF GoalOrder[n] \in S
                                  THEN ProcedureCancel(f[n - 1], GoalOrder[n]) ELSE f[n - 1]
  BY CancelOrder DEF IsCancelled
<1>2. Undisturbed(x, f[0])
  BY <1>1 DEF Undisturbed
<1>3. ASSUME NEW n \in 1 .. 7, Undisturbed(x, f[n - 1])
      PROVE  Undisturbed(x, f[n])
  <2>1. CASE GoalOrder[n] \in S
    <3>1. GoalOrder[n] \in Goals \ {"stop"}
      BY <2>1, CancelOrder
    <3>2. f[n] = ProcedureCancel(f[n - 1], GoalOrder[n])
      BY <1>1, <2>1
    <3>3. Undisturbed(f[n - 1], f[n])
      BY <1>3, <3>1, <3>2, CancelCore DEF Undisturbed
    <3> QED BY <1>3, <3>3, UndisturbedTwice
  <2>2. CASE GoalOrder[n] \notin S
    BY <1>1, <1>3, <2>2
  <2> QED BY <2>1, <2>2
<1>4. Undisturbed(x, f[1])
  BY <1>2, <1>3
<1>5. Undisturbed(x, f[2])
  BY <1>3, <1>4
<1>6. Undisturbed(x, f[3])
  BY <1>3, <1>5
<1>7. Undisturbed(x, f[4])
  BY <1>3, <1>6
<1>8. Undisturbed(x, f[5])
  BY <1>3, <1>7
<1>9. Undisturbed(x, f[6])
  BY <1>3, <1>8
<1>10. Undisturbed(x, f[7])
  BY <1>3, <1>9
<1> QED BY <1>10, CancelOrder

-----------------------------------------------------------------------------
(* The stop script and the invariant *)

\* The script may start its next step: nothing is left of the one before.
Ready(x) ==
    /\ Core(x)
    /\ NoneOf(x.mq, ScriptDone) /\ NoneOf(x.mq, LeDone) /\ ~x.hs.leDown
    /\ x.fn.disconnect # "script" /\ x.fn.le # "script" /\ x.fn.leDown # "script"

\* The steps of the script.
LEMMA Steps ==
    /\ Len(StopScript) = 7
    /\ StopScript[1] = "start_script" /\ StopScript[2] = "allow_handset"
    /\ StopScript[3] = "connectable" /\ StopScript[4] = "allow_le"
    /\ StopScript[5] = "disconnect" /\ StopScript[6] = "disconnect_le"
    /\ StopScript[7] = "send_message"
BY DEF StopScript

\* Another step.
LEMMA ScriptField ==
    ASSUME NEW x, Ready(x), NEW n \in 0 .. 7
    PROVE  /\ Ready([x EXCEPT !.script = n])
           /\ [x EXCEPT !.script = n].script = n
           /\ [x EXCEPT !.script = n].gs = x.gs
<1>1. PICK y : y = [x EXCEPT !.script = n]
  OBVIOUS
<1>2. y \in Topology
  BY <1>1, Steps DEF Ready, Core, Topology
<1>3. /\ y.panic = x.panic /\ y.mq = x.mq /\ y.gs = x.gs /\ y.script = n
      /\ y.rs = x.rs /\ y.hs = x.hs /\ y.fn = x.fn
  BY <1>1 DEF Ready, Core, Topology
<1>4. QueueOk(y.mq, y.script, y.hs.leDown)
  BY <1>3 DEF Ready, Core, QueueOk
<1>5. CallbacksOk(y.fn, y.script) /\ ~y.hs.leDown
  BY <1>3 DEF Ready, CallbacksOk
<1>6. Core(y)
  BY <1>2, <1>3, <1>4, <1>5 DEF Ready, Core
<1>7. Ready(y)
  BY <1>3, <1>6 DEF Ready
<1> QED BY <1>1, <1>3, <1>7

\* A step that only has its confirmation to come sends it.
LEMMA ConfirmCore ==
    ASSUME NEW x, Core(x), x.script \notin Answered, NoneOf(x.mq, ScriptDone), NEW p \in Procs
    PROVE  Undisturbed(x, DelayedComplete(x, p, "script"))
<1>1. PICK q \in Seq(Message) : q = x.mq
  BY Fields DEF Core
<1>2. PICK m \in ScriptDone : m = [k |-> "done", a |-> p, b |-> "script"]
  BY DEF ScriptDone
<1>3. PICK r : r = Append(q, m)
  OBVIOUS
<1>4. r \in Seq(Message) /\ QueueOk(r, x.script, x.hs.leDown)
  BY <1>1, <1>3, ScriptQueue DEF Core
<1>5. PICK y : y = [x EXCEPT !.mq = r]
  OBVIOUS
<1>6. DelayedComplete(x, p, "script") = y
  BY <1>1, <1>2, <1>3, <1>5 DEF DelayedComplete, Send
<1>7. Undisturbed(x, y)
  BY <1>4, <1>5, QueueField DEF Core, Undisturbed
<1> QED BY <1>6, <1>7

\* The steps that close a door and confirm it.
LEMMA CloseCore ==
    ASSUME NEW x, Ready(x), x.script \notin Answered
    PROVE  /\ Undisturbed(x, DelayedComplete(x, "start_script", "script"))
           /\ Undisturbed(x, DelayedComplete([x EXCEPT !.radio.handset = FALSE],
                                             "allow_handset", "script"))
           /\ Undisturbed(x, DelayedComplete([x EXCEPT !.radio.connectable = FALSE],
                                             "connectable", "script"))
           /\ Undisturbed(x, DelayedComplete(Send(x, Msg("stop_finished")),
                                             "send_message", "script"))
<1>1. /\ "start_script" \in Procs /\ "allow_handset" \in Procs /\ "connectable" \in Procs
      /\ "send_message" \in Procs
  BY DEF Procs, Goals
<1>2. ASSUME NEW y, Undisturbed(x, y), NoneOf(y.mq, ScriptDone), NEW p \in Procs
      PROVE  Undisturbed(x, DelayedComplete(y, p, "script"))
  <2>1. Undisturbed(y, DelayedComplete(y, p, "script"))
    BY <1>2, ConfirmCore DEF Undisturbed
  <2> QED BY <1>2, <2>1, UndisturbedTwice
<1>3. Undisturbed(x, DelayedComplete(x, "start_script", "script"))
  BY <1>1, <1>2 DEF Ready, Undisturbed
<1>4. Undisturbed(x, DelayedComplete([x EXCEPT !.radio.handset = FALSE],
                                     "allow_handset", "script"))
  <2>1. PICK y : y = [x EXCEPT !.radio.handset = FALSE]
    OBVIOUS
  <2>2. Undisturbed(x, y)
    BY <2>1, RadioCore DEF Ready
  <2>3. y.mq = x.mq
    BY <2>1 DEF Ready, Core, Topology
  <2> QED BY <1>1, <1>2, <2>1, <2>2, <2>3 DEF Ready
<1>5. Undisturbed(x, DelayedComplete([x EXCEPT !.radio.connectable = FALSE],
                                     "connectable", "script"))
  <2>1. PICK y : y = [x EXCEPT !.radio.connectable = FALSE]
    OBVIOUS
  <2>2. Undisturbed(x, y)
    BY <2>1, RadioCore DEF Ready
  <2>3. y.mq = x.mq
    BY <2>1 DEF Ready, Core, Topology
  <2> QED BY <1>1, <1>2, <2>1, <2>2, <2>3 DEF Ready
<1>6. Undisturbed(x, DelayedComplete(Send(x, Msg("stop_finished")), "send_message", "script"))
  <2>1. PICK m \in Plain : m = Msg("stop_finished")
    BY PlainMessages
  <2>2. PICK y : y = Send(x, m)
    OBVIOUS
  <2>3. Undisturbed(x, y)
    BY <2>2, SendCore DEF Ready
  <2>4. PICK q \in Seq(Message) : q = x.mq
    BY Fields DEF Ready, Core
  <2>5. m \in Message /\ m \notin ScriptDone
    BY DEF Plain
  <2>6. NoneOf(Append(q, m), ScriptDone)
    BY <2>4, <2>5, AppendSet DEF Ready
  <2>7. y.mq = Append(q, m)
    BY <2>2, <2>4 DEF Send, Ready, Core, Topology
  <2> QED BY <1>1, <1>2, <2>1, <2>2, <2>3, <2>6, <2>7
<1> QED BY <1>3, <1>4, <1>5, <1>6

\* The step that disallows LE connections waits for an answer.
LEMMA DisallowLeCore ==
    ASSUME NEW x, Ready(x), x.script = 4,
           NEW y, y = [x EXCEPT !.radio.le = FALSE, !.fn.le = "script",
                                !.hs.le = {"advertising", "connectable"}]
    PROVE  Undisturbed(x, y)
<1>1. y \in Topology
  BY DEF Ready, Core, Topology
<1>2. /\ y.panic = x.panic /\ y.mq = x.mq /\ y.gs = x.gs /\ y.script = x.script
      /\ y.rs = x.rs /\ y.hs.leDown = x.hs.leDown
      /\ y.fn.disconnect = x.fn.disconnect /\ y.fn.leDown = x.fn.leDown
  BY DEF Ready, Core, Topology
<1> QED BY <1>1, <1>2 DEF Ready, Core, CallbacksOk, Undisturbed

\* The step that disconnects the handsets waits for an answer.
LEMMA DisconnectAllCore ==
    ASSUME NEW x, Ready(x), x.script = 5
    PROVE  Undisturbed(x, HandsetService_DisconnectAll([x EXCEPT !.fn.disconnect = "script"]))
<1>1. PICK y : y = [x EXCEPT !.fn.disconnect = "script"]
  OBVIOUS
<1>2. y \in Topology
  BY <1>1 DEF Ready, Core, Topology
<1>3. /\ y.panic = x.panic /\ y.mq = x.mq /\ y.gs = x.gs /\ y.script = x.script
      /\ y.rs = x.rs /\ y.hs = x.hs
      /\ y.fn.le = x.fn.le /\ y.fn.leDown = x.fn.leDown
  BY <1>1 DEF Ready, Core, Topology
<1>4. Undisturbed(x, y) /\ Core(y)
  BY <1>2, <1>3 DEF Ready, Core, CallbacksOk, Undisturbed
<1>5. Undisturbed(y, HandsetService_DisconnectAll(y))
  BY <1>4, SendCore, PlainMessages, HandsetCore, HandsetsAssumption
     DEF HandsetService_DisconnectAll
<1> QED BY <1>1, <1>4, <1>5, UndisturbedTwice

\* The step that disconnects LE links waits for the one answer to it.
LEMMA DisconnectLeCore ==
    ASSUME NEW x, Ready(x), x.script = 6,
           NEW y, y = [x EXCEPT !.fn.leDown = "script", !.hs.leDown = TRUE,
                                !.panic = @ \/ x.hs.leDown]
    PROVE  Undisturbed(x, y)
<1>1. x.panic = FALSE /\ x.hs.leDown = FALSE
  BY Fields DEF Ready, Core
<1>2. y = [x EXCEPT !.fn.leDown = "script", !.hs.leDown = TRUE, !.panic = FALSE]
  BY <1>1
<1>3. y \in Topology
  <2>1. PICK u : u = [x EXCEPT !.fn.leDown = "script"]
    OBVIOUS
  <2>2. PICK w : w = [u EXCEPT !.hs.leDown = TRUE]
    OBVIOUS
  <2>3. u \in Topology
    BY <2>1 DEF Ready, Core, Topology
  <2>4. w \in Topology
    BY <2>2, <2>3 DEF Topology
  <2>5. [w EXCEPT !.panic = FALSE] \in Topology
    BY <2>4 DEF Topology
  <2>6. y = [w EXCEPT !.panic = FALSE]
    BY <1>2, <2>1, <2>2 DEF Ready, Core, Topology
  <2> QED BY <2>5, <2>6
<1>4. /\ y.panic = FALSE /\ y.mq = x.mq /\ y.gs = x.gs /\ y.script = x.script
      /\ y.rs = x.rs /\ y.hs.leDown = TRUE
      /\ y.fn.disconnect = x.fn.disconnect /\ y.fn.le = x.fn.le
  BY <1>2 DEF Ready, Core, Topology
<1>5. QueueOk(y.mq, y.script, y.hs.leDown)
  BY <1>4 DEF Ready, Core, QueueOk
<1>6. CallbacksOk(y.fn, y.script)
  BY <1>4 DEF Ready, CallbacksOk
<1> QED BY <1>3, <1>4, <1>5, <1>6 DEF Ready, Core, Undisturbed

\* A step of the script is started.
LEMMA StepCore ==
    ASSUME NEW x, Ready(x), x.script \in 1 .. 7
    PROVE  Undisturbed(x, ProcedureStart(x, StopScript[x.script], "script"))
<1>1. CASE x.script = 1
  <2>1. ProcedureStart(x, StopScript[1], "script") = DelayedComplete(x, "start_script", "script")
    BY Steps DEF ProcedureStart
  <2>2. x.script \notin Answered
    BY <1>1 DEF Answered
  <2> QED BY <1>1, <2>1, <2>2, CloseCore
<1>2. CASE x.script = 2
  <2>1. ProcedureStart(x, StopScript[2], "script")
          = DelayedComplete([x EXCEPT !.radio.handset = FALSE], "allow_handset", "script")
    BY Steps DEF ProcedureStart
  <2>2. x.script \notin Answered
    BY <1>2 DEF Answered
  <2> QED BY <1>2, <2>1, <2>2, CloseCore
<1>3. CASE x.script = 3
  <2>1. ProcedureStart(x, StopScript[3], "script")
          = DelayedComplete([x EXCEPT !.radio.connectable = FALSE], "connectable", "script")
    BY Steps DEF ProcedureStart
  <2>2. x.script \notin Answered
    BY <1>3 DEF Answered
  <2> QED BY <1>3, <2>1, <2>2, CloseCore
<1>4. CASE x.script = 4
  <2>1. ProcedureStart(x, StopScript[4], "script")
          = [x EXCEPT !.radio.le = FALSE, !.fn.le = "script",
                      !.hs.le = {"advertising", "connectable"}]
    BY Steps DEF ProcedureStart
  <2> QED BY <1>4, <2>1, DisallowLeCore
<1>5. CASE x.script = 5
  <2>1. ProcedureStart(x, StopScript[5], "script")
          = HandsetService_DisconnectAll([x EXCEPT !.fn.disconnect = "script"])
    BY Steps DEF ProcedureStart
  <2> QED BY <1>5, <2>1, DisconnectAllCore
<1>6. CASE x.script = 6
  <2>1. ProcedureStart(x, StopScript[6], "script")
          = [x EXCEPT !.fn.leDown = "script", !.hs.leDown = TRUE, !.panic = @ \/ x.hs.leDown]
    BY Steps DEF ProcedureStart
  <2> QED BY <1>6, <2>1, DisconnectLeCore
<1>7. CASE x.script = 7
  <2>1. ProcedureStart(x, StopScript[7], "script")
          = DelayedComplete(Send(x, Msg("stop_finished")), "send_message", "script")
    BY Steps DEF ProcedureStart
  <2>2. x.script \notin Answered
    BY <1>7 DEF Answered
  <2> QED BY <1>7, <2>1, <2>2, CloseCore
<1> QED BY <1>1, <1>2, <1>3, <1>4, <1>5, <1>6, <1>7

-----------------------------------------------------------------------------
(* The goals and the invariant *)

\* The goals engine did something.
LEMMA GoalsCore ==
    ASSUME NEW x, Core(x), NEW e, GP!Good(e), NEW y, y = [x EXCEPT !.gs = e]
    PROVE  Core(y) /\ y.gs = e /\ y.script = x.script /\ y.mq = x.mq
<1>1. e \in GE!GoalSet
  BY SameGoalSet DEF GP!Good
<1> QED BY <1>1, GoalsField DEF Core

\* A goal has ended.
LEMMA ClearCore ==
    ASSUME NEW x, Core(x), NEW g \in Goals
    PROVE  /\ Core(ClearGoal(x, g)) /\ ClearGoal(x, g).script = x.script
           /\ ClearGoal(x, g).gs.active = x.gs.active \ {g}
<1>1. PICK n : n = GP!NoCalls(x.gs)
  OBVIOUS
<1>2. GP!Good(n) /\ n.active = x.gs.active
  BY <1>1, GoalsOk, GP!NoCallsGood DEF Core
<1>3. PICK e : e = GP!GoalsEngine_ClearGoal(n, g)
  OBVIOUS
<1>4. GP!Good(e) /\ e.active = n.active \ {g}
  BY <1>2, <1>3, GoalsOk, GP!ClearGoalGood
<1>5. ClearGoal(x, g) = [x EXCEPT !.gs = e]
  BY <1>1, <1>3, SameNoCalls, SameClearGoal DEF ClearGoal
<1> QED BY <1>2, <1>4, <1>5, GoalsCore

\* So has one that does not belong to the script.
LEMMA ClearSound ==
    ASSUME NEW x, Sound(x), NEW g \in Goals \ {"stop"}
    PROVE  Sound(ClearGoal(x, g))
BY ClearCore DEF Sound

\* The topology is in another state.
LEMMA StateCore ==
    ASSUME NEW x, Core(x), NEW s \in {"stopped", "starting", "started", "stopping"}
    PROVE  Undisturbed(x, [x EXCEPT !.state = s])
<1>1. ASSUME NEW y, y = [x EXCEPT !.state = s] PROVE Alike(x, y)
  BY <1>1 DEF Core, Topology, Alike
<1> QED BY <1>1, AlikeCore

\* The procedure of a goal, or its script, has completed.
LEMMA CompleteCore ==
    ASSUME NEW x, Core(x), NEW g \in Goals
    PROVE  /\ Core(GoalProcComplete(x, g)) /\ GoalProcComplete(x, g).script = x.script
           /\ GoalProcComplete(x, g).gs.active = x.gs.active \ {g}
<1>1. PICK y : y = IF x.state = "starting" /\ g = "allow_handset"
                   THEN [x EXCEPT !.state = "started"] ELSE x
  OBVIOUS
<1>2. Undisturbed(x, y)
  BY <1>1, StateCore DEF Undisturbed
<1>3. GoalProcComplete(x, g) = ClearGoal(y, g)
  BY <1>1, Zenon DEF GoalProcComplete
<1> QED BY <1>2, <1>3, ClearCore DEF Undisturbed

\* So has one that does not belong to the script.
LEMMA CompleteSound ==
    ASSUME NEW x, Sound(x), NEW g \in Goals \ {"stop"}
    PROVE  Sound(GoalProcComplete(x, g))
BY CompleteCore DEF Sound

\* While the script does not run nothing is left of it.
LEMMA IdleReady ==
    ASSUME NEW x, Core(x), x.script = 0
    PROVE  Ready(x)
BY DEF Core, Ready, QueueOk, CallbacksOk, Answered

\* The script is started.
LEMMA StartScriptCore ==
    ASSUME NEW x, Core(x), x.script = 0
    PROVE  /\ Core(ScriptEngine_StartScript(x)) /\ ScriptEngine_StartScript(x).gs = x.gs
           /\ ScriptEngine_StartScript(x).script = 1
<1>1. PICK y : y = [x EXCEPT !.script = 1]
  OBVIOUS
<1>2. Ready(y) /\ y.script = 1 /\ y.gs = x.gs
  <2>1. Ready(x) /\ 1 \in 0 .. 7
    BY IdleReady
  <2> QED BY <1>1, <2>1, ScriptField
<1>3. PICK z : z = ProcedureStart(y, StopScript[1], "script")
  OBVIOUS
<1>4. Undisturbed(y, z)
  BY <1>2, <1>3, StepCore
<1>5. z \in Topology /\ z.panic = FALSE
  BY <1>4, Fields DEF Undisturbed, Core
<1>6. ScriptEngine_StartScript(x) = [z EXCEPT !.panic = @ \/ x.script # 0]
  BY <1>1, <1>3 DEF ScriptEngine_StartScript
<1>7. (z.panic \/ x.script # 0) = FALSE
  BY <1>5
<1>8. [z EXCEPT !.panic = @ \/ x.script # 0] = z
  BY <1>5, <1>7 DEF Topology
<1> QED BY <1>2, <1>4, <1>6, <1>8 DEF Undisturbed

\* The walk over the goals that the goals engine cancels, and what follows it.
IsWalk(f, x, e) ==
    IsCancelled(f, Without(x, [k : {"queued"}, a : e.flushed, b : {""}]), e.cancelled)

AfterWalk(y, e) ==
    IF e.started # {} THEN GoalStart(y, CHOOSE g \in e.started : TRUE)
    ELSE IF e.queued # {}
    THEN Send(y, [k |-> "queued", a |-> CHOOSE g \in e.queued : TRUE, b |-> ""])
    ELSE y

\* These are the calls.
LEMMA CallsWalk ==
    ASSUME NEW x, NEW e
    PROVE  \E f : /\ IsWalk(f, x, e)
                  /\ CallsMade(x, e)
                       = AfterWalk([f[Len(GoalOrder)] EXCEPT !.gs = e, !.panic = @ \/ e.panic], e)
<1> DEFINE f == CHOOSE f : IsWalk(f, x, e)
<1>1. IsWalk(f, x, e)
  <2>1. \E h : IsWalk(h, x, e)
    BY CancelledExists DEF IsWalk
  <2> QED BY <2>1, Zenon
<1>2. CallsMade(x, e)
        = AfterWalk([f[Len(GoalOrder)] EXCEPT !.gs = e, !.panic = @ \/ e.panic], e)
  BY DEF CallsMade, AfterWalk, IsWalk, IsCancelled
<1> HIDE DEF f
<1> QED BY <1>1, <1>2, Zenon

\* The calls that the goals engine makes for a decision are carried out.
LEMMA CallsSound ==
    ASSUME NEW x, Core(x), NEW o, ("stop" \in o.active) <=> x.script # 0,
           NEW e, GP!Good(e), NEW g \in Goals, GP!CallsFit(o, e, g)
    PROVE  Sound(CallsMade(x, e))
<1>1. PICK w : w = Without(x, [k : {"queued"}, a : e.flushed, b : {""}])
  OBVIOUS
<1>2. Undisturbed(x, w) /\ Core(w)
  BY <1>1, WithoutCore DEF Undisturbed
<1>3. PICK f : /\ IsWalk(f, x, e)
               /\ CallsMade(x, e)
                    = AfterWalk([f[Len(GoalOrder)] EXCEPT !.gs = e, !.panic = @ \/ e.panic], e)
  BY CallsWalk
<1>4. "stop" \notin e.cancelled
  <2>1. Contention[g] = "cancel" => g = "stop"
    BY DEF Contention, Goals
  <2>2. ExclusiveGoal[g] # "stop"
    BY NoGoalAssumption DEF ExclusiveGoal, Goals
  <2> QED BY <2>1, <2>2 DEF GP!CallsFit
<1>5. PICK c : c = f[Len(GoalOrder)]
  OBVIOUS
<1>6. Undisturbed(w, c) /\ Core(c)
  <2>1. IsCancelled(f, w, e.cancelled)
    BY <1>1, <1>3, Zenon DEF IsWalk
  <2>2. Undisturbed(w, c)
    BY ONLY <1>2, <1>4, <1>5, <2>1, CancelledCore
  <2> QED BY <2>2 DEF Undisturbed
<1>7. PICK y : y = [c EXCEPT !.gs = e, !.panic = @ \/ e.panic]
  OBVIOUS
<1>8. Core(y) /\ y.gs = e /\ y.script = x.script
  <2>1. c.panic = FALSE /\ e.panic = FALSE /\ c \in Topology
    <3>1. c \in Topology /\ c.panic = FALSE
      BY <1>6, Fields DEF Core
    <3>2. e.panic = FALSE
      BY DEF GP!Good, GP!GoalSet
    <3> QED BY <3>1, <3>2
  <2>2. (c.panic \/ e.panic) = FALSE
    BY <2>1
  <2>3. y = [c EXCEPT !.gs = e]
    BY <1>7, <2>1, <2>2 DEF Topology
  <2>4. Core(y) /\ y.gs = e /\ y.script = c.script
    BY <1>6, <2>3, GoalsCore
  <2> QED BY <1>2, <1>6, <2>4 DEF Undisturbed
<1>9. /\ e.started # {} => CallsMade(x, e) = GoalStart(y, CHOOSE h \in e.started : TRUE)
      /\ e.started = {} /\ e.queued # {} =>
           CallsMade(x, e) = Send(y, [k |-> "queued", a |-> CHOOSE h \in e.queued : TRUE,
                                      b |-> ""])
      /\ e.started = {} /\ e.queued = {} => CallsMade(x, e) = y
  <2>1. CallsMade(x, e) = AfterWalk(y, e)
    BY <1>3, <1>5, <1>7, Zenon
  <2> QED BY <2>1, Zenon DEF AfterWalk
<1>10. /\ e.started \subseteq {g} /\ e.active = o.active \cup e.started
       /\ g = "stop" /\ g \in o.active => e.started = {}
  BY DEF GP!CallsFit, Contention
<1>11. CASE e.started # {}
  <2>1. PICK h : h = CHOOSE n \in e.started : TRUE
    OBVIOUS
  <2>2. h = g /\ g \in e.started
    BY <1>10, <1>11, <2>1
  <2>3. CallsMade(x, e) = GoalStart(y, g)
    BY <1>9, <1>11, <2>1, <2>2
  <2>4. CASE g = "stop"
    <3>1. x.script = 0
      BY <1>10, <1>11, <2>4
    <3>2. GoalStart(y, g) = ScriptEngine_StartScript(y)
      BY <2>4 DEF GoalStart
    <3> QED BY <1>8, <1>10, <2>2, <2>3, <2>4, <3>1, <3>2, StartScriptCore DEF Sound
  <2>5. CASE g # "stop"
    <3>1. GoalStart(y, g) = ProcedureStart(y, g, "goal")
      BY <2>5 DEF GoalStart
    <3>2. Undisturbed(y, ProcedureStart(y, g, "goal"))
      BY <1>8, <2>5, StartCore
    <3> QED BY <1>8, <1>10, <2>3, <2>5, <3>1, <3>2 DEF Sound, Undisturbed
  <2> QED BY <2>4, <2>5
<1>12. CASE e.started = {}
  <2>1. Sound(y)
    BY <1>8, <1>10, <1>12 DEF Sound
  <2>2. CASE e.queued # {}
    <3>1. PICK h : h = CHOOSE n \in e.queued : TRUE
      OBVIOUS
    <3>2. h \in Goals
      <4>1. e.queued \subseteq Goals
        BY DEF GP!Good, GP!GoalSet
      <4> QED BY <2>2, <3>1, <4>1
    <3>3. PICK m \in Plain : m = [k |-> "queued", a |-> h, b |-> ""]
      BY <3>2, PlainMessages
    <3>4. CallsMade(x, e) = Send(y, m)
      BY <1>9, <1>12, <2>2, <3>1, <3>3
    <3> QED BY <2>1, <3>4, SendCore, UndisturbedSound DEF Sound
  <2>3. CASE e.queued = {}
    BY <1>9, <1>12, <2>1, <2>3
  <2> QED BY <2>2, <2>3
<1> QED BY <1>11, <1>12

\* A decision of the rules is delivered.
LEMMA NewDecisionSound ==
    ASSUME NEW x, Sound(x), NEW g \in Goals
    PROVE  Sound(StereoTopology_HandleGoalDecision(x, g, TRUE))
<1>1. PICK e : e = GP!GoalsEngine_ActivateGoal(x.gs, g, TRUE, {})
  OBVIOUS
<1>2. GP!Good(x.gs) /\ Core(x)
  BY DEF Sound, Core
<1>3. GP!Good(e)
  BY <1>1, <1>2, GoalsOk, GP!DecisionGood
<1>4. GP!CallsFit(x.gs, e, g)
  BY <1>1, <1>2, GoalsOk, GP!DecisionCalls
<1>5. Sound(CallsMade(x, e))
  BY <1>2, <1>3, <1>4, CallsSound DEF Sound
<1>6. PICK z : z = IF Accepts(x, g) THEN CallsMade(x, e) ELSE x
  OBVIOUS
<1>7. Sound(z)
  BY <1>5, <1>6
<1>8. StereoTopology_HandleGoalDecision(x, g, TRUE) = StereoTopologyRules_SetRuleComplete(z, g)
  BY <1>1, <1>6, SameActivate DEF StereoTopology_HandleGoalDecision
<1> QED BY <1>7, <1>8, RuleCompleteCore, UndisturbedSound DEF Sound

\* A decision that waited in the goal queue is delivered.
LEMMA QueuedDecisionSound ==
    ASSUME NEW x, Sound(x), NEW g \in Goals, GE!Deliverable(x.gs, g)
    PROVE  Sound(StereoTopology_HandleGoalDecision(x, g, FALSE))
<1>1. GP!Good(x.gs) /\ Core(x) /\ GP!Deliverable(x.gs, g)
  BY SameTaken DEF Sound, Core
<1>2. PICK r : r = GP!Taken(x.gs, g)
  OBVIOUS
<1>3. x.gs.msgs[g] > 0
  BY <1>1 DEF GP!Deliverable
<1>4. GP!Good(r) /\ r.active = x.gs.active
  <2>1. GP!Good(r)
    BY <1>1, <1>2, <1>3, GoalsOk, GP!TakenGood
  <2>2. r.active = x.gs.active
    BY <1>1, <1>2 DEF GP!Taken, GP!Good, GP!GoalSet
  <2> QED BY <2>1, <2>2
<1>5. PICK e : e = GP!GoalsEngine_ActivateGoal(r, g, FALSE, {})
  OBVIOUS
<1>6. GP!Good(e)
  BY <1>1, <1>2, <1>5, GoalsOk, GP!RedeliveryGood
<1>7. GP!CallsFit(x.gs, e, g)
  BY <1>1, <1>2, <1>5, GoalsOk, GP!RedeliveryCalls
<1>8. PICK y : y = [x EXCEPT !.gs = r]
  OBVIOUS
<1>9. Core(y) /\ y.gs = r /\ y.script = x.script
  BY <1>1, <1>4, <1>8, GoalsCore
<1>10. Sound(y)
  BY <1>4, <1>9 DEF Sound
<1>11. Sound(CallsMade(y, e))
  BY <1>6, <1>7, <1>9, CallsSound DEF Sound
<1>12. PICK z : z = IF Accepts(x, g) THEN CallsMade(y, e) ELSE y
  OBVIOUS
<1>13. Sound(z)
  BY <1>10, <1>11, <1>12
<1>14. StereoTopology_HandleGoalDecision(x, g, FALSE) = StereoTopologyRules_SetRuleComplete(z, g)
  <2>1. GE!Taken(x.gs, g) = r /\ GE!GoalsEngine_ActivateGoal(r, g, FALSE, {}) = e
    BY <1>2, <1>5, SameTaken, SameActivate
  <2>2. [x EXCEPT !.gs = GE!Taken(@, g)] = y
    BY <1>8, <2>1
  <2>3. PICK u : u = [x EXCEPT !.gs = GE!Taken(@, g)]
    OBVIOUS
  <2>4. StereoTopology_HandleGoalDecision(x, g, FALSE)
          = StereoTopologyRules_SetRuleComplete(
              IF Accepts(x, g)
              THEN CallsMade(u, GE!GoalsEngine_ActivateGoal(u.gs, g, FALSE, {})) ELSE u, g)
    BY <2>3 DEF StereoTopology_HandleGoalDecision
  <2>5. u = y /\ u.gs = r
    BY <1>9, <2>2, <2>3
  <2> QED BY <1>12, <2>1, <2>4, <2>5, Zenon
<1> QED BY <1>13, <1>14, RuleCompleteCore, UndisturbedSound DEF Sound

\* A step of the script has ended: the next one is started, or the goal of
\* the script has been reached.
LEMMA MoveOnSound ==
    ASSUME NEW x, Sound(x), Ready(x), x.script # 0
    PROVE  Sound(ScriptComplete(x))
<1>1. x.script \in 1 .. 7 /\ "stop" \in x.gs.active
  <2>1. x.script \in 0 .. 7
    BY Fields, Steps DEF Sound, Core
  <2> QED BY <2>1 DEF Sound
<1>2. CASE x.script # 7
  <2>1. PICK n \in 2 .. 7 : n = x.script + 1
    BY <1>1, <1>2
  <2>2. PICK y : y = [x EXCEPT !.script = n]
    OBVIOUS
  <2>3. Ready(y) /\ y.script = n /\ y.gs = x.gs
    <3>1. n \in 0 .. 7
      OBVIOUS
    <3> QED BY <2>2, <3>1, ScriptField
  <2>4. Undisturbed(y, ProcedureStart(y, StopScript[n], "script"))
    <3>1. n \in 1 .. 7
      OBVIOUS
    <3> QED BY <2>3, <3>1, StepCore
  <2>5. ScriptComplete(x) = ProcedureStart(y, StopScript[n], "script")
    <3>1. x.script # 0 /\ x.script < Len(StopScript)
      BY <1>1, <1>2, Steps
    <3>2. [x EXCEPT !.script = @ + 1] = y
      BY <2>1, <2>2
    <3> QED BY <2>1, <3>1, <3>2 DEF ScriptComplete
  <2> QED BY <1>1, <2>3, <2>4, <2>5 DEF Sound, Undisturbed
<1>3. CASE x.script = 7
  <2>1. PICK y : y = [x EXCEPT !.script = 0]
    OBVIOUS
  <2>2. Ready(y) /\ y.script = 0 /\ y.gs = x.gs
    <3>1. 0 \in 0 .. 7
      OBVIOUS
    <3> QED BY <2>1, <3>1, ScriptField
  <2>3. ScriptComplete(x) = GoalProcComplete(y, "stop")
    BY <1>3, <2>1, Steps DEF ScriptComplete
  <2>4. "stop" \in Goals
    BY DEF Goals
  <2> QED BY <2>2, <2>3, <2>4, CompleteCore DEF Sound, Ready
<1> QED BY <1>2, <1>3

-----------------------------------------------------------------------------
(* Answers of the services and the invariant *)

\* A reconnection has ended.
LEMMA ConnectCfmSound ==
    ASSUME NEW x, Sound(x), NEW s
    PROVE  Sound(HandleConnectCfm(x, s)) /\ Sound(HandleConnectStopCfm(x))
<1>1. "connect" \in Goals \ {"stop"}
  BY DEF Goals
<1>2. ASSUME NEW y, Sound(y), NEW c \in {"none", "complete", "cancel"}
      PROVE  Sound([y EXCEPT !.fn.connect = c])
  BY <1>2, ConnectFn, UndisturbedSound DEF Sound
<1>3. PICK y : y = GoalProcComplete(x, "connect")
  OBVIOUS
<1>4. PICK z : z = ClearGoal(x, "connect")
  OBVIOUS
<1>5. Sound(y) /\ Sound(z)
  BY <1>1, <1>3, <1>4, CompleteSound, ClearSound
<1>6. PICK c \in {"none", "complete", "cancel"} : c = IF s = "success" THEN "cancel" ELSE "none"
  OBVIOUS
<1>7. PICK u : u = [y EXCEPT !.fn.connect = "none"]
  OBVIOUS
<1>8. PICK v : v = [z EXCEPT !.fn.connect = c]
  OBVIOUS
<1>9. PICK w : w = [z EXCEPT !.fn.connect = "none"]
  OBVIOUS
<1>10. Sound(u) /\ Sound(v) /\ Sound(w)
  BY <1>2, <1>5, <1>7, <1>8, <1>9
<1>11. HandleConnectCfm(x, s) \in {x, u, v}
  BY <1>3, <1>4, <1>6, <1>7, <1>8 DEF HandleConnectCfm
<1>12. HandleConnectStopCfm(x) \in {x, w}
  BY <1>4, <1>9 DEF HandleConnectStopCfm
<1>13. Sound(HandleConnectCfm(x, s))
  BY ONLY <1>10, <1>11, Sound(x)
<1>14. Sound(HandleConnectStopCfm(x))
  BY ONLY <1>10, <1>12, Sound(x)
<1> QED BY <1>13, <1>14

\* A disconnection has ended.  The script that waits for it is at the step
\* that asks for it, and it is no longer waited for.
LEMMA DisconnectCfmSound ==
    ASSUME NEW x, Sound(x), NEW p \in {"disconnect", "lru"}
    PROVE  Sound(HandleDisconnectCfm(x, p))
<1>1. p \in Goals \ {"stop"}
  BY DEF Goals
<1>2. ASSUME NEW y, Sound(y)
      PROVE  Sound([y EXCEPT !.fn.disconnect = "none"])
  BY <1>2, DisconnectFn, UndisturbedSound DEF Sound
<1>3. CASE x.fn.disconnect = "none"
  BY <1>3 DEF HandleDisconnectCfm
<1>4. CASE x.fn.disconnect = "goal"
  <2>1. HandleDisconnectCfm(x, p) = [GoalProcComplete(x, p) EXCEPT !.fn.disconnect = "none"]
    BY <1>4 DEF HandleDisconnectCfm, Complete
  <2> QED BY <1>1, <1>2, <2>1, CompleteSound
<1>5. CASE x.fn.disconnect = "script"
  <2>1. x.script = 5 /\ x \in Topology
    BY <1>5 DEF Sound, Core, CallbacksOk
  <2>2. PICK y : y = [x EXCEPT !.fn.disconnect = "none"]
    OBVIOUS
  <2>3. Sound(y)
    BY <1>2, <2>2
  <2>4. y.script = 5 /\ y.fn.disconnect = "none" /\ y.hs = x.hs
    BY <2>1, <2>2 DEF Topology
  <2>5. Ready(y)
    BY <2>3, <2>4 DEF Sound, Core, Ready, QueueOk, CallbacksOk, Answered
  <2>6. HandleDisconnectCfm(x, p) = [ScriptComplete(x) EXCEPT !.fn.disconnect = "none"]
    BY <1>5 DEF HandleDisconnectCfm, Complete
  <2>7. ScriptComplete(x) = [[x EXCEPT !.script = 6] EXCEPT
                                !.fn.leDown = "script", !.hs.leDown = TRUE,
                                !.panic = @ \/ x.hs.leDown]
    <3>1. x.script # 0 /\ x.script < Len(StopScript) /\ x.script + 1 = 6
      BY <2>1, Steps
    <3>2. PICK u : u = [x EXCEPT !.script = 6]
      OBVIOUS
    <3>3. ScriptComplete(x) = ProcedureStart(u, StopScript[6], "script")
      BY <3>1, <3>2 DEF ScriptComplete
    <3>4. ProcedureStart(u, StopScript[6], "script")
            = [u EXCEPT !.fn.leDown = "script", !.hs.leDown = TRUE, !.panic = @ \/ u.hs.leDown]
      BY Steps DEF ProcedureStart
    <3>5. u.hs = x.hs
      BY <2>1, <3>2 DEF Topology
    <3> QED BY <3>2, <3>3, <3>4, <3>5
  <2>8. ScriptComplete(y) = [[y EXCEPT !.script = 6] EXCEPT
                                !.fn.leDown = "script", !.hs.leDown = TRUE,
                                !.panic = @ \/ y.hs.leDown]
    <3>1. y.script # 0 /\ y.script < Len(StopScript) /\ y.script + 1 = 6
      BY <2>4, Steps
    <3>2. PICK u : u = [y EXCEPT !.script = 6]
      OBVIOUS
    <3>3. ScriptComplete(y) = ProcedureStart(u, StopScript[6], "script")
      BY <3>1, <3>2 DEF ScriptComplete
    <3>4. ProcedureStart(u, StopScript[6], "script")
            = [u EXCEPT !.fn.leDown = "script", !.hs.leDown = TRUE, !.panic = @ \/ u.hs.leDown]
      BY Steps DEF ProcedureStart
    <3>5. u.hs = y.hs
      BY <2>3, <3>2 DEF Topology, Sound, Core
    <3> QED BY <3>2, <3>3, <3>4, <3>5
  <2>9. [ScriptComplete(x) EXCEPT !.fn.disconnect = "none"] = ScriptComplete(y)
    <3>1. PICK P : P = (x.panic \/ x.hs.leDown)
      OBVIOUS
    <3>2. P = (y.panic \/ y.hs.leDown)
      BY <2>1, <2>2, <2>4, <3>1 DEF Topology
    <3>3. [x EXCEPT !.script = 6].panic = x.panic /\ [y EXCEPT !.script = 6].panic = y.panic
      <4>1. y \in Topology
        BY <2>3 DEF Sound, Core
      <4> QED BY <2>1, <4>1 DEF Topology
    <3>4. ScriptComplete(x) = [[x EXCEPT !.script = 6] EXCEPT
                                 !.fn.leDown = "script", !.hs.leDown = TRUE, !.panic = P]
      BY <2>7, <3>1, <3>3
    <3>5. ScriptComplete(y) = [[y EXCEPT !.script = 6] EXCEPT
                                 !.fn.leDown = "script", !.hs.leDown = TRUE, !.panic = P]
      BY <2>8, <3>2, <3>3
    <3>6. PICK u : u = [[x EXCEPT !.script = 6] EXCEPT
                          !.fn.leDown = "script", !.hs.leDown = TRUE, !.panic = P]
      OBVIOUS
    <3>7. PICK v : v = [[y EXCEPT !.script = 6] EXCEPT
                          !.fn.leDown = "script", !.hs.leDown = TRUE, !.panic = P]
      OBVIOUS
    <3>8. [u EXCEPT !.fn.disconnect = "none"] = v
      BY ONLY <2>2, <3>6, <3>7
    <3> QED BY ONLY <3>4, <3>5, <3>6, <3>7, <3>8
  <2>10. Sound(ScriptComplete(y))
    BY <2>3, <2>4, <2>5, MoveOnSound
  <2> QED BY <2>6, <2>9, <2>10
<1> QED BY <1>3, <1>4, <1>5, Fields DEF Sound, Core

\* The step of the script that disconnects the handsets keeps what the
\* callback of LE advertising is.
LEMMA ForgetLe ==
    ASSUME NEW x \in Topology, NEW y, y = [x EXCEPT !.fn.le = "none"]
    PROVE  [HandsetService_DisconnectAll([[x EXCEPT !.script = 5] EXCEPT !.fn.disconnect = "script"])
              EXCEPT !.fn.le = "none"]
           = HandsetService_DisconnectAll([[y EXCEPT !.script = 5] EXCEPT !.fn.disconnect = "script"])
<1>1. PICK u : u = [[x EXCEPT !.script = 5] EXCEPT !.fn.disconnect = "script"]
  OBVIOUS
<1>2. PICK v : v = [[y EXCEPT !.script = 5] EXCEPT !.fn.disconnect = "script"]
  OBVIOUS
<1>3. [u EXCEPT !.fn.le = "none"] = v
  BY ONLY <1>1, <1>2, y = [x EXCEPT !.fn.le = "none"]
<1>4. u.hs = x.hs /\ v.hs = x.hs /\ u.mq = x.mq /\ v.mq = x.mq
  BY <1>1, <1>2 DEF Topology
<1>5. CASE x.hs.links = {} /\ ~x.hs.all
  <2>1. PICK q : q = Append(x.mq, Msg("disconnect_all_cfm"))
    OBVIOUS
  <2>2. HandsetService_DisconnectAll(u) = [u EXCEPT !.mq = q]
    BY <1>4, <1>5, <2>1 DEF HandsetService_DisconnectAll, Send
  <2>3. HandsetService_DisconnectAll(v) = [v EXCEPT !.mq = q]
    BY <1>4, <1>5, <2>1 DEF HandsetService_DisconnectAll, Send
  <2>4. [[u EXCEPT !.mq = q] EXCEPT !.fn.le = "none"] = [[u EXCEPT !.fn.le = "none"] EXCEPT !.mq = q]
    BY ONLY TRUE
  <2>5. [[u EXCEPT !.mq = q] EXCEPT !.fn.le = "none"] = [v EXCEPT !.mq = q]
    BY ONLY <1>3, <2>4
  <2> QED BY ONLY <1>1, <1>2, <2>2, <2>3, <2>5
<1>6. CASE ~(x.hs.links = {} /\ ~x.hs.all)
  <2>1. HandsetService_DisconnectAll(u) = [u EXCEPT !.hs.all = TRUE]
    BY <1>4, <1>6 DEF HandsetService_DisconnectAll
  <2>2. HandsetService_DisconnectAll(v) = [v EXCEPT !.hs.all = TRUE]
    BY <1>4, <1>6 DEF HandsetService_DisconnectAll
  <2>3. [[u EXCEPT !.hs.all = TRUE] EXCEPT !.fn.le = "none"]
          = [[u EXCEPT !.fn.le = "none"] EXCEPT !.hs.all = TRUE]
    BY ONLY TRUE
  <2>4. [[u EXCEPT !.hs.all = TRUE] EXCEPT !.fn.le = "none"] = [v EXCEPT !.hs.all = TRUE]
    BY ONLY <1>3, <2>3
  <2> QED BY ONLY <1>1, <1>2, <2>1, <2>2, <2>4
<1> QED BY <1>5, <1>6

\* LE advertising has answered.
LEMMA LeCfmSound ==
    ASSUME NEW x, Sound(x)
    PROVE  Sound(HandleLeCfm(x))
<1>1. "allow_le" \in Goals \ {"stop"}
  BY DEF Goals
<1>2. ASSUME NEW y, Sound(y)
      PROVE  Sound([y EXCEPT !.fn.le = "none"])
  BY <1>2, LeFn, UndisturbedSound DEF Sound
<1>3. CASE x.fn.le = "none"
  BY <1>3 DEF HandleLeCfm
<1>4. CASE x.fn.le = "goal"
  <2>1. HandleLeCfm(x) = [GoalProcComplete(x, "allow_le") EXCEPT !.fn.le = "none"]
    BY <1>4 DEF HandleLeCfm, Complete
  <2> QED BY <1>1, <1>2, <2>1, CompleteSound
<1>5. CASE x.fn.le = "script"
  <2>1. x.script = 4 /\ x \in Topology
    BY <1>5 DEF Sound, Core, CallbacksOk
  <2>2. PICK y : y = [x EXCEPT !.fn.le = "none"]
    OBVIOUS
  <2>3. Sound(y)
    BY <1>2, <2>2
  <2>4. y.script = 4 /\ y.fn.le = "none" /\ y.hs = x.hs
    BY <2>1, <2>2 DEF Topology
  <2>5. Ready(y)
    BY <2>3, <2>4 DEF Sound, Core, Ready, QueueOk, CallbacksOk, Answered
  <2>6. HandleLeCfm(x) = [ScriptComplete(x) EXCEPT !.fn.le = "none"]
    BY <1>5 DEF HandleLeCfm, Complete
  <2>7. ASSUME NEW w, w.script = 4
        PROVE  ScriptComplete(w) = HandsetService_DisconnectAll(
                  [[w EXCEPT !.script = 5] EXCEPT !.fn.disconnect = "script"])
    <3>1. w.script # 0 /\ w.script < Len(StopScript) /\ w.script + 1 = 5
      BY <2>7, Steps
    <3>2. PICK u : u = [w EXCEPT !.script = 5]
      OBVIOUS
    <3>3. ScriptComplete(w) = ProcedureStart(u, StopScript[5], "script")
      BY <3>1, <3>2 DEF ScriptComplete
    <3>4. ProcedureStart(u, StopScript[5], "script")
            = HandsetService_DisconnectAll([u EXCEPT !.fn.disconnect = "script"])
      BY Steps DEF ProcedureStart
    <3> QED BY <3>2, <3>3, <3>4
  <2>8. [ScriptComplete(x) EXCEPT !.fn.le = "none"] = ScriptComplete(y)
    <3>1. PICK a : a = ScriptComplete(x)
      OBVIOUS
    <3>2. PICK b : b = ScriptComplete(y)
      OBVIOUS
    <3>3. a = HandsetService_DisconnectAll(
                  [[x EXCEPT !.script = 5] EXCEPT !.fn.disconnect = "script"])
      BY <2>1, <2>7, <3>1
    <3>4. b = HandsetService_DisconnectAll(
                  [[y EXCEPT !.script = 5] EXCEPT !.fn.disconnect = "script"])
      BY <2>4, <2>7, <3>2
    <3>5. [a EXCEPT !.fn.le = "none"] = b
      BY ONLY <2>1, <2>2, <3>3, <3>4, ForgetLe
    <3> QED BY ONLY <3>1, <3>2, <3>5
  <2>9. Sound(ScriptComplete(y))
    BY <2>3, <2>4, <2>5, MoveOnSound
  <2> QED BY <2>6, <2>8, <2>9
<1> QED BY <1>3, <1>4, <1>5, Fields DEF Sound, Core

\* The last step keeps what the callback of the disconnection of LE links is.
LEMMA ForgetLeDown ==
    ASSUME NEW x \in Topology, NEW y, y = [x EXCEPT !.fn.leDown = "none"]
    PROVE  [DelayedComplete(Send([x EXCEPT !.script = 7], Msg("stop_finished")),
                            "send_message", "script") EXCEPT !.fn.leDown = "none"]
           = DelayedComplete(Send([y EXCEPT !.script = 7], Msg("stop_finished")),
                             "send_message", "script")
<1>1. PICK u : u = [x EXCEPT !.script = 7]
  OBVIOUS
<1>2. PICK v : v = [y EXCEPT !.script = 7]
  OBVIOUS
<1>3. [u EXCEPT !.fn.leDown = "none"] = v
  BY ONLY <1>1, <1>2, y = [x EXCEPT !.fn.leDown = "none"]
<1>4. u.mq = x.mq /\ v.mq = x.mq /\ u \in Topology /\ v \in Topology
  <2>1. ASSUME NEW w \in Topology
        PROVE  [w EXCEPT !.script = 7] \in Topology /\ [w EXCEPT !.script = 7].mq = w.mq
    <3>1. 7 \in 0 .. Len(StopScript)
      BY Steps
    <3> QED BY ONLY <2>1, <3>1 DEF Topology
  <2>2. y \in Topology /\ y.mq = x.mq
    BY DEF Topology
  <2> QED BY ONLY <1>1, <1>2, <2>1, <2>2, x \in Topology
<1>5. PICK q : q = Append(Append(x.mq, Msg("stop_finished")),
                          [k |-> "done", a |-> "send_message", b |-> "script"])
  OBVIOUS
<1>6. ASSUME NEW w \in Topology, w.mq = x.mq
      PROVE  DelayedComplete(Send(w, Msg("stop_finished")), "send_message", "script")
               = [w EXCEPT !.mq = q]
  <2>1. PICK p : p = Append(x.mq, Msg("stop_finished"))
    OBVIOUS
  <2>2. PICK z : z = [w EXCEPT !.mq = p]
    OBVIOUS
  <2>3. Send(w, Msg("stop_finished")) = z
    BY <1>6, <2>1, <2>2 DEF Send
  <2>4. z.mq = p
    BY <2>2 DEF Topology
  <2>5. DelayedComplete(z, "send_message", "script") = [z EXCEPT !.mq = q]
    BY <1>5, <2>1, <2>4 DEF DelayedComplete, Send
  <2>6. [z EXCEPT !.mq = q] = [w EXCEPT !.mq = q]
    BY ONLY <2>2
  <2> QED BY ONLY <2>3, <2>5, <2>6
<1>7. [[u EXCEPT !.mq = q] EXCEPT !.fn.leDown = "none"]
        = [[u EXCEPT !.fn.leDown = "none"] EXCEPT !.mq = q]
  BY ONLY TRUE
<1>8. PICK a : a = DelayedComplete(Send(u, Msg("stop_finished")), "send_message", "script")
  OBVIOUS
<1>9. PICK b : b = DelayedComplete(Send(v, Msg("stop_finished")), "send_message", "script")
  OBVIOUS
<1>10. a = [u EXCEPT !.mq = q] /\ b = [v EXCEPT !.mq = q]
  BY <1>4, <1>6, <1>8, <1>9
<1>11. [a EXCEPT !.fn.leDown = "none"] = b
  BY ONLY <1>3, <1>7, <1>10
<1> QED BY ONLY <1>1, <1>2, <1>8, <1>9, <1>11

\* The LE links are disconnected.
LEMMA DisconnectLeCfmSound ==
    ASSUME NEW x, Sound(x), x.script = 6, ~x.hs.leDown, NoneOf(x.mq, LeDone)
    PROVE  Sound(HandleDisconnectLeCfm(x))
<1>1. CASE x.fn.leDown = "none"
  BY <1>1 DEF HandleDisconnectLeCfm
<1>2. CASE x.fn.leDown = "script"
  <2>1. x \in Topology
    BY DEF Sound, Core
  <2>2. PICK y : y = [x EXCEPT !.fn.leDown = "none"]
    OBVIOUS
  <2>3. Sound(y)
    BY <2>2, LeDownFn, UndisturbedSound DEF Sound
  <2>4. y.script = 6 /\ y.fn.leDown = "none" /\ y.hs = x.hs /\ y.mq = x.mq
    BY <2>1, <2>2 DEF Topology
  <2>5. Ready(y)
    BY <2>3, <2>4 DEF Sound, Core, Ready, QueueOk, CallbacksOk, Answered
  <2>6. HandleDisconnectLeCfm(x) = [ScriptComplete(x) EXCEPT !.fn.leDown = "none"]
    BY <1>2 DEF HandleDisconnectLeCfm, Complete
  <2>7. ASSUME NEW w, w.script = 6
        PROVE  ScriptComplete(w) = DelayedComplete(
                  Send([w EXCEPT !.script = 7], Msg("stop_finished")), "send_message", "script")
    <3>1. w.script # 0 /\ w.script < Len(StopScript) /\ w.script + 1 = 7
      BY <2>7, Steps
    <3>2. PICK u : u = [w EXCEPT !.script = 7]
      OBVIOUS
    <3>3. ScriptComplete(w) = ProcedureStart(u, StopScript[7], "script")
      BY <3>1, <3>2 DEF ScriptComplete
    <3>4. ProcedureStart(u, StopScript[7], "script")
            = DelayedComplete(Send(u, Msg("stop_finished")), "send_message", "script")
      BY Steps DEF ProcedureStart
    <3> QED BY <3>2, <3>3, <3>4
  <2>8. [ScriptComplete(x) EXCEPT !.fn.leDown = "none"] = ScriptComplete(y)
    <3>1. PICK a : a = ScriptComplete(x)
      OBVIOUS
    <3>2. PICK b : b = ScriptComplete(y)
      OBVIOUS
    <3>3. a = DelayedComplete(
                  Send([x EXCEPT !.script = 7], Msg("stop_finished")), "send_message", "script")
      BY <2>7, <3>1
    <3>4. b = DelayedComplete(
                  Send([y EXCEPT !.script = 7], Msg("stop_finished")), "send_message", "script")
      BY <2>4, <2>7, <3>2
    <3>5. [a EXCEPT !.fn.leDown = "none"] = b
      BY ONLY <2>1, <2>2, <3>3, <3>4, ForgetLeDown
    <3> QED BY ONLY <3>1, <3>2, <3>5
  <2>9. Sound(ScriptComplete(y))
    BY <2>3, <2>4, <2>5, MoveOnSound
  <2> QED BY <2>6, <2>8, <2>9
<1> QED BY <1>1, <1>2, Fields DEF Sound, Core

-----------------------------------------------------------------------------
(* Messages and the invariant *)

\* The kinds of messages, and what they carry.
LEMMA MessageKinds ==
    ASSUME NEW m \in Message
    PROVE  /\ m.k \in {"decision", "queued", "done", "cancelled", "connect_cfm",
                       "connect_stop_cfm", "disconnect_all_cfm", "disconnect_cfm", "le_cfm",
                       "disconnect_le_cfm", "linkloss", "stop_finished"}
           /\ m.k \in {"decision", "queued"} => m.a \in Goals
           /\ m.k = "done" => m \in [k : {"done"}, a : Procs, b : {"goal", "script"}]
           /\ m.k = "cancelled" => m \in [k : {"cancelled"}, a : Goals, b : {""}]
           /\ m.k = "disconnect_le_cfm" => m \in LeDone
<1>1. CASE m \in [k : {"decision", "queued"}, a : Goals, b : {""}]
  BY <1>1
<1>2. CASE m \in [k : {"done"}, a : Procs, b : {"goal", "script"}]
  BY <1>2
<1>3. CASE m \in [k : {"cancelled"}, a : Goals, b : {""}]
  BY <1>3
<1>4. CASE m \in [k : {"connect_cfm"}, a : {"success", "failed", "cancelled"}, b : {""}]
  BY <1>4
<1>5. CASE m \in [k : {"connect_stop_cfm", "disconnect_all_cfm", "disconnect_cfm", "le_cfm",
                       "disconnect_le_cfm", "linkloss", "stop_finished"}, a : {""}, b : {""}]
  BY <1>5 DEF LeDone, Msg
<1> QED BY <1>1, <1>2, <1>3, <1>4, <1>5 DEF Message

\* The confirmation of a procedure.
LEMMA DoneSound ==
    ASSUME NEW x, Sound(x), NEW m \in [k : {"done"}, a : Procs, b : {"goal", "script"}],
           m \notin Never,
           m \in ScriptDone => NoneOf(x.mq, ScriptDone) /\ x.script \notin Answered
    PROVE  Sound(Complete(x, m.a, m.b))
<1>1. CASE m.b = "script"
  <2>1. m \in ScriptDone
    BY <1>1 DEF ScriptDone
  <2>2. NoneOf(x.mq, ScriptDone) /\ x.script \notin Answered
    BY <2>1
  <2>3. x.script # 0 /\ x.script # 4 /\ x.script # 5 /\ x.script # 6
    BY <2>2 DEF Answered
  <2>4. Ready(x)
    BY <2>2, <2>3 DEF Sound, Core, Ready, QueueOk, CallbacksOk
  <2>5. Complete(x, m.a, m.b) = ScriptComplete(x)
    BY <1>1 DEF Complete
  <2> QED BY <2>3, <2>4, <2>5, MoveOnSound
<1>2. CASE m.b = "goal"
  <2>1. m.a \in Goals \ {"stop"}
    <3>1. m.a \in Procs /\ m.k = "done"
      OBVIOUS
    <3>2. m = [k |-> "done", a |-> m.a, b |-> "goal"]
      BY <1>2
    <3>3. ASSUME m.a \notin Goals \ {"stop"} PROVE FALSE
      <4>1. m.a \in Procs \ (Goals \ {"stop"})
        BY <3>1, <3>3
      <4>2. m \in [k : {"done"}, a : Procs \ (Goals \ {"stop"}), b : {"goal"}]
        BY <3>2, <4>1
      <4> QED BY <4>2 DEF Never
    <3> QED BY <3>3
  <2>2. Complete(x, m.a, m.b) = GoalProcComplete(x, m.a)
    BY <1>2 DEF Complete
  <2> QED BY <2>1, <2>2, CompleteSound
<1> QED BY <1>1, <1>2

\* The confirmation of a cancellation.
LEMMA CancelledSound ==
    ASSUME NEW x, Sound(x), NEW m \in [k : {"cancelled"}, a : Goals, b : {""}], m \notin Never
    PROVE  Sound(ClearGoal(x, m.a))
<1>1. m.a # "stop"
  BY DEF Never
<1> QED BY <1>1, ClearSound

\* A stop is confirmed.
LEMMA ConfirmedCore ==
    ASSUME NEW x, Core(x), NEW how \in {"none", "finished", "already", "timeout"}
    PROVE  /\ Undisturbed(x, StereoTopology_SendStopCfm(x, how))
           /\ Undisturbed(x, EnterStopped(StereoTopology_SendStopCfm(x, how)))
<1>1. PICK y : y = StereoTopology_SendStopCfm(x, how)
  OBVIOUS
<1>2. Alike(x, y)
  BY <1>1 DEF Core, Topology, Alike, StereoTopology_SendStopCfm
<1>3. Undisturbed(x, y) /\ Core(y)
  BY <1>2, AlikeCore DEF Undisturbed
<1>4. Undisturbed(y, EnterStopped(y))
  BY <1>3, StateCore DEF EnterStopped
<1> QED BY <1>1, <1>3, <1>4, UndisturbedTwice

\* The events that the topology raises.
LEMMA Raised ==
    {"stop", "linkloss", "start", "prohibit", "user_connect", "user_disconnect", "user_lru"}
      \subseteq RuleEvents
<1>1. /\ RuleTable[1][1] = "stop" /\ RuleTable[2][1] = "linkloss" /\ RuleTable[3][1] = "start"
      /\ RuleTable[7][1] = "prohibit" /\ RuleTable[8][1] = "user_connect"
      /\ RuleTable[9][1] = "user_disconnect" /\ RuleTable[10][1] = "user_lru"
  BY DEF RuleTable
<1>2. \A r \in 1 .. 10 : RuleTable[r][1] \in RuleEvents
  BY RulesOk
<1>3. \A r \in {1, 2, 3, 7, 8, 9, 10} : r \in 1 .. 10
  OBVIOUS
<1> QED BY <1>1, <1>2, <1>3

\* Every message that is handled keeps the invariant.
LEMMA HandleSound ==
    ASSUME NEW x, Sound(x), NEW m \in Message, m \notin Never,
           m.k = "queued" => GE!Deliverable(x.gs, m.a),
           m \in ScriptDone => NoneOf(x.mq, ScriptDone) /\ x.script \notin Answered,
           m \in LeDone => NoneOf(x.mq, LeDone) /\ x.script = 6 /\ ~x.hs.leDown
    PROVE  Sound(Handle(x, m))
<1>1. CASE m.k = "decision"
  <2>1. Handle(x, m) = StereoTopology_HandleGoalDecision(x, m.a, TRUE)
    BY <1>1 DEF Handle
  <2> QED BY <1>1, <2>1, MessageKinds, NewDecisionSound
<1>2. CASE m.k = "queued"
  <2>1. Handle(x, m) = StereoTopology_HandleGoalDecision(x, m.a, FALSE)
    BY <1>2 DEF Handle
  <2>2. m.a \in Goals /\ GE!Deliverable(x.gs, m.a)
    BY <1>2, MessageKinds
  <2> QED BY <2>1, <2>2, QueuedDecisionSound
<1>3. CASE m.k = "done"
  <2>1. Handle(x, m) = Complete(x, m.a, m.b)
    BY <1>3 DEF Handle
  <2>2. m \in [k : {"done"}, a : Procs, b : {"goal", "script"}]
    BY <1>3, MessageKinds
  <2> QED BY <2>1, <2>2, DoneSound
<1>4. CASE m.k = "cancelled"
  <2>1. Handle(x, m) = ClearGoal(x, m.a)
    BY <1>4 DEF Handle
  <2>2. m \in [k : {"cancelled"}, a : Goals, b : {""}]
    BY <1>4, MessageKinds
  <2>3. Sound(ClearGoal(x, m.a))
    BY ONLY Sound(x), m \notin Never, <2>2, CancelledSound
  <2> QED BY <2>1, <2>3
<1>5. CASE m.k = "connect_cfm"
  <2>1. Handle(x, m) = HandleConnectCfm(x, m.a)
    BY <1>5 DEF Handle
  <2> QED BY <2>1, ConnectCfmSound
<1>6. CASE m.k = "connect_stop_cfm"
  <2>1. Handle(x, m) = HandleConnectStopCfm(x)
    BY <1>6 DEF Handle
  <2> QED BY <2>1, ConnectCfmSound
<1>7. CASE m.k = "disconnect_all_cfm"
  <2>1. Handle(x, m) = HandleDisconnectCfm(x, "disconnect")
    BY <1>7 DEF Handle
  <2> QED BY <2>1, DisconnectCfmSound
<1>8. CASE m.k = "disconnect_cfm"
  <2>1. Handle(x, m) = HandleDisconnectCfm(x, "lru")
    BY <1>8 DEF Handle
  <2> QED BY <2>1, DisconnectCfmSound
<1>9. CASE m.k = "le_cfm"
  <2>1. Handle(x, m) = HandleLeCfm(x)
    BY <1>9 DEF Handle
  <2> QED BY <2>1, LeCfmSound
<1>10. CASE m.k = "disconnect_le_cfm"
  <2>1. Handle(x, m) = HandleDisconnectLeCfm(x)
    BY <1>10 DEF Handle
  <2>2. m \in LeDone
    BY <1>10, MessageKinds
  <2> QED BY <2>1, <2>2, DisconnectLeCfmSound
<1>11. CASE m.k = "linkloss"
  <2>1. Handle(x, m) = StereoTopologyRules_SetEvent(x, "linkloss")
    BY <1>11 DEF Handle
  <2> QED BY <2>1, Raised, RaiseCore, UndisturbedSound DEF Sound
<1>12. CASE m.k = "stop_finished"
  <2>1. Handle(x, m) = HandleStopCompletion(x)
    BY <1>12 DEF Handle
  <2>2. CASE x.state = "stopping"
    <3>1. HandleStopCompletion(x) = EnterStopped(StereoTopology_SendStopCfm(x, "finished"))
      BY <2>2 DEF HandleStopCompletion
    <3> QED BY <2>1, <3>1, ConfirmedCore, UndisturbedSound DEF Sound
  <2>3. CASE x.state # "stopping"
    BY <2>1, <2>3 DEF HandleStopCompletion
  <2> QED BY <2>2, <2>3
<1> QED BY <1>1, <1>2, <1>3, <1>4, <1>5, <1>6, <1>7, <1>8, <1>9, <1>10, <1>11, <1>12,
           MessageKinds

\* The message queue delivers a message.
LEMMA DeliverSound == Sound(t) /\ Deliver => Sound(t')
<1> SUFFICES ASSUME Sound(t), Deliver PROVE Sound(t')
  OBVIOUS
<1>1. PICK i \in Due : i = CHOOSE j \in Due : \A k \in Due : j <= k
  <2>1. Due \in SUBSET Nat /\ Due # {}
    <3>1. Len(t.mq) \in Nat
      BY Fields DEF Sound, Core
    <3>2. Due \subseteq 1 .. Len(t.mq)
      BY DEF Due
    <3> QED BY <3>1, <3>2 DEF Deliver
  <2>2. \E j \in Due : \A k \in Due : j <= k
    BY <2>1, LeastNat
  <2> QED BY <2>2
<1>2. PICK q \in Seq(Message) : q = t.mq
  BY Fields DEF Sound, Core
<1>3. i \in 1 .. Len(q) /\ (q[i].k = "queued" => GE!Deliverable(t.gs, q[i].a))
  BY <1>1, <1>2 DEF Due, Deliverable
<1>4. PICK p : p = SubSeq(q, 1, i - 1) \o SubSeq(q, i + 1, Len(q))
  OBVIOUS
<1>5. Left(p, q, i)
  BY <1>4 DEF Left
<1>6. PICK x : x = [t EXCEPT !.mq = p]
  OBVIOUS
<1>7. t' = Handle(x, q[i])
  BY <1>1, <1>2, <1>4, <1>6 DEF Deliver
<1>8. PICK s : s = t.script
  OBVIOUS
<1>9. PICK d : d = t.hs.leDown
  OBVIOUS
<1>10. QueueOk(q, s, d)
  BY <1>2, <1>8, <1>9 DEF Sound, Core
<1>11. /\ p \in Seq(Message) /\ QueueOk(p, s, d)
       /\ q[i] \in Message /\ q[i] \notin Never
       /\ q[i] \in ScriptDone => NoneOf(p, ScriptDone) /\ s \notin Answered
       /\ q[i] \in LeDone => NoneOf(p, LeDone) /\ s = 6 /\ ~d
  BY ONLY <1>2, <1>3, <1>5, <1>10, TakeQueue
<1>12. /\ x \in Topology /\ x.mq = p
       /\ x.panic = t.panic /\ x.gs = t.gs /\ x.rs = t.rs /\ x.script = t.script
       /\ x.fn = t.fn /\ x.hs.leDown = t.hs.leDown
  BY <1>6, <1>11, QueueField DEF Sound, Core
<1>13. Sound(x)
  BY <1>8, <1>9, <1>11, <1>12 DEF Sound, Core
<1>14. PICK m \in Message : m = q[i]
  BY <1>11
<1>15. /\ m \notin Never
       /\ m.k = "queued" => GE!Deliverable(x.gs, m.a)
       /\ m \in ScriptDone => NoneOf(x.mq, ScriptDone) /\ x.script \notin Answered
       /\ m \in LeDone => NoneOf(x.mq, LeDone) /\ x.script = 6 /\ ~x.hs.leDown
  BY ONLY <1>3, <1>8, <1>9, <1>11, <1>12, <1>14
<1>16. Sound(Handle(x, m))
  BY ONLY <1>13, m \in Message, <1>15, HandleSound
<1> QED BY <1>7, <1>14, <1>16

-----------------------------------------------------------------------------
(* The application and the invariant *)

\* A topology starts.
LEMMA StartingCore ==
    ASSUME NEW x, Core(x)
    PROVE  Undisturbed(x, EnterStarting(x))
<1>1. PICK u : u = [x EXCEPT !.state = "starting", !.prohibit = FALSE, !.shutdown = FALSE,
                             !.cfm = "none"]
  OBVIOUS
<1>2. Alike(x, u)
  BY <1>1 DEF Core, Topology, Alike
<1>3. Undisturbed(x, u) /\ Core(u)
  BY <1>2, AlikeCore DEF Undisturbed
<1>4. PICK e : e = RE!RulesEngine_ResetEvent(x.rs, RuleEvents)
  OBVIOUS
<1>5. RulesGood(e)
  BY <1>4, ResetRulesGood DEF Core
<1>6. PICK y : y = [u EXCEPT !.rs = e]
  OBVIOUS
<1>7. Undisturbed(u, y) /\ Core(y)
  BY <1>3, <1>5, <1>6, RulesCore DEF Undisturbed
<1>8. [x EXCEPT !.state = "starting", !.prohibit = FALSE, !.shutdown = FALSE, !.cfm = "none",
                !.rs = RE!RulesEngine_ResetEvent(@, RuleEvents)] = y
  BY <1>1, <1>4, <1>6 DEF Core, Topology
<1>9. EnterStarting(x) = StereoTopologyRules_SetEvent(y, "start")
  BY <1>8, Zenon DEF EnterStarting
<1>10. Undisturbed(y, StereoTopologyRules_SetEvent(y, "start"))
  BY <1>7, Raised, RaiseCore
<1> QED BY <1>3, <1>7, <1>9, <1>10, UndisturbedTwice

\* A topology stops.
LEMMA StoppingCore ==
    ASSUME NEW x, Core(x)
    PROVE  Undisturbed(x, EnterStopping(x))
<1>1. PICK y : y = [x EXCEPT !.state = "stopping", !.timer = TRUE]
  OBVIOUS
<1>2. Alike(x, y)
  BY <1>1 DEF Core, Topology, Alike
<1>3. Undisturbed(x, y) /\ Core(y)
  BY <1>2, AlikeCore DEF Undisturbed
<1>4. EnterStopping(x) = StereoTopologyRules_SetEvent(y, "stop")
  BY <1>1 DEF EnterStopping
<1>5. Undisturbed(y, StereoTopologyRules_SetEvent(y, "stop"))
  BY <1>3, Raised, RaiseCore
<1> QED BY <1>3, <1>4, <1>5, UndisturbedTwice

\* The application calls.
LEMMA CallSound == Sound(t) /\ owed \in BOOLEAN /\ Call => Sound(t') /\ owed' \in BOOLEAN
<1> SUFFICES ASSUME Sound(t), owed \in BOOLEAN, Call PROVE Sound(t') /\ owed' \in BOOLEAN
  OBVIOUS
<1>1. Core(t) /\ Undisturbed(t, t)
  BY DEF Sound, Undisturbed
<1>2. SUFFICES Undisturbed(t, t') /\ owed' \in BOOLEAN
  BY UndisturbedSound
<1>3. CASE StereoTopology_Start
  BY <1>1, <1>3, StartingCore DEF StereoTopology_Start
<1>4. CASE StereoTopology_Stop
  <2>1. CASE t.state = "started"
    BY <1>1, <1>4, <2>1, StoppingCore DEF StereoTopology_Stop
  <2>2. CASE t.state = "stopped"
    BY <1>1, <1>4, <2>2, ConfirmedCore DEF StereoTopology_Stop
  <2>3. CASE t.state # "started" /\ t.state # "stopped"
    BY <1>1, <1>4, <2>3 DEF StereoTopology_Stop
  <2> QED BY <2>1, <2>2, <2>3
<1>5. ASSUME NEW b \in BOOLEAN, StereoTopology_ProhibitHandsetConnection(b)
      PROVE  Undisturbed(t, t') /\ owed' \in BOOLEAN
  <2>1. PICK x : x = [t EXCEPT !.prohibit = b]
    OBVIOUS
  <2>2. Alike(t, x)
    BY <1>1, <2>1 DEF Core, Topology, Alike
  <2>3. Undisturbed(t, x) /\ Core(x)
    BY <1>1, <2>2, AlikeCore DEF Undisturbed
  <2>4. Undisturbed(x, StereoTopologyRules_SetEvent(x, "prohibit"))
    BY <2>3, Raised, RaiseCore
  <2>5. /\ t' = IF b THEN StereoTopologyRules_SetEvent(x, "prohibit") ELSE x
        /\ owed' = owed
    BY <1>5, <2>1 DEF StereoTopology_ProhibitHandsetConnection
  <2> QED BY <2>3, <2>4, <2>5, UndisturbedTwice
<1>6. ASSUME NEW v \in {"user_connect", "user_disconnect", "user_lru"}, UserRequest(v)
      PROVE  Undisturbed(t, t') /\ owed' \in BOOLEAN
  BY <1>1, <1>6, Raised, RaiseCore DEF UserRequest
<1>7. CASE HandlePowerShutdownPrepareInd
  <2>1. PICK x : x = [t EXCEPT !.shutdown = TRUE]
    OBVIOUS
  <2>2. Alike(t, x)
    BY <1>1, <2>1 DEF Core, Topology, Alike
  <2>3. Undisturbed(t, x)
    BY <1>1, <2>2, AlikeCore
  <2> QED BY <1>7, <2>1, <2>3 DEF HandlePowerShutdownPrepareInd
<1> QED BY <1>3, <1>4, <1>5, <1>6, <1>7 DEF Call

-----------------------------------------------------------------------------
(* The services and the invariant *)

\* What the end of a reconnection leaves.
LinkedBy(status, h) ==
    IF status = "success" THEN [t EXCEPT !.hs.links = @ \cup {h}, !.hs.mru = h] ELSE t

Answers(x, cfm, stop, first) ==
    IF ~t.hs.stopping THEN Send(x, cfm)
    ELSE IF first THEN Send(Send(x, cfm), stop) ELSE Send(Send(x, stop), cfm)

Ended(status, h, first) ==
    Answers([LinkedBy(status, h) EXCEPT !.hs.busy = FALSE, !.hs.stopping = FALSE],
            [k |-> "connect_cfm", a |-> status, b |-> ""], Msg("connect_stop_cfm"), first)

\* A reconnection ends.
LEMMA ReconnectSound == Sound(t) /\ ReconnectEnds => Sound(t')
<1> SUFFICES ASSUME Sound(t), ReconnectEnds PROVE Undisturbed(t, t')
  BY UndisturbedSound
<1>1. Core(t) /\ Undisturbed(t, t)
  BY DEF Sound, Undisturbed
<1>2. PICK status \in {"success", "failed", "cancelled"}, h \in Handsets, first \in BOOLEAN :
        t' = Ended(status, h, first)
  <2>1. PICK status \in {"success", "failed", "cancelled"}, h \in Handsets, first \in BOOLEAN :
          /\ status = "cancelled" => t.hs.stopping
          /\ LET cfm  == [k |-> "connect_cfm", a |-> status, b |-> ""]
                 stop == Msg("connect_stop_cfm")
                 up   == IF status = "success"
                         THEN [t EXCEPT !.hs.links = @ \cup {h}, !.hs.mru = h] ELSE t
                 x    == [up EXCEPT !.hs.busy = FALSE, !.hs.stopping = FALSE]
             IN  t' = IF ~t.hs.stopping THEN Send(x, cfm)
                      ELSE IF first THEN Send(Send(x, cfm), stop) ELSE Send(Send(x, stop), cfm)
    BY Zenon DEF ReconnectEnds
  <2>2. t' = Ended(status, h, first)
    BY <2>1, Zenon DEF Ended, Answers, LinkedBy
  <2> QED BY <2>2
<1>3. PICK cfm \in Plain : cfm = [k |-> "connect_cfm", a |-> status, b |-> ""]
  BY PlainMessages
<1>4. PICK stop \in Plain : stop = Msg("connect_stop_cfm")
  BY PlainMessages
<1>5. PICK up : up = LinkedBy(status, h)
  OBVIOUS
<1>6. Undisturbed(t, up) /\ Core(up)
  BY <1>1, <1>5, HandsetCore DEF Undisturbed, LinkedBy
<1>7. PICK x : x = [up EXCEPT !.hs.busy = FALSE, !.hs.stopping = FALSE]
  OBVIOUS
<1>8. Alike(up, x)
  BY <1>6, <1>7, ZenonT(30) DEF Core, Topology, Alike
<1>9. Undisturbed(t, x)
  BY <1>6, <1>8, AlikeCore, UndisturbedTwice
<1>10. ASSUME NEW y, Undisturbed(t, y), NEW m \in Plain
       PROVE  Undisturbed(t, Send(y, m))
  BY <1>10, SendCore, UndisturbedTwice DEF Undisturbed
<1>11. t' = Answers(x, cfm, stop, first)
  BY <1>2, <1>3, <1>4, <1>5, <1>7, Zenon DEF Ended
<1>12. /\ Undisturbed(t, Send(x, cfm)) /\ Undisturbed(t, Send(x, stop))
       /\ Undisturbed(t, Send(Send(x, cfm), stop)) /\ Undisturbed(t, Send(Send(x, stop), cfm))
  BY ONLY <1>9, <1>10, cfm \in Plain, stop \in Plain
<1> QED BY ONLY <1>11, <1>12 DEF Answers

\* A link is gone.
LEMMA UnlinkedCore ==
    ASSUME NEW x, Core(x), NEW h \in Handsets
    PROVE  Undisturbed(x, Unlinked(x, h))
<1>1. PICK y : y = [x EXCEPT !.hs.links = @ \ {h}, !.hs.lru = @ \ {h}]
  OBVIOUS
<1>2. Undisturbed(x, y) /\ Core(y)
  BY <1>1, HandsetCore DEF Undisturbed
<1>3. PICK z : z = IF h \in x.hs.lru THEN Send(y, Msg("disconnect_cfm")) ELSE y
  OBVIOUS
<1>4. Undisturbed(x, z) /\ Core(z)
  <2>1. Undisturbed(y, Send(y, Msg("disconnect_cfm")))
    BY <1>2, SendCore, PlainMessages
  <2> QED BY <1>2, <1>3, <2>1, UndisturbedTwice DEF Undisturbed
<1>5. PICK w : w = [z EXCEPT !.hs.all = FALSE]
  OBVIOUS
<1>6. Undisturbed(x, w) /\ Core(w)
  <2>1. Undisturbed(z, w)
    BY <1>4, <1>5, HandsetCore
  <2> QED BY <1>4, <2>1, UndisturbedTwice DEF Undisturbed
<1>7. Undisturbed(x, Send(w, Msg("disconnect_all_cfm")))
  <2>1. Undisturbed(w, Send(w, Msg("disconnect_all_cfm")))
    BY <1>6, SendCore, PlainMessages
  <2> QED BY <1>6, <2>1, UndisturbedTwice
<1>8. Unlinked(x, h) = IF z.hs.all /\ z.hs.links = {}
                       THEN Send(w, Msg("disconnect_all_cfm")) ELSE z
  <2>1. CASE h \in x.hs.lru
    <3>1. z = Send(y, Msg("disconnect_cfm"))
      BY <1>3, <2>1
    <3> QED BY <1>1, <1>5, <2>1, <3>1 DEF Unlinked
  <2>2. CASE h \notin x.hs.lru
    <3>1. z = y
      BY <1>3, <2>2
    <3> QED BY <1>1, <1>5, <2>2, <3>1 DEF Unlinked
  <2> QED BY <2>1, <2>2
<1> QED BY <1>4, <1>7, <1>8

\* The LE links are disconnected.
LEMMA LeDisconnectedSound == Sound(t) /\ LeDisconnected => Sound(t')
<1> SUFFICES ASSUME Sound(t), LeDisconnected PROVE Sound(t')
  OBVIOUS
<1>1. t \in Topology /\ t.hs.leDown /\ t.script = 6
  BY DEF Sound, Core, LeDisconnected
<1>2. PICK y : y = [t EXCEPT !.hs.leDown = FALSE]
  OBVIOUS
<1>3. /\ y \in Topology /\ y.panic = t.panic /\ y.gs = t.gs /\ y.rs = t.rs
      /\ y.script = t.script /\ y.fn = t.fn /\ y.mq = t.mq /\ y.hs.leDown = FALSE
  BY <1>1, <1>2 DEF Topology
<1>4. PICK q \in Seq(Message) : q = t.mq
  BY Fields DEF Sound, Core
<1>5. PICK m \in Message : m = Msg("disconnect_le_cfm")
  BY DEF Message, Msg
<1>6. m \notin Never /\ m \notin ScriptDone
  <2>1. m.k = "disconnect_le_cfm"
    BY <1>5 DEF Msg
  <2> QED BY <2>1 DEF Never, ScriptDone
<1>7. QueueOk(q, 6, TRUE)
  BY <1>1, <1>4 DEF Sound, Core, QueueOk
<1>8. PICK r : r = Append(q, m)
  OBVIOUS
<1>9. /\ r \in Seq(Message) /\ NoneOf(r, Never) /\ NoneOf(r, ScriptDone)
      /\ Single(r, ScriptDone) /\ Single(r, LeDone)
  BY <1>6, <1>7, <1>8, AppendFacts, AppendSet DEF QueueOk, Answered
<1>10. QueueOk(r, 6, FALSE)
  BY <1>9 DEF QueueOk
<1>11. PICK z : z = [y EXCEPT !.mq = r]
  OBVIOUS
<1>12. t' = z
  BY <1>2, <1>3, <1>4, <1>5, <1>8, <1>11 DEF LeDisconnected, Send
<1>13. /\ z \in Topology /\ z.mq = r /\ z.panic = t.panic /\ z.gs = t.gs /\ z.rs = t.rs
       /\ z.script = 6 /\ z.fn = t.fn /\ z.hs.leDown = FALSE
  BY <1>1, <1>3, <1>9, <1>11, QueueField
<1>14. Sound(z)
  BY <1>1, <1>10, <1>13 DEF Sound, Core
<1> QED BY <1>12, <1>14

\* The services answer.
LEMMA AnswerSound == Sound(t) /\ Answer => Sound(t')
<1> SUFFICES ASSUME Sound(t), Answer PROVE Sound(t')
  OBVIOUS
<1>1. Core(t) /\ t \in Topology
  BY DEF Sound, Core
<1>2. CASE ReconnectEnds
  BY <1>2, ReconnectSound
<1>3. CASE LinkClosed
  <2>1. PICK h \in t.hs.links : t' = Unlinked(t, h)
    BY <1>3 DEF LinkClosed
  <2>2. h \in Handsets
    BY <1>1 DEF Topology
  <2> QED BY <1>1, <2>1, <2>2, UnlinkedCore, UndisturbedSound
<1>4. CASE LeAnswer
  <2>1. PICK a \in t.hs.le :
          LET x == [t EXCEPT !.hs.le = @ \ {a}]
          IN  t' = IF a = "connectable" /\ t.fn.le = "none" THEN x ELSE Send(x, Msg("le_cfm"))
    BY <1>4 DEF LeAnswer
  <2>2. PICK x : x = [t EXCEPT !.hs.le = @ \ {a}]
    OBVIOUS
  <2>3. Alike(t, x)
    BY <1>1, <2>2 DEF Topology, Alike
  <2>4. Undisturbed(t, x) /\ Core(x)
    BY <1>1, <2>3, AlikeCore DEF Undisturbed
  <2>5. Undisturbed(x, Send(x, Msg("le_cfm")))
    BY <2>4, SendCore, PlainMessages
  <2>6. t' = x \/ t' = Send(x, Msg("le_cfm"))
    BY <2>1, <2>2
  <2>7. Undisturbed(t, t')
    BY <2>4, <2>5, <2>6, UndisturbedTwice
  <2> QED BY <2>7, UndisturbedSound
<1>5. CASE LeDisconnected
  BY <1>5, LeDisconnectedSound
<1> QED BY <1>2, <1>3, <1>4, <1>5 DEF Answer

\* A handset connects, or a link is lost.
LEMMA LinkSound == Sound(t) /\ (LinkUp \/ LinkLost) => Sound(t')
<1> SUFFICES ASSUME Sound(t), LinkUp \/ LinkLost PROVE Undisturbed(t, t')
  BY UndisturbedSound
<1>1. Core(t) /\ t \in Topology
  BY DEF Sound, Core
<1>2. CASE LinkUp
  <2>1. PICK h \in Handsets : t' = [t EXCEPT !.hs.links = @ \cup {h}, !.hs.mru = h]
    BY <1>2 DEF LinkUp
  <2> QED BY <1>1, <2>1, HandsetCore
<1>3. CASE LinkLost
  <2>1. PICK h \in t.hs.links : t' = Unlinked(Send(t, Msg("linkloss")), h)
    BY <1>3 DEF LinkLost
  <2>2. h \in Handsets
    BY <1>1 DEF Topology
  <2>3. PICK y : y = Send(t, Msg("linkloss"))
    OBVIOUS
  <2>4. Undisturbed(t, y) /\ Core(y)
    BY <1>1, <2>3, SendCore, PlainMessages DEF Undisturbed
  <2> QED BY <2>1, <2>2, <2>3, <2>4, UnlinkedCore, UndisturbedTwice
<1> QED BY <1>2, <1>3

-----------------------------------------------------------------------------
(* The theorem *)

TopologyInv == Sound(t) /\ owed \in BOOLEAN

\* The topology is created in a state that satisfies the invariant.
LEMMA TopologyInit == Init => TopologyInv
<1> SUFFICES ASSUME Init PROVE TopologyInv
  OBVIOUS
<1>1. PICK e : e = GE!GoalsEngine_CreateGoalSet
  OBVIOUS
<1>2. GP!Good(e) /\ e \in GE!GoalSet /\ e.active = {}
  <2>1. GP!Good(e)
    BY <1>1, SameCreate, GoalsOk, GP!CreatedGood
  <2>2. e.active = {}
    BY <1>1 DEF GE!GoalsEngine_CreateGoalSet
  <2> QED BY <2>1, <2>2, SameGoalSet DEF GP!Good
<1>3. PICK r : r = RE!RulesEngine_CreateRuleSet
  OBVIOUS
<1>4. RulesGood(r) /\ r \in RE!RuleSet
  BY <1>3, CreateRulesGood DEF RulesGood
<1>5. PICK h \in Handsets : h = CHOOSE j \in Handsets : TRUE
  BY HandsetsAssumption
<1>6. t = [state |-> "stopped", prohibit |-> FALSE, shutdown |-> FALSE, timer |-> FALSE,
           cfm |-> "none", rs |-> r, gs |-> e, script |-> 0,
           fn |-> [connect |-> "none", disconnect |-> "none", le |-> "none", leDown |-> "none"],
           radio |-> [handset |-> FALSE, connectable |-> FALSE, le |-> FALSE],
           hs |-> [links |-> {}, mru |-> h, busy |-> FALSE, stopping |-> FALSE, all |-> FALSE,
                   lru |-> {}, le |-> {}, leDown |-> FALSE],
           panic |-> FALSE, mq |-> << >>]
  BY <1>1, <1>3, <1>5 DEF Init
<1>7. 0 \in 0 .. Len(StopScript) /\ << >> \in Seq(Message) /\ Len(<< >>) = 0
  BY Steps
<1>8. t \in Topology
  BY <1>2, <1>4, <1>6, <1>7 DEF Topology
<1>9. /\ t.script = 0 /\ t.gs = e /\ t.rs = r /\ ~t.panic /\ t.mq = << >> /\ ~t.hs.leDown
      /\ t.fn.disconnect = "none" /\ t.fn.le = "none" /\ t.fn.leDown = "none"
  BY <1>6
<1>10. QueueOk(t.mq, t.script, t.hs.leDown)
  BY <1>7, <1>9 DEF QueueOk, NoneOf, Single
<1>11. CallbacksOk(t.fn, t.script)
  BY <1>9 DEF CallbacksOk
<1>12. Core(t)
  BY <1>2, <1>4, <1>8, <1>9, <1>10, <1>11 DEF Core
<1>13. Sound(t)
  BY <1>2, <1>9, <1>12 DEF Sound
<1> QED BY <1>13 DEF TopologyInv, Init

\* Every step keeps it.
LEMMA TopologyStep == TopologyInv /\ [Next]_vars => TopologyInv'
<1> SUFFICES ASSUME Sound(t), owed \in BOOLEAN, [Next]_vars
             PROVE  Sound(t') /\ owed' \in BOOLEAN
  BY DEF TopologyInv, Sound, Core, QueueOk, CallbacksOk
<1>1. CASE Deliver
  BY <1>1, DeliverSound DEF Deliver
<1>2. CASE HandleStopTimeout
  BY <1>2, ConfirmedCore, UndisturbedSound DEF HandleStopTimeout, Sound
<1>3. CASE Call
  BY <1>3, CallSound
<1>4. CASE Answer
  <2>1. Sound(t')
    BY <1>4, AnswerSound
  <2>2. owed' = owed
    BY <1>4 DEF Answer, ReconnectEnds, LinkClosed, LeAnswer, LeDisconnected
  <2> QED BY <2>1, <2>2
<1>5. CASE LinkUp
  BY <1>5, LinkSound DEF LinkUp
<1>6. CASE LinkLost
  BY <1>6, LinkSound DEF LinkLost
<1>7. CASE UNCHANGED vars
  BY <1>7 DEF vars
<1> QED BY <1>1, <1>2, <1>3, <1>4, <1>5, <1>6, <1>7 DEF Next

\* No handler of the topology panics, whatever the application calls, however
\* links come and go and whenever the services answer: the script engine is
\* idle whenever system_stop starts, no step of its script is cancelled, the
\* disconnection of LE links is not requested twice and every goal that has
\* to wait finds a slot.
THEOREM TopologyNoPanic == Spec => []NoPanic
<1>1. TopologyInv => NoPanic
  BY DEF TopologyInv, Sound, Core, NoPanic, TypeOK
<1> QED BY <1>1, TopologyInit, TopologyStep, PTL DEF Spec

=============================================================================
