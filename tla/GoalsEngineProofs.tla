------------------------- MODULE GoalsEngineProofs -------------------------
(***************************************************************************)
(* For every table of goals and every number of slots that is not smaller  *)
(* than the table: a goal that has to wait finds a slot, the locks follow  *)
(* the active goals, and every step of the engine is one that GoalSchedule *)
(* allows.                                                                 *)
(***************************************************************************)
EXTENDS GoalsEngine, FiniteSetTheorems, TLAPS

(***************************************************************************)
(* Counting.  queue_msg_count is at least the number of decisions that     *)
(* wait.  The sum over the goals is stated without a sum: every decision   *)
(* that waits has a token of its own, and there are at most n tokens.      *)
(***************************************************************************)
Tokens(n, m, T, U) ==
    /\ IsFiniteSet(U) /\ Cardinality(U) <= n
    /\ \A g \in Goals : /\ T[g] \subseteq U
                        /\ Cardinality(T[g]) = m[g]
    /\ \A g, h \in Goals : g # h => T[g] \cap T[h] = {}

Covers(n, m) ==
    \E T \in [Goals -> SUBSET Nat], U \in SUBSET Nat : Tokens(n, m, T, U)

\* Every non-empty set of natural numbers has a least element.
LEMMA LeastNat ==
    ASSUME NEW S \in SUBSET Nat, S # {}
    PROVE  \E x \in S : \A y \in S : x <= y
<1> DEFINE R == {p \in Nat \X Nat : p[1] < p[2]}
<1>1. OpToRel(<, Nat) = R
  BY DEF OpToRel
<1>2. IsWellFoundedOn(R, Nat)
  BY <1>1, NatLessThanWellFounded, Zenon
<1>3. PICK x \in S : \A y \in S : ~ (<<y, x>> \in R)
  <2> HIDE DEF R
  <2> QED BY <1>2, WFMin
<1>4. ASSUME NEW y \in S PROVE x <= y
  <2>1. ~ (<<y, x>> \in R)
    BY <1>3
  <2>2. x \in Nat /\ y \in Nat /\ ~ (y < x)
    BY <2>1
  <2> QED BY <2>2
<1> QED BY <1>4

\* A finite set of numbers leaves a number out.
LEMMA FreshToken ==
    ASSUME NEW U \in SUBSET Nat, IsFiniteSet(U)
    PROVE  \E x \in Nat : x \notin U
<1> DEFINE n == Cardinality(U)
<1>1. n \in Nat
  BY FS_CardinalityType
<1>2. CASE 0 .. n \subseteq U
  <2>1. Cardinality(0 .. n) = n + 1
    BY <1>1, FS_Interval
  <2>2. Cardinality(0 .. n) <= n
    BY <1>2, FS_Subset
  <2> QED BY <1>1, <2>1, <2>2
<1> QED BY <1>1, <1>2

\* Nothing waits.
LEMMA CoversNone ==
    ASSUME NEW n \in Nat
    PROVE  Covers(n, [g \in Goals |-> 0])
<1> DEFINE T == [g \in Goals |-> {}]
<1>1. Tokens(n, [g \in Goals |-> 0], T, {})
  BY FS_EmptySet DEF Tokens
<1> QED BY <1>1 DEF Covers

\* A count that is large enough stays so when it grows.
LEMMA CoversMore ==
    ASSUME NEW n \in Nat, NEW k \in Nat, n <= k, NEW m, Covers(n, m)
    PROVE  Covers(k, m)
<1>1. PICK T \in [Goals -> SUBSET Nat], U \in SUBSET Nat : Tokens(n, m, T, U)
  BY DEF Covers
<1>2. Cardinality(U) \in Nat
  BY <1>1, FS_CardinalityType DEF Tokens
<1>3. Tokens(k, m, T, U)
  BY <1>1, <1>2 DEF Tokens
<1> QED BY <1>3 DEF Covers

\* No goal has more decisions waiting than are counted.
LEMMA CoversBound ==
    ASSUME NEW n \in Nat, NEW m \in [Goals -> Nat], Covers(n, m), NEW g \in Goals
    PROVE  m[g] <= n
<1>1. PICK T \in [Goals -> SUBSET Nat], U \in SUBSET Nat : Tokens(n, m, T, U)
  BY DEF Covers
<1>2. Cardinality(T[g]) <= Cardinality(U) /\ Cardinality(U) \in Nat
  BY <1>1, FS_Subset, FS_CardinalityType DEF Tokens
<1> QED BY <1>1, <1>2 DEF Tokens

\* One more decision waits, and is counted.
LEMMA CoversAdd ==
    ASSUME NEW n \in Nat, NEW m \in [Goals -> Nat], Covers(n, m), NEW g \in Goals
    PROVE  Covers(n + 1, [m EXCEPT ![g] = @ + 1])
<1>1. PICK T \in [Goals -> SUBSET Nat], U \in SUBSET Nat : Tokens(n, m, T, U)
  BY DEF Covers
<1>2. PICK x \in Nat : x \notin U
  BY <1>1, FreshToken DEF Tokens
<1> DEFINE T2 == [T EXCEPT ![g] = @ \cup {x}]
           U2 == U \cup {x}
           m2 == [m EXCEPT ![g] = @ + 1]
<1>3. T2 \in [Goals -> SUBSET Nat] /\ U2 \in SUBSET Nat
  BY <1>2
<1>4. IsFiniteSet(U) /\ Cardinality(U) \in Nat /\ Cardinality(U) <= n
  BY <1>1, FS_CardinalityType DEF Tokens
<1>5. IsFiniteSet(U2) /\ Cardinality(U2) = Cardinality(U) + 1
  BY <1>2, <1>4, FS_AddElement
<1>6. ASSUME NEW h \in Goals
      PROVE  T2[h] \subseteq U2 /\ Cardinality(T2[h]) = m2[h]
  <2>1. IsFiniteSet(T[h]) /\ T[h] \subseteq U /\ Cardinality(T[h]) = m[h]
    BY <1>1, <1>4, FS_Subset DEF Tokens
  <2>2. CASE h = g
    BY <1>2, <2>1, <2>2, FS_AddElement
  <2>3. CASE h # g
    BY <2>1, <2>3
  <2> QED BY <2>2, <2>3
<1>7. ASSUME NEW h \in Goals, NEW k \in Goals, h # k
      PROVE  T2[h] \cap T2[k] = {}
  <2>1. T[h] \cap T[k] = {} /\ T[h] \subseteq U /\ T[k] \subseteq U
    BY <1>1, <1>7 DEF Tokens
  <2> QED BY <1>2, <1>7, <2>1
<1>8. Cardinality(U2) <= n + 1
  BY <1>4, <1>5
<1> HIDE DEF T2, U2, m2
<1>9. Tokens(n + 1, m2, T2, U2)
  BY <1>5, <1>6, <1>7, <1>8 DEF Tokens
<1>10. Covers(n + 1, m2)
  BY <1>3, <1>9 DEF Covers
<1> QED BY <1>10 DEF m2

\* All decisions of a goal are taken away, and the count with them.
LEMMA CoversDrop ==
    ASSUME NEW n \in Nat, NEW m \in [Goals -> Nat], Covers(n, m), NEW g \in Goals
    PROVE  n - m[g] \in Nat /\ Covers(n - m[g], [m EXCEPT ![g] = 0])
<1>1. PICK T \in [Goals -> SUBSET Nat], U \in SUBSET Nat : Tokens(n, m, T, U)
  BY DEF Covers
<1> DEFINE T2 == [T EXCEPT ![g] = {}]
           U2 == U \ T[g]
           m2 == [m EXCEPT ![g] = 0]
<1>2. T2 \in [Goals -> SUBSET Nat] /\ U2 \in SUBSET Nat
  OBVIOUS
<1>3. /\ IsFiniteSet(U) /\ Cardinality(U) \in Nat /\ Cardinality(U) <= n
      /\ T[g] \subseteq U /\ Cardinality(T[g]) = m[g]
  BY <1>1, FS_CardinalityType DEF Tokens
<1>4. IsFiniteSet(U2) /\ Cardinality(U2) = Cardinality(U) - m[g]
  <2>1. U \cap T[g] = T[g]
    BY <1>3
  <2>2. /\ IsFiniteSet(U \ T[g])
        /\ Cardinality(U \ T[g]) = Cardinality(U) - Cardinality(U \cap T[g])
    BY <1>3, FS_Difference, Zenon
  <2> QED BY <1>3, <2>1, <2>2
<1>5. Cardinality(U2) \in Nat
  BY <1>4, FS_CardinalityType
<1>6. n - m[g] \in Nat /\ Cardinality(U2) <= n - m[g]
  BY <1>3, <1>4, <1>5
<1>7. ASSUME NEW h \in Goals
      PROVE  T2[h] \subseteq U2 /\ Cardinality(T2[h]) = m2[h]
  <2>1. T[h] \subseteq U /\ Cardinality(T[h]) = m[h] /\ (h # g => T[h] \cap T[g] = {})
    BY <1>1 DEF Tokens
  <2> QED BY <2>1, FS_EmptySet
<1>8. ASSUME NEW h \in Goals, NEW k \in Goals, h # k
      PROVE  T2[h] \cap T2[k] = {}
  BY <1>1, <1>8 DEF Tokens
<1> HIDE DEF T2, U2, m2
<1>9. Tokens(n - m[g], m2, T2, U2)
  BY <1>4, <1>6, <1>7, <1>8 DEF Tokens
<1>10. Covers(n - m[g], m2)
  BY <1>2, <1>9 DEF Covers
<1> QED BY <1>6, <1>10 DEF m2

\* A decision is delivered, and the count lowered.
LEMMA CoversTake ==
    ASSUME NEW n \in Nat, NEW m \in [Goals -> Nat], Covers(n, m), NEW g \in Goals,
           m[g] > 0
    PROVE  n - 1 \in Nat /\ Covers(n - 1, [m EXCEPT ![g] = @ - 1])
<1>1. PICK T \in [Goals -> SUBSET Nat], U \in SUBSET Nat : Tokens(n, m, T, U)
  BY DEF Covers
<1>2. /\ IsFiniteSet(U) /\ Cardinality(U) \in Nat /\ Cardinality(U) <= n
      /\ T[g] \subseteq U /\ Cardinality(T[g]) = m[g]
  BY <1>1, FS_CardinalityType DEF Tokens
<1>3. PICK x \in T[g] : TRUE
  BY <1>2, FS_EmptySet
<1> DEFINE T2 == [T EXCEPT ![g] = @ \ {x}]
           U2 == U \ {x}
           m2 == [m EXCEPT ![g] = @ - 1]
<1>4. T2 \in [Goals -> SUBSET Nat] /\ U2 \in SUBSET Nat
  OBVIOUS
<1>5. IsFiniteSet(U2) /\ Cardinality(U2) = Cardinality(U) - 1
  BY <1>2, <1>3, FS_RemoveElement
<1>6. Cardinality(U2) \in Nat
  BY <1>5, FS_CardinalityType
<1>7. n - 1 \in Nat /\ Cardinality(U2) <= n - 1
  BY <1>2, <1>5, <1>6
<1>8. ASSUME NEW h \in Goals
      PROVE  T2[h] \subseteq U2 /\ Cardinality(T2[h]) = m2[h]
  <2>1. /\ IsFiniteSet(T[h]) /\ T[h] \subseteq U /\ Cardinality(T[h]) = m[h]
        /\ h # g => T[h] \cap T[g] = {}
    BY <1>1, <1>2, FS_Subset DEF Tokens
  <2>2. CASE h = g
    BY <1>3, <2>1, <2>2, FS_RemoveElement, ZenonT(30)
  <2>3. CASE h # g
    BY <1>3, <2>1, <2>3
  <2> QED BY <2>2, <2>3
<1>9. ASSUME NEW h \in Goals, NEW k \in Goals, h # k
      PROVE  T2[h] \cap T2[k] = {}
  BY <1>1, <1>9 DEF Tokens
<1> HIDE DEF T2, U2, m2
<1>10. Tokens(n - 1, m2, T2, U2)
  BY <1>5, <1>7, <1>8, <1>9 DEF Tokens
<1>11. Covers(n - 1, m2)
  BY <1>4, <1>10 DEF Covers
<1> QED BY <1>7, <1>11 DEF m2

-----------------------------------------------------------------------------
(***************************************************************************)
(* The inductive invariant, a predicate of the engine's record, so that    *)
(* every operation can be shown to preserve it on its own.                 *)
(***************************************************************************)
Distinct(e) ==
    \A s, t \in SlotIds : e.id[s] = e.id[t] /\ e.id[s] # None => s = t

Locked(e) ==
    \A g \in Goals : e.msgs[g] > 0 =>
        e.id[e.on[g]] = g /\ e.lock[e.on[g]] = WaitMask(e, g)

Counted(e) == Covers(e.count, e.msgs)

Good(e) ==
    /\ e \in GoalSet
    /\ ~e.panic
    /\ ~e.stray
    /\ Distinct(e)
    /\ Locked(e)
    /\ Counted(e)

\* An operation changes nothing but the calls it records.
LEMMA NoCallsGood ==
    ASSUME NEW e, Good(e)
    PROVE  /\ Good(NoCalls(e))
           /\ NoCalls(e).active = e.active /\ NoCalls(e).msgs = e.msgs
           /\ NoCalls(e).count = e.count
<1> DEFINE r == NoCalls(e)
<1>1. /\ r \in GoalSet
      /\ r.active = e.active /\ r.id = e.id /\ r.lock = e.lock /\ r.count = e.count
      /\ r.msgs = e.msgs /\ r.on = e.on /\ r.stray = e.stray /\ r.panic = e.panic
  BY DEF Good, GoalSet, NoCalls
<1> HIDE DEF r
<1>2. Good(r)
  BY <1>1 DEF Good, Distinct, Locked, Counted, WaitMask
<1> QED BY <1>1, <1>2 DEF r

\* The message that is delivered has left the queue; ActivateGoal lowers
\* queue_msg_count, the topology that ignores the message does not.
LEMMA TakenGood ==
    ASSUME NEW e, Good(e), NEW g \in Goals, e.msgs[g] > 0
    PROVE  /\ Good(Taken(e, g))
           /\ Taken(e, g).count - 1 \in Nat
           /\ Good([NoCalls(Taken(e, g)) EXCEPT !.count = @ - 1])
<1> DEFINE r == Taken(e, g)
           c == [NoCalls(Taken(e, g)) EXCEPT !.count = @ - 1]
           m == [e.msgs EXCEPT ![g] = @ - 1]
<1>1. e.count \in Nat /\ e.msgs \in [Goals -> Nat] /\ m \in [Goals -> Nat]
  BY DEF Good, GoalSet
<1>2. e.count - 1 \in Nat /\ Covers(e.count - 1, m)
  BY <1>1, CoversTake DEF Good, Counted
<1>3. Covers(e.count, m)
  <2> HIDE DEF m
  <2> QED BY <1>1, <1>2, CoversMore
<1>4. /\ r \in GoalSet
      /\ r.active = e.active /\ r.id = e.id /\ r.lock = e.lock /\ r.count = e.count
      /\ r.msgs = m /\ r.on = e.on /\ r.stray = e.stray /\ r.panic = e.panic
  BY <1>1 DEF Good, GoalSet, Taken
<1>5. /\ c \in GoalSet
      /\ c.active = e.active /\ c.id = e.id /\ c.lock = e.lock /\ c.count = e.count - 1
      /\ c.msgs = m /\ c.on = e.on /\ c.stray = e.stray /\ c.panic = e.panic
  BY <1>1, <1>2 DEF Good, GoalSet, Taken, NoCalls
<1>6. \A h \in Goals : m[h] > 0 => e.msgs[h] > 0
  BY <1>1
<1> HIDE DEF r, c, m
<1>7. Good(r)
  BY <1>3, <1>4, <1>6 DEF Good, Distinct, Locked, Counted, WaitMask
<1>8. Good(c)
  BY <1>2, <1>5, <1>6 DEF Good, Distinct, Locked, Counted, WaitMask
<1> QED BY <1>2, <1>4, <1>7, <1>8 DEF r, c

\* A goal that has to wait finds its own slot, or a free one: otherwise each
\* of the slots would belong to another of the remaining goals.
LEMMA QueueIndexFinds ==
    ASSUME NEW e, e \in GoalSet, Distinct(e), NEW g \in Goals
    PROVE  /\ QueueIndex(e, g) \in SlotIds
           /\ \/ e.id[QueueIndex(e, g)] = g
              \/ e.id[QueueIndex(e, g)] = None /\ \A s \in SlotIds : e.id[s] # g
<1> DEFINE own  == {s \in SlotIds : e.id[s] = g}
           free == {s \in SlotIds : e.id[s] = None}
           pick == IF own # {} THEN own ELSE free
<1>1. Slots \in Nat /\ Cardinality(Goals) <= Slots /\ IsFiniteSet(Goals)
  BY GoalsAssumption, SlotsAssumption
<1>2. IsFiniteSet(SlotIds) /\ Cardinality(SlotIds) = Slots
  BY <1>1, FS_Interval DEF SlotIds
<1>3. pick # {}
  <2> SUFFICES ASSUME pick = {} PROVE FALSE
    OBVIOUS
  <2>1. own = {} /\ free = {}
    OBVIOUS
  <2>2. e.id \in [SlotIds -> Goals \ {g}]
    <3>1. e.id \in [SlotIds -> Goals \cup {None}]
      BY DEF GoalSet
    <3> QED BY <2>1, <3>1
  <2>3. /\ IsFiniteSet(Goals \ {g}) /\ Cardinality(Goals \ {g}) = Cardinality(Goals) - 1
        /\ Cardinality(Goals) \in Nat
    BY <1>1, FS_RemoveElement, FS_CardinalityType
  <2>4. Cardinality(Goals \ {g}) < Cardinality(SlotIds)
    BY <1>1, <1>2, <2>3
  <2>5. PICK s, t \in SlotIds : s # t /\ e.id[s] = e.id[t]
    BY <1>2, <2>2, <2>3, <2>4, FS_PigeonHole
  <2>6. e.id[s] # None
    BY <2>1
  <2> QED BY <2>5, <2>6 DEF Distinct
<1>4. pick \in SUBSET Nat /\ pick \subseteq SlotIds
  BY DEF SlotIds
<1>5. \E s \in pick : \A t \in pick : s <= t
  <2> HIDE DEF pick
  <2> QED BY <1>3, <1>4, LeastNat
<1>6. QueueIndex(e, g) = CHOOSE s \in pick : \A t \in pick : s <= t
  BY <1>3 DEF QueueIndex
<1>7. QueueIndex(e, g) \in pick
  BY <1>5, <1>6
<1> QED BY <1>4, <1>7

\* A decision is put off: it waits for the active goals it may not run beside.
LEMMA QueueGood ==
    ASSUME NEW e, Good(e), NEW g \in Goals
    PROVE  /\ Good(QueueGoal(e, g, WaitMask(e, g)))
           /\ QueueGoal(e, g, WaitMask(e, g)).active = e.active
           /\ QueueGoal(e, g, WaitMask(e, g)).msgs = [e.msgs EXCEPT ![g] = @ + 1]
           /\ QueueGoal(e, g, WaitMask(e, g)).count = e.count + 1
<1> DEFINE wait == WaitMask(e, g)
           r == QueueGoal(e, g, wait)
           s == QueueIndex(e, g)
           m == [e.msgs EXCEPT ![g] = @ + 1]
<1>1. /\ s \in SlotIds /\ s # 0
      /\ e.id[s] = g \/ (e.id[s] = None /\ \A t \in SlotIds : e.id[t] # g)
  BY QueueIndexFinds DEF Good, SlotIds
<1>2. /\ e.count \in Nat /\ e.msgs \in [Goals -> Nat] /\ e.active \in SUBSET Goals
      /\ e.on \in [Goals -> SlotIds] /\ e.id \in [SlotIds -> Goals \cup {None}]
      /\ e.lock \in [SlotIds -> SUBSET Goals]
  BY DEF Good, GoalSet
<1>3. wait \in SUBSET Goals
  BY <1>2 DEF WaitMask
<1> HIDE DEF s
<1>4. ASSUME e.msgs[g] > 0 PROVE e.on[g] = s
  <2>1. e.id[e.on[g]] = g /\ e.on[g] \in SlotIds
    BY <1>2, <1>4 DEF Good, Locked
  <2>2. e.id[s] = g /\ g # None
    BY <1>1, <2>1, GoalsAssumption
  <2> QED BY <1>1, <2>1, <2>2 DEF Good, Distinct
<1>5. /\ r \in GoalSet
      /\ r.active = e.active /\ r.id = [e.id EXCEPT ![s] = g]
      /\ r.lock = [e.lock EXCEPT ![s] = wait] /\ r.count = e.count + 1
      /\ r.msgs = m /\ r.on = [e.on EXCEPT ![g] = s] /\ ~r.stray /\ ~r.panic
  <2> DEFINE q == [e EXCEPT !.id[s]    = g,
                       !.lock[s]  = wait,
                       !.msgs[g]  = @ + 1,
                       !.on[g]    = s,
                       !.stray    = @ \/ (e.msgs[g] > 0 /\ e.on[g] # s),
                       !.count    = @ + 1,
                       !.queued   = @ \cup {g}]
  <2>1. r = q
    BY <1>1 DEF QueueGoal, s
  <2>2. /\ q.active = e.active /\ q.id = [e.id EXCEPT ![s] = g]
        /\ q.lock = [e.lock EXCEPT ![s] = wait] /\ q.count = e.count + 1
        /\ q.msgs = m /\ q.on = [e.on EXCEPT ![g] = s]
        /\ q.panic = e.panic
    BY DEF Good, GoalSet
  <2>3. ~q.stray /\ q.stray \in BOOLEAN
    BY <1>4 DEF Good, GoalSet
  <2>4. q \in GoalSet
    <3>1. /\ q.id \in [SlotIds -> Goals \cup {None}] /\ q.msgs \in [Goals -> Nat]
          /\ q.lock \in [SlotIds -> SUBSET Goals] /\ q.on \in [Goals -> SlotIds]
          /\ q.count \in Nat
      BY <1>1, <1>2, <1>3, <2>2
    <3>2. q.queued \in SUBSET Goals
      BY DEF Good, GoalSet
    <3> QED BY <2>2, <2>3, <3>1, <3>2 DEF Good, GoalSet
  <2> QED BY <2>1, <2>2, <2>3, <2>4 DEF Good
<1>6. Covers(r.count, r.msgs)
  BY <1>2, <1>5, CoversAdd DEF Good, Counted
<1> HIDE DEF r
<1>7. Distinct(r)
  BY <1>1, <1>2, <1>5, GoalsAssumption DEF Good, Distinct
<1>8. ASSUME NEW h \in Goals, r.msgs[h] > 0
      PROVE  r.id[r.on[h]] = h /\ r.lock[r.on[h]] = WaitMask(r, h)
  <2>1. WaitMask(r, h) = WaitMask(e, h)
    BY <1>5 DEF WaitMask
  <2>2. CASE h = g
    BY <1>1, <1>2, <1>5, <2>1, <2>2
  <2>3. CASE h # g
    <3>1. e.msgs[h] > 0
      BY <1>2, <1>5, <1>8, <2>3
    <3>2. e.id[e.on[h]] = h /\ e.lock[e.on[h]] = WaitMask(e, h) /\ e.on[h] \in SlotIds
      BY <1>2, <3>1 DEF Good, Locked
    <3>3. e.on[h] # s
      BY <1>1, <2>3, <3>2, GoalsAssumption
    <3> QED BY <1>1, <1>2, <1>5, <2>1, <2>3, <3>2, <3>3
  <2> QED BY <2>2, <2>3
<1>9. Good(r)
  BY <1>5, <1>6, <1>7, <1>8 DEF Good, Locked, Counted
<1> QED BY <1>5, <1>9 DEF r


\* The decisions of goal g are dropped.  Where it has no slot it has none.
LEMMA DequeGood ==
    ASSUME NEW e, Good(e), NEW g \in Goals
    PROVE  /\ Good(DequeGoal(e, g))
           /\ DequeGoal(e, g).active = e.active
           /\ DequeGoal(e, g).msgs = [e.msgs EXCEPT ![g] = 0]
<1>1. /\ e.count \in Nat /\ e.msgs \in [Goals -> Nat] /\ e.active \in SUBSET Goals
      /\ e.on \in [Goals -> SlotIds] /\ e.id \in [SlotIds -> Goals \cup {None}]
      /\ e.lock \in [SlotIds -> SUBSET Goals]
  BY DEF Good, GoalSet
<1>2. CASE \A s \in SlotIds : e.id[s] # g
  <2>1. e.msgs[g] = 0
    BY <1>1, <1>2 DEF Good, Locked
  <2>2. [e.msgs EXCEPT ![g] = 0] = e.msgs
    BY <1>1, <2>1
  <2> QED BY <1>2, <2>2 DEF DequeGoal
<1>3. CASE ~ \A s \in SlotIds : e.id[s] # g
  <2> DEFINE r == [e EXCEPT
                     !.id      = [s \in SlotIds |-> IF @[s] = g THEN None ELSE @[s]],
                     !.lock    = [s \in SlotIds |-> IF e.id[s] = g THEN {} ELSE @[s]],
                     !.count   = @ - e.msgs[g],
                     !.msgs[g] = 0,
                     !.flushed = @ \cup {g}]
             m == [e.msgs EXCEPT ![g] = 0]
  <2>1. DequeGoal(e, g) = r
    BY <1>3 DEF DequeGoal
  <2>2. e.count - e.msgs[g] \in Nat /\ Covers(e.count - e.msgs[g], m)
    BY <1>1, CoversDrop DEF Good, Counted
  <2>3. /\ r \in GoalSet /\ r.active = e.active /\ r.msgs = m
        /\ r.id = [s \in SlotIds |-> IF e.id[s] = g THEN None ELSE e.id[s]]
        /\ r.lock = [s \in SlotIds |-> IF e.id[s] = g THEN {} ELSE e.lock[s]]
        /\ r.count = e.count - e.msgs[g] /\ r.on = e.on
        /\ r.stray = e.stray /\ r.panic = e.panic
    BY <1>1, <2>2 DEF Good, GoalSet
  <2>4. \A h \in Goals : WaitMask(r, h) = WaitMask(e, h)
    BY <2>3 DEF WaitMask
  <2>5. \A h \in Goals : m[h] > 0 => h # g /\ e.msgs[h] > 0
    BY <1>1
  <2> HIDE DEF r, m
  <2>6. Distinct(r)
    BY <2>3 DEF Good, Distinct
  <2>7. Locked(r)
    BY <1>1, <2>3, <2>4, <2>5 DEF Good, Locked
  <2>8. Good(r)
    BY <2>2, <2>3, <2>6, <2>7 DEF Good, Counted
  <2> QED BY <2>1, <2>3, <2>8 DEF m
<1> QED BY <1>2, <1>3

\* Where nothing is counted nothing waits.
LEMMA NothingWaits ==
    ASSUME NEW e, Good(e), e.count = 0
    PROVE  e.msgs = [g \in Goals |-> 0]
<1>1. e.msgs \in [Goals -> Nat] /\ Covers(0, e.msgs)
  BY DEF Good, GoalSet, Counted
<1>2. \A g \in Goals : e.msgs[g] <= 0
  BY <1>1, CoversBound
<1>3. \A g \in Goals : e.msgs[g] = 0
  BY <1>1, <1>2
<1> QED BY <1>1, <1>3

\* The slots are cleared when no decision is counted.
LEMMA ResetGood ==
    ASSUME NEW e, Good(e)
    PROVE  /\ Good(ResetPendingQueueIfEmpty(e))
           /\ ResetPendingQueueIfEmpty(e).active = e.active
           /\ ResetPendingQueueIfEmpty(e).msgs = e.msgs
           /\ ResetPendingQueueIfEmpty(e).count = e.count
<1>1. CASE e.count # 0
  BY <1>1 DEF ResetPendingQueueIfEmpty
<1>2. CASE e.count = 0
  <2> DEFINE r == [e EXCEPT !.id   = [s \in SlotIds |-> None],
                            !.lock = [s \in SlotIds |-> {}]]
  <2>1. ResetPendingQueueIfEmpty(e) = r
    BY <1>2 DEF ResetPendingQueueIfEmpty
  <2>2. /\ r \in GoalSet /\ r.active = e.active /\ r.msgs = e.msgs
        /\ r.id = [s \in SlotIds |-> None] /\ r.count = e.count
        /\ r.stray = e.stray /\ r.panic = e.panic
    BY DEF Good, GoalSet
  <2>3. \A g \in Goals : r.msgs[g] = 0
    BY <1>2, <2>2, NothingWaits
  <2> HIDE DEF r
  <2>4. Distinct(r) /\ Locked(r)
    BY <2>2, <2>3 DEF Distinct, Locked
  <2> QED BY <2>1, <2>2, <2>4 DEF Good, Counted
<1> QED BY <1>1, <1>2

\* The queue is emptied.
LEMMA ClearGood ==
    ASSUME NEW e, Good(e)
    PROVE  /\ Good(ClearPendingGoalsQueue(e))
           /\ ClearPendingGoalsQueue(e).active = e.active
           /\ ClearPendingGoalsQueue(e).msgs = [g \in Goals |-> 0]
           /\ ClearPendingGoalsQueue(e).count = 0
<1> DEFINE r == [e EXCEPT !.msgs = [g \in Goals |-> 0], !.count = 0, !.flushed = Goals]
<1>1. /\ r \in GoalSet /\ r.active = e.active /\ r.msgs = [g \in Goals |-> 0]
      /\ r.id = e.id /\ r.count = 0 /\ r.stray = e.stray /\ r.panic = e.panic
  BY DEF Good, GoalSet
<1>2. Covers(r.count, r.msgs)
  BY <1>1, CoversNone
<1> HIDE DEF r
<1>3. Distinct(r) /\ Locked(r)
  BY <1>1 DEF Good, Distinct, Locked
<1>4. Good(r)
  BY <1>1, <1>2, <1>3 DEF Good, Counted
<1> QED BY <1>1, <1>4, ResetGood DEF ClearPendingGoalsQueue, r

\* A goal is started, and the decisions that still wait wait for it too
\* unless they may run beside it.
LEMMA StartGood ==
    ASSUME NEW e, Good(e), NEW g \in Goals
    PROVE  /\ Good(StartGoal(e, g))
           /\ StartGoal(e, g).active = e.active \cup {g}
           /\ StartGoal(e, g).msgs = e.msgs
           /\ StartGoal(e, g).count = e.count
<1> DEFINE a == [e EXCEPT !.active = @ \cup {g}, !.started = @ \cup {g}]
<1>1. /\ a \in GoalSet /\ a.active = e.active \cup {g} /\ a.msgs = e.msgs
      /\ a.id = e.id /\ a.lock = e.lock /\ a.on = e.on /\ a.count = e.count
      /\ a.stray = e.stray /\ a.panic = e.panic
  BY DEF Good, GoalSet
<1> HIDE DEF a
<1>2. CASE e.count = 0
  <2>1. StartGoal(e, g) = a
    BY <1>1, <1>2 DEF StartGoal, UpdateQueueMasks, a
  <2>2. \A h \in Goals : a.msgs[h] = 0
    BY <1>1, <1>2, NothingWaits
  <2>3. Distinct(a) /\ Locked(a)
    BY <1>1, <2>2 DEF Good, Distinct, Locked
  <2> QED BY <1>1, <2>1, <2>3 DEF Good, Counted
<1>3. CASE e.count # 0
  <2> DEFINE kept == {s \in SlotIds : a.id[s] # None /\ a.msgs[a.id[s]] > 0}
             r == [a EXCEPT
                !.id   = [s \in SlotIds |-> IF s \in kept THEN @[s] ELSE None],
                !.lock = [s \in SlotIds |->
                            IF s \in kept THEN WaitMask(a, a.id[s]) ELSE {}]]
  <2>1. StartGoal(e, g) = r
    BY <1>1, <1>3 DEF StartGoal, UpdateQueueMasks, a
  <2>2. ASSUME NEW s \in SlotIds
        PROVE  /\ a.id[s] \in Goals \cup {None}
               /\ WaitMask(a, a.id[s]) \in SUBSET Goals
    BY <1>1 DEF GoalSet, WaitMask
  <2>3. /\ r.active = a.active /\ r.msgs = a.msgs
        /\ r.id = [s \in SlotIds |-> IF s \in kept THEN a.id[s] ELSE None]
        /\ r.lock = [s \in SlotIds |->
                        IF s \in kept THEN WaitMask(a, a.id[s]) ELSE {}]
        /\ r.on = a.on /\ r.count = a.count
        /\ r.stray = a.stray /\ r.panic = a.panic
    BY <1>1 DEF GoalSet
  <2>4. /\ r.id \in [SlotIds -> Goals \cup {None}]
        /\ r.lock \in [SlotIds -> SUBSET Goals]
    BY <2>2, <2>3
  <2>5. r \in GoalSet
    BY <1>1, <2>3, <2>4 DEF GoalSet
  <2>6. \A h \in Goals : WaitMask(r, h) = WaitMask(a, h)
    BY <2>3 DEF WaitMask
  <2>7. Distinct(r)
    BY <1>1, <2>3 DEF Good, Distinct
  <2>8. ASSUME NEW h \in Goals, r.msgs[h] > 0
        PROVE  r.id[r.on[h]] = h /\ r.lock[r.on[h]] = WaitMask(r, h)
    <3>1. a.id[a.on[h]] = h /\ a.msgs[h] > 0 /\ a.on[h] \in SlotIds
      BY <1>1, <2>3, <2>8 DEF Good, Locked, GoalSet
    <3>2. a.on[h] \in kept
      BY <3>1, GoalsAssumption
    <3> HIDE DEF kept, r
    <3> QED BY <2>3, <2>6, <3>1, <3>2
  <2> HIDE DEF r
  <2>9. Good(r)
    BY <1>1, <2>3, <2>5, <2>7, <2>8 DEF Good, Locked, Counted
  <2> QED BY <1>1, <2>1, <2>3, <2>9
<1> QED BY <1>2, <1>3

\* Goals end, and no decision waits for them any more.
LEMMA EndGood ==
    ASSUME NEW e, Good(e), NEW r, r \in GoalSet, NEW ends \in SUBSET Goals,
           r.active = e.active \ ends,
           r.lock = [s \in SlotIds |->
                        IF e.id[s] # None THEN e.lock[s] \ ends ELSE e.lock[s]],
           r.id = e.id, r.on = e.on, r.msgs = e.msgs, r.count = e.count,
           r.stray = e.stray, r.panic = e.panic
    PROVE  Good(r)
<1>1. ASSUME NEW h \in Goals, r.msgs[h] > 0
      PROVE  r.id[r.on[h]] = h /\ r.lock[r.on[h]] = WaitMask(r, h)
  <2>1. e.id[e.on[h]] = h /\ e.on[h] \in SlotIds /\ e.lock[e.on[h]] = WaitMask(e, h)
    BY <1>1 DEF Good, Locked, GoalSet
  <2>2. r.lock[r.on[h]] = WaitMask(e, h) \ ends
    BY <2>1, GoalsAssumption
  <2>3. WaitMask(r, h) = WaitMask(e, h) \ ends
    BY DEF WaitMask
  <2> QED BY <2>1, <2>2, <2>3
<1> QED BY <1>1 DEF Good, Distinct, Locked, Counted

\* A procedure has ended.
LEMMA ClearGoalGood ==
    ASSUME NEW e, Good(e), NEW g \in Goals
    PROVE  /\ Good(GoalsEngine_ClearGoal(e, g))
           /\ GoalsEngine_ClearGoal(e, g).active = e.active \ {g}
           /\ GoalsEngine_ClearGoal(e, g).msgs = e.msgs
<1> DEFINE r == GoalsEngine_ClearGoal(e, g)
<1>1. /\ r \in GoalSet /\ r.active = e.active \ {g}
      /\ r.lock = [s \in SlotIds |->
                      IF e.id[s] # None THEN e.lock[s] \ {g} ELSE e.lock[s]]
      /\ r.id = e.id /\ r.on = e.on /\ r.msgs = e.msgs /\ r.count = e.count
      /\ r.stray = e.stray /\ r.panic = e.panic
  BY DEF Good, GoalSet, GoalsEngine_ClearGoal
<1> HIDE DEF r
<1>2. Good(r)
  BY <1>1, EndGood
<1> QED BY <1>1, <1>2 DEF r

\* Procedures are cancelled, and those in sync have ended already.
LEMMA CancelGood ==
    ASSUME NEW e, Good(e), NEW set \in SUBSET Goals, NEW sync
    PROVE  /\ Good(CancelGoals(e, set, sync))
           /\ CancelGoals(e, set, sync).active = e.active \ (set \cap sync)
           /\ CancelGoals(e, set, sync).msgs = e.msgs
           /\ CancelGoals(e, set, sync).count = e.count
<1> DEFINE r == CancelGoals(e, set, sync)
<1>1. /\ r \in GoalSet /\ r.active = e.active \ (set \cap sync)
      /\ r.lock = [s \in SlotIds |->
                      IF e.id[s] # None THEN e.lock[s] \ (set \cap sync) ELSE e.lock[s]]
      /\ r.id = e.id /\ r.on = e.on /\ r.msgs = e.msgs /\ r.count = e.count
      /\ r.stray = e.stray /\ r.panic = e.panic
  BY DEF Good, GoalSet, CancelGoals
<1>2. set \cap sync \in SUBSET Goals
  OBVIOUS
<1> HIDE DEF r
<1>3. Good(r)
  BY <1>1, <1>2, EndGood
<1> QED BY <1>1, <1>3 DEF r


-----------------------------------------------------------------------------
(***************************************************************************)
(* What a decision for goal g, taken with record e, may lead to: one for   *)
(* each action of GoalSchedule that carries out or puts off a decision.    *)
(***************************************************************************)
Beside(g, others) ==
    others = {} \/ (Contention[g] = "concurrent" /\ others \subseteq Concurrent[g])

GivesWay(e, g) ==
    IF Contention[g] = "cancel" THEN Goals ELSE {Exclusive[g]} \cap e.active

RunsAtOnce(e, r, g) ==
    \E gone \in SUBSET (e.active \cap GivesWay(e, g)) :
        /\ Beside(g, e.active \ gone)
        /\ r.active = (e.active \ gone) \cup {g}
        /\ r.msgs = [h \in Goals |-> IF h \in GivesWay(e, g) THEN 0 ELSE e.msgs[h]]

PutOff(e, r, g) ==
    r.active = e.active /\ r.msgs = [e.msgs EXCEPT ![g] = @ + 1]

CancelsAll(e, r, g) ==
    /\ Contention[g] = "cancel"
    /\ r.active \subseteq e.active
    /\ r.msgs = [h \in Goals |-> IF h = g /\ g \notin e.active THEN 1 ELSE 0]

Excludes(e, r, g) ==
    /\ Exclusive[g] \in e.active
    /\ r.active \in {e.active, e.active \ {Exclusive[g]}}
    /\ r.msgs = [[e.msgs EXCEPT ![Exclusive[g]] = 0] EXCEPT ![g] = @ + 1]

Outcome(e, r, g) ==
    RunsAtOnce(e, r, g) \/ PutOff(e, r, g) \/ CancelsAll(e, r, g) \/ Excludes(e, r, g)

\* A goal that cancels everything is carried out once nothing is active, and
\* is the only one that waits otherwise.
LEMMA CancellingGood ==
    ASSUME NEW e, Good(e), NEW g \in Goals, NEW sync,
           Contention[g] = "cancel", g \notin e.active
    PROVE  /\ Good(ActivateCancelling(e, g, TRUE, sync))
           /\ Outcome(e, ActivateCancelling(e, g, TRUE, sync), g)
<1> DEFINE c == ClearPendingGoalsQueue(e)
           d == CancelGoals(c, c.active, sync)
           r == ActivateCancelling(e, g, TRUE, sync)
           start == d.active = {} /\ GoalCanRunNow(d, TRUE)
           zero == [h \in Goals |-> 0]
<1>1. e.active \in SUBSET Goals
  BY DEF Good, GoalSet
<1>2. Good(c) /\ c.active = e.active /\ c.msgs = zero /\ c.count = 0
  BY ClearGood
<1>3. /\ Good(d) /\ d.active = e.active \ (e.active \cap sync)
      /\ d.msgs = zero /\ d.count = 0
  <2> HIDE DEF c
  <2>1. PICK all \in SUBSET Goals : all = c.active
    BY <1>1, <1>2
  <2>2. Good(c)
    BY <1>2
  <2>3. Good(CancelGoals(c, all, sync))
    BY <2>2, CancelGood
  <2>4. CancelGoals(c, all, sync).active = c.active \ (all \cap sync)
    BY <2>2, CancelGood
  <2>5. d.msgs = c.msgs /\ d.count = c.count
    BY <2>2 DEF CancelGoals, Good, GoalSet
  <2> QED BY <1>2, <2>1, <2>3, <2>4, <2>5
<1>4. r = StartOrQueue(d, g, d.active, start)
  BY DEF ActivateCancelling
<1> HIDE DEF c, d, r, start
<1>5. CASE start
  <2>1. r = StartGoal(d, g) /\ d.active = {}
    BY <1>4, <1>5 DEF StartOrQueue, start
  <2>2. Good(r) /\ r.active = {g} /\ r.msgs = zero
    <3>1. Good(r) /\ r.active = d.active \cup {g} /\ r.msgs = d.msgs
      BY <1>3, <2>1, StartGood
    <3> QED BY <1>3, <2>1, <3>1
  <2>3. RunsAtOnce(e, r, g)
    <3>1. GivesWay(e, g) = Goals
      BY DEF GivesWay
    <3>2. /\ e.active \in SUBSET (e.active \cap GivesWay(e, g))
          /\ Beside(g, e.active \ e.active)
          /\ r.active = (e.active \ e.active) \cup {g}
          /\ r.msgs = [h \in Goals |-> IF h \in GivesWay(e, g) THEN 0 ELSE e.msgs[h]]
      BY <1>1, <2>2, <3>1 DEF Beside
    <3> QED BY <3>2 DEF RunsAtOnce
  <2> QED BY <2>2, <2>3 DEF Outcome, r
<1>6. CASE ~start
  <2>1. r = QueueGoal(d, g, d.active)
    BY <1>4, <1>6 DEF StartOrQueue
  <2>2. d.active = WaitMask(d, g)
    BY DEF WaitMask
  <2>3. Good(r) /\ r.active = d.active /\ r.msgs = [zero EXCEPT ![g] = @ + 1]
    <3>1. Good(d)
      BY <1>3
    <3>2. Good(r)
      BY <2>1, <2>2, <3>1, QueueGood
    <3>3. r.active = d.active
      BY <2>1, <2>2, <3>1, QueueGood
    <3>4. r.msgs = [d.msgs EXCEPT ![g] = @ + 1]
      BY <2>1, <2>2, <3>1, QueueGood
    <3> QED BY <1>3, <3>2, <3>3, <3>4
  <2>4. CancelsAll(e, r, g)
    BY <1>3, <2>3 DEF CancelsAll
  <2> QED BY <2>3, <2>4 DEF Outcome, r
<1> QED BY <1>5, <1>6

\* A goal beside others: it makes the goal it excludes give way, and is put
\* off while goals are active that it may not run beside.
LEMMA OtherGood ==
    ASSUME NEW e, Good(e), NEW g \in Goals, NEW sync, Contention[g] # "cancel",
           NEW isNew
    PROVE  /\ Good(ActivateOther(e, g, isNew, sync))
           /\ Outcome(e, ActivateOther(e, g, isNew, sync), g)
<1> DEFINE d == HandleExclusiveGoals(e, g, sync)
           r == ActivateOther(e, g, isNew, sync)
           x == Exclusive[g]
           wait == WaitMask(e, g) \cap d.active
           start == (Contention[g] = "concurrent" /\ wait = {}) \/ GoalCanRunNow(d, isNew)
           gone == {x} \cap e.active \cap sync
<1>1. /\ e.active \in SUBSET Goals /\ e.msgs \in [Goals -> Nat]
      /\ x \in Goals \cup {None} /\ None \notin Goals
  BY GoalsAssumption DEF Good, GoalSet
<1>2. /\ Good(d) /\ d.active = e.active \ gone
      /\ d.msgs = [h \in Goals |-> IF h \in GivesWay(e, g) THEN 0 ELSE e.msgs[h]]
      /\ x \in e.active => d.msgs = [e.msgs EXCEPT ![x] = 0]
      /\ x \notin e.active => d.msgs = e.msgs
  <2>1. CASE x \in e.active
    <3> DEFINE q == DequeGoal(e, x)
    <3>1. d = CancelGoals(q, {x}, sync) /\ x \in Goals
      BY <1>1, <2>1 DEF HandleExclusiveGoals
    <3>2. Good(q) /\ q.active = e.active /\ q.msgs = [e.msgs EXCEPT ![x] = 0]
      BY <3>1, DequeGood
    <3> HIDE DEF q, d, x
    <3>3. PICK one \in SUBSET Goals : one = {x}
      BY <3>1
    <3>4. Good(d)
      BY <3>1, <3>2, <3>3, CancelGood
    <3>6. d.active = q.active \ (one \cap sync)
      BY <3>1, <3>2, <3>3, CancelGood
    <3>7. d.msgs = q.msgs
      BY <3>1, <3>2, <3>3, CancelGood
    <3>5. GivesWay(e, g) = {x}
      BY <2>1 DEF GivesWay, x
    <3> QED BY <1>1, <2>1, <3>1, <3>2, <3>3, <3>4, <3>5, <3>6, <3>7
  <2>2. CASE x \notin e.active
    <3>1. d = e /\ GivesWay(e, g) = {} /\ gone = {}
      BY <2>2 DEF HandleExclusiveGoals, GivesWay
    <3> HIDE DEF d, x
    <3> QED BY <1>1, <2>2, <3>1
  <2> QED BY <2>1, <2>2
<1>3. wait = WaitMask(d, g)
  <2> HIDE DEF d
  <2> QED BY <1>2 DEF WaitMask
<1>4. r = StartOrQueue(d, g, wait, start)
  BY DEF ActivateOther
<1>5. GivesWay(e, g) = {x} \cap e.active
  BY DEF GivesWay
<1> HIDE DEF d, r, wait, start, x
<1>6. CASE start
  <2>1. r = StartGoal(d, g)
    BY <1>4, <1>6 DEF StartOrQueue
  <2>2. Good(r) /\ r.active = d.active \cup {g} /\ r.msgs = d.msgs
    BY <1>2, <2>1, StartGood
  <2>3. Beside(g, d.active)
    <3>1. CASE GoalCanRunNow(d, isNew)
      BY <3>1 DEF GoalCanRunNow, Beside
    <3>2. CASE Contention[g] = "concurrent" /\ wait = {}
      BY <1>3, <3>2 DEF WaitMask, Beside
    <3> QED BY <1>6, <3>1, <3>2 DEF start
  <2>4. RunsAtOnce(e, r, g)
    <3>1. gone \in SUBSET (e.active \cap GivesWay(e, g))
      BY <1>5
    <3> HIDE DEF gone
    <3> QED BY <1>2, <2>2, <2>3, <3>1 DEF RunsAtOnce
  <2> QED BY <2>2, <2>4 DEF Outcome, r
<1>7. CASE ~start
  <2>1. r = QueueGoal(d, g, wait)
    BY <1>4, <1>7 DEF StartOrQueue
  <2>2. Good(r) /\ r.active = d.active /\ r.msgs = [d.msgs EXCEPT ![g] = @ + 1]
    BY <1>2, <1>3, <2>1, QueueGood
  <2>3. CASE x \in e.active
    <3>1. d.active \in {e.active, e.active \ {x}}
      BY <1>2
    <3>2. Excludes(e, r, g)
      BY <1>2, <2>2, <2>3, <3>1 DEF Excludes, x
    <3> QED BY <2>2, <3>2 DEF Outcome, r
  <2>4. CASE x \notin e.active
    <3>1. PutOff(e, r, g)
      BY <1>2, <2>2, <2>4 DEF PutOff
    <3> QED BY <2>2, <3>1 DEF Outcome, r
  <2> QED BY <2>3, <2>4
<1> QED BY <1>6, <1>7

\* A decision that comes from the rules.
LEMMA DecisionGood ==
    ASSUME NEW e, Good(e), NEW g \in Goals, NEW sync
    PROVE  /\ Good(GoalsEngine_ActivateGoal(e, g, TRUE, sync))
           /\ Outcome(e, GoalsEngine_ActivateGoal(e, g, TRUE, sync), g)
<1> DEFINE n == NoCalls(e)
           r == GoalsEngine_ActivateGoal(e, g, TRUE, sync)
           a == IF GoalCanRunNow(n, TRUE) THEN StartGoal(n, g)
                ELSE IF Contention[g] = "cancel"
                     THEN ActivateCancelling(n, g, TRUE, sync)
                     ELSE ActivateOther(n, g, TRUE, sync)
<1>1. Good(n) /\ n.active = e.active /\ n.msgs = e.msgs /\ n.count = e.count
  BY NoCallsGood
<1>2. r = IF Contention[g] = "cancel" /\ g \in n.active
          THEN ClearPendingGoalsQueue(n) ELSE ResetPendingQueueIfEmpty(a)
  BY DEF GoalsEngine_ActivateGoal
<1>3. /\ n.active \in SUBSET Goals /\ n.msgs \in [Goals -> Nat] /\ n.count \in Nat
  BY <1>1 DEF Good, GoalSet
<1> HIDE DEF n, r
<1>4. CASE Contention[g] = "cancel" /\ g \in n.active
  <2>1. Good(r) /\ r.active = n.active /\ r.msgs = [h \in Goals |-> 0]
    BY <1>1, <1>2, <1>4, ClearGood
  <2>2. CancelsAll(e, r, g)
    BY <1>1, <1>4, <2>1 DEF CancelsAll
  <2> QED BY <2>1, <2>2 DEF Outcome, r
<1>5. CASE ~(Contention[g] = "cancel" /\ g \in n.active)
  <2>1. Good(a) /\ Outcome(n, a, g)
    <3>1. CASE GoalCanRunNow(n, TRUE)
      <4>1. a = StartGoal(n, g) /\ n.active = {} /\ n.count = 0
        BY <3>1 DEF GoalCanRunNow
      <4>2. /\ Good(a) /\ a.active = {g}
            /\ a.msgs = [h \in Goals |-> 0] /\ n.msgs = [h \in Goals |-> 0]
        <5> HIDE DEF a
        <5>1. Good(a) /\ a.active = n.active \cup {g} /\ a.msgs = n.msgs
          BY <1>1, <4>1, StartGood
        <5>2. n.msgs = [h \in Goals |-> 0]
          BY <1>1, <4>1, NothingWaits
        <5> QED BY <4>1, <5>1, <5>2
      <4>3. /\ {} \in SUBSET (n.active \cap GivesWay(n, g))
            /\ Beside(g, n.active \ {})
            /\ a.active = (n.active \ {}) \cup {g}
            /\ a.msgs = [h \in Goals |-> IF h \in GivesWay(n, g) THEN 0 ELSE n.msgs[h]]
        <5> HIDE DEF a
        <5> QED BY <4>1, <4>2 DEF Beside
      <4> HIDE DEF a
      <4> QED BY <4>2, <4>3 DEF Outcome, RunsAtOnce
    <3>2. CASE ~GoalCanRunNow(n, TRUE) /\ Contention[g] = "cancel"
      <4>1. a = ActivateCancelling(n, g, TRUE, sync) /\ g \notin n.active
        BY <1>5, <3>2
      <4> HIDE DEF a
      <4> QED BY <1>1, <3>2, <4>1, CancellingGood
    <3>3. CASE ~GoalCanRunNow(n, TRUE) /\ Contention[g] # "cancel"
      <4>1. a = ActivateOther(n, g, TRUE, sync)
        BY <3>3
      <4> HIDE DEF a
      <4> QED BY <1>1, <3>3, <4>1, OtherGood
    <3> QED BY <3>1, <3>2, <3>3
  <2> HIDE DEF a
  <2>2. Good(r) /\ r.active = a.active /\ r.msgs = a.msgs
    BY <1>2, <1>5, <2>1, ResetGood
  <2>3. Outcome(e, r, g)
    BY <1>1, <2>1, <2>2
       DEF Outcome, RunsAtOnce, PutOff, CancelsAll, Excludes, GivesWay
  <2> QED BY <2>2, <2>3 DEF r
<1> QED BY <1>4, <1>5

\* A decision that comes from the queue: its slot is open, so that nothing is
\* active that it may not run beside, and it is carried out.
LEMMA RedeliveryGood ==
    ASSUME NEW e, Good(e), NEW g \in Goals, NEW sync, Deliverable(e, g)
    PROVE  /\ Good(GoalsEngine_ActivateGoal(Taken(e, g), g, FALSE, sync))
           /\ Beside(g, e.active)
           /\ GoalsEngine_ActivateGoal(Taken(e, g), g, FALSE, sync).active
                = e.active \cup {g}
           /\ GoalsEngine_ActivateGoal(Taken(e, g), g, FALSE, sync).msgs
                = [e.msgs EXCEPT ![g] = @ - 1]
<1> DEFINE n == [NoCalls(Taken(e, g)) EXCEPT !.count = @ - 1]
           r == GoalsEngine_ActivateGoal(Taken(e, g), g, FALSE, sync)
           a == IF GoalCanRunNow(n, FALSE) THEN StartGoal(n, g)
                ELSE IF Contention[g] = "cancel"
                     THEN ActivateCancelling(n, g, FALSE, sync)
                     ELSE ActivateOther(n, g, FALSE, sync)
<1>1. e.msgs[g] > 0 /\ e.lock[e.on[g]] = {}
  BY DEF Deliverable
<1>2. WaitMask(e, g) = {}
  BY <1>1 DEF Good, Locked
<1>3. Beside(g, e.active)
  BY <1>2 DEF WaitMask, Beside
<1>4. Good(n)
  BY <1>1, TakenGood
<1>5. n.active = e.active /\ n.msgs = [e.msgs EXCEPT ![g] = @ - 1]
  BY DEF Good, GoalSet, NoCalls, Taken
<1>6. r = IF Contention[g] = "cancel" /\ g \in n.active
          THEN ClearPendingGoalsQueue(n) ELSE ResetPendingQueueIfEmpty(a)
  BY DEF GoalsEngine_ActivateGoal
<1> HIDE DEF n, r
<1>7. ~(Contention[g] = "cancel" /\ g \in n.active)
  BY <1>2, <1>5 DEF WaitMask
<1>8. a = StartGoal(n, g)
  <2>1. CASE n.active = {}
    BY <2>1 DEF GoalCanRunNow
  <2>2. CASE n.active # {}
    <3>1. /\ Contention[g] = "concurrent" /\ e.active \subseteq Concurrent[g]
          /\ ~GoalCanRunNow(n, FALSE)
      BY <1>2, <1>5, <2>2 DEF WaitMask, GoalCanRunNow
    <3>2. a = ActivateOther(n, g, FALSE, sync)
      BY <3>1
    <3>3. HandleExclusiveGoals(n, g, sync) = n
      BY <1>5, <3>1, TableAssumption DEF HandleExclusiveGoals
    <3>4. WaitMask(n, g) = {}
      BY <1>5, <3>1 DEF WaitMask
    <3> HIDE DEF a
    <3> QED BY <3>1, <3>2, <3>3, <3>4 DEF ActivateOther, StartOrQueue
  <2> QED BY <2>1, <2>2
<1> HIDE DEF a
<1>9. Good(a) /\ a.active = n.active \cup {g} /\ a.msgs = n.msgs
  BY <1>4, <1>8, StartGood
<1>10. Good(r) /\ r.active = a.active /\ r.msgs = a.msgs
  BY <1>6, <1>7, <1>9, ResetGood
<1> QED BY <1>3, <1>5, <1>9, <1>10 DEF r


-----------------------------------------------------------------------------
(***************************************************************************)
(* The calls that an operation makes, for the topology that carries them   *)
(* out: r is what becomes of e when a decision for goal g is delivered and *)
(* no procedure confirms its cancellation at once.                         *)
(***************************************************************************)
CallsFit(e, r, g) ==
    /\ r.started \subseteq {g}
    /\ r.active = e.active \cup r.started
    /\ Contention[g] = "cancel" /\ g \in e.active => r.started = {}
    /\ r.cancelled \subseteq
         IF Contention[g] = "cancel" THEN e.active \ {g} ELSE {Exclusive[g]}

\* A goal that is started is the only call.
LEMMA StartCalls ==
    ASSUME NEW e \in GoalSet, NEW g \in Goals
    PROVE  /\ StartGoal(e, g).started = e.started \cup {g}
           /\ StartGoal(e, g).active = e.active \cup {g}
           /\ StartGoal(e, g).cancelled = e.cancelled
<1> DEFINE a == [e EXCEPT !.active = @ \cup {g}, !.started = @ \cup {g}]
<1>1. /\ a \in GoalSet /\ a.started = e.started \cup {g}
      /\ a.active = e.active \cup {g} /\ a.cancelled = e.cancelled
  BY DEF GoalSet
<1>2. StartGoal(e, g) = UpdateQueueMasks(a)
  BY DEF StartGoal
<1> HIDE DEF a
<1>3. /\ UpdateQueueMasks(a).started = a.started
      /\ UpdateQueueMasks(a).active = a.active
      /\ UpdateQueueMasks(a).cancelled = a.cancelled
  BY <1>1 DEF GoalSet, UpdateQueueMasks
<1> QED BY <1>1, <1>2, <1>3

\* A goal that is put off starts and cancels nothing.
LEMMA QueueCalls ==
    ASSUME NEW e \in GoalSet, NEW g \in Goals, NEW wait
    PROVE  /\ QueueGoal(e, g, wait).started = e.started
           /\ QueueGoal(e, g, wait).active = e.active
           /\ QueueGoal(e, g, wait).cancelled = e.cancelled
BY DEF GoalSet, QueueGoal

\* Nor does the emptying of the queue, or of a part of it.
LEMMA EmptyCalls ==
    ASSUME NEW e \in GoalSet
    PROVE  /\ ResetPendingQueueIfEmpty(e).started = e.started
           /\ ResetPendingQueueIfEmpty(e).active = e.active
           /\ ResetPendingQueueIfEmpty(e).cancelled = e.cancelled
           /\ ClearPendingGoalsQueue(e).started = e.started
           /\ ClearPendingGoalsQueue(e).active = e.active
           /\ ClearPendingGoalsQueue(e).cancelled = e.cancelled
           /\ \A g : /\ DequeGoal(e, g).started = e.started
                     /\ DequeGoal(e, g).active = e.active
                     /\ DequeGoal(e, g).cancelled = e.cancelled
<1>1. /\ ResetPendingQueueIfEmpty(e).started = e.started
      /\ ResetPendingQueueIfEmpty(e).active = e.active
      /\ ResetPendingQueueIfEmpty(e).cancelled = e.cancelled
  BY DEF GoalSet, ResetPendingQueueIfEmpty
<1> DEFINE c == [e EXCEPT !.msgs = [g \in Goals |-> 0], !.count = 0, !.flushed = Goals]
<1>2. /\ c \in GoalSet
      /\ c.started = e.started /\ c.active = e.active /\ c.cancelled = e.cancelled
  BY DEF GoalSet
<1>3. ClearPendingGoalsQueue(e) = ResetPendingQueueIfEmpty(c)
  BY DEF ClearPendingGoalsQueue
<1> HIDE DEF c
<1>4. /\ ResetPendingQueueIfEmpty(c).started = c.started
      /\ ResetPendingQueueIfEmpty(c).active = c.active
      /\ ResetPendingQueueIfEmpty(c).cancelled = c.cancelled
  BY <1>2 DEF GoalSet, ResetPendingQueueIfEmpty
<1>5. ASSUME NEW g
      PROVE  /\ DequeGoal(e, g).started = e.started
             /\ DequeGoal(e, g).active = e.active
             /\ DequeGoal(e, g).cancelled = e.cancelled
  BY DEF GoalSet, DequeGoal
<1> QED BY <1>1, <1>2, <1>3, <1>4, <1>5

\* Procedures that are cancelled and do not confirm it yet stay active.
LEMMA CancelCalls ==
    ASSUME NEW e \in GoalSet, NEW set \in SUBSET Goals
    PROVE  /\ CancelGoals(e, set, {}).started = e.started
           /\ CancelGoals(e, set, {}).active = e.active
           /\ CancelGoals(e, set, {}).cancelled = e.cancelled \cup set
BY DEF GoalSet, CancelGoals

\* A goal is started or put off.
LEMMA StartOrQueueCalls ==
    ASSUME NEW e \in GoalSet, NEW g \in Goals, NEW wait, NEW start, e.started = {}
    PROVE  LET r == StartOrQueue(e, g, wait, start)
           IN  /\ r.started \subseteq {g}
               /\ r.active = e.active \cup r.started
               /\ r.cancelled = e.cancelled
<1>1. CASE start
  BY <1>1, StartCalls DEF StartOrQueue
<1>2. CASE ~start
  BY <1>2, QueueCalls DEF StartOrQueue
<1> QED BY <1>1, <1>2

\* A goal that cancels everything cancels all goals but itself.
LEMMA CancellingCalls ==
    ASSUME NEW e, Good(e), e.started = {}, e.cancelled = {}, NEW g \in Goals,
           Contention[g] = "cancel", g \notin e.active, NEW isNew
    PROVE  CallsFit(e, ActivateCancelling(e, g, isNew, {}), g)
<1> DEFINE c == ClearPendingGoalsQueue(e)
           d == CancelGoals(c, c.active, {})
           start == d.active = {} /\ GoalCanRunNow(d, isNew)
           r == ActivateCancelling(e, g, isNew, {})
<1>1. e \in GoalSet /\ e.active \in SUBSET Goals
  BY DEF Good, GoalSet
<1>2. r = StartOrQueue(d, g, d.active, start)
  BY DEF ActivateCancelling
<1>3. Good(c) /\ c \in GoalSet /\ c.active = e.active /\ c.started = {} /\ c.cancelled = {}
  BY <1>1, ClearGood, EmptyCalls DEF Good
<1> HIDE DEF c, start, r
<1>4. c.active \in SUBSET Goals
  BY <1>1, <1>3
<1>5. Good(d)
  BY <1>3, <1>4, CancelGood
<1>6. d.active = e.active /\ d.started = {} /\ d.cancelled = e.active
  <2>1. PICK all \in SUBSET Goals : all = c.active
    BY <1>4
  <2>2. /\ d.active = c.active /\ d.started = c.started
        /\ d.cancelled = c.cancelled \cup all
    BY <1>3, <2>1, CancelCalls
  <2> QED BY <1>3, <2>1, <2>2
<1> HIDE DEF d
<1>7. /\ r.started \subseteq {g} /\ r.active = d.active \cup r.started
      /\ r.cancelled = d.cancelled
  <2>1. d \in GoalSet /\ d.started = {}
    BY <1>5, <1>6 DEF Good
  <2>2. PICK w : w = d.active
    OBVIOUS
  <2> QED BY <1>2, <2>1, <2>2, StartOrQueueCalls
<1> QED BY <1>6, <1>7 DEF CallsFit, r

\* A goal beside others cancels the goal it excludes and no other.
LEMMA OtherCalls ==
    ASSUME NEW e, Good(e), e.started = {}, e.cancelled = {}, NEW g \in Goals,
           Contention[g] # "cancel", NEW isNew
    PROVE  CallsFit(e, ActivateOther(e, g, isNew, {}), g)
<1> DEFINE d == HandleExclusiveGoals(e, g, {})
           wait == WaitMask(e, g) \cap d.active
           start == \/ Contention[g] = "concurrent" /\ wait = {}
                    \/ GoalCanRunNow(d, isNew)
           r == ActivateOther(e, g, isNew, {})
<1>1. e \in GoalSet /\ e.active \in SUBSET Goals
  BY DEF Good, GoalSet
<1>2. r = StartOrQueue(d, g, wait, start)
  BY DEF ActivateOther
<1>3. /\ d \in GoalSet /\ d.active = e.active /\ d.started = {}
      /\ d.cancelled \subseteq {Exclusive[g]}
  <2>1. CASE Exclusive[g] \in e.active
    <3>1. PICK x \in Goals : x = Exclusive[g]
      BY <1>1, <2>1
    <3> DEFINE q == DequeGoal(e, x)
    <3>2. d = CancelGoals(q, {x}, {})
      BY <2>1, <3>1 DEF HandleExclusiveGoals
    <3>3. Good(q) /\ q \in GoalSet
      BY <3>1, DequeGood DEF Good
    <3>4. q.started = {} /\ q.active = e.active /\ q.cancelled = {}
      BY <1>1, EmptyCalls
    <3> HIDE DEF q, d
    <3>5. PICK one \in SUBSET Goals : one = {x}
      BY <3>1
    <3>6. Good(d)
      BY <3>2, <3>3, <3>5, CancelGood
    <3>7. d.started = q.started /\ d.active = q.active /\ d.cancelled = q.cancelled \cup one
      BY <3>2, <3>3, <3>5, CancelCalls
    <3> QED BY <3>1, <3>4, <3>5, <3>6, <3>7 DEF Good
  <2>2. CASE Exclusive[g] \notin e.active
    BY <1>1, <2>2 DEF HandleExclusiveGoals
  <2> QED BY <2>1, <2>2
<1> HIDE DEF d, wait, start, r
<1>4. /\ r.started \subseteq {g} /\ r.active = d.active \cup r.started
      /\ r.cancelled = d.cancelled
  BY <1>2, <1>3, StartOrQueueCalls
<1> QED BY <1>3, <1>4 DEF CallsFit, r

\* The calls for a decision that comes from the rules.
LEMMA DecisionCalls ==
    ASSUME NEW e, Good(e), NEW g \in Goals
    PROVE  CallsFit(e, GoalsEngine_ActivateGoal(e, g, TRUE, {}), g)
<1> DEFINE n == NoCalls(e)
           r == GoalsEngine_ActivateGoal(e, g, TRUE, {})
           a == IF GoalCanRunNow(n, TRUE) THEN StartGoal(n, g)
                ELSE IF Contention[g] = "cancel"
                     THEN ActivateCancelling(n, g, TRUE, {})
                     ELSE ActivateOther(n, g, TRUE, {})
<1>1. Good(n) /\ n.active = e.active /\ n.started = {} /\ n.cancelled = {} /\ n \in GoalSet
  <2>1. n.started = {} /\ n.cancelled = {}
    BY DEF Good, GoalSet, NoCalls
  <2> QED BY <2>1, NoCallsGood DEF Good
<1>2. r = IF Contention[g] = "cancel" /\ g \in n.active
          THEN ClearPendingGoalsQueue(n) ELSE ResetPendingQueueIfEmpty(a)
  BY DEF GoalsEngine_ActivateGoal
<1> HIDE DEF n, r
<1>3. CASE Contention[g] = "cancel" /\ g \in n.active
  <2>1. r.started = {} /\ r.active = n.active /\ r.cancelled = {}
    BY <1>1, <1>2, <1>3, EmptyCalls
  <2> QED BY <1>1, <2>1 DEF CallsFit, r
<1>4. CASE ~(Contention[g] = "cancel" /\ g \in n.active)
  <2>1. Good(a) /\ CallsFit(n, a, g)
    <3>1. CASE GoalCanRunNow(n, TRUE)
      <4>1. a = StartGoal(n, g) /\ n.active = {}
        BY <3>1 DEF GoalCanRunNow
      <4> HIDE DEF a
      <4>2. Good(a)
        BY <1>1, <4>1, StartGood
      <4>3. a.started = {g} /\ a.active = n.active \cup {g} /\ a.cancelled = {}
        BY <1>1, <4>1, StartCalls
      <4> QED BY <4>1, <4>2, <4>3 DEF CallsFit
    <3>2. CASE ~GoalCanRunNow(n, TRUE) /\ Contention[g] = "cancel"
      <4>1. a = ActivateCancelling(n, g, TRUE, {}) /\ g \notin n.active
        BY <1>4, <3>2
      <4> HIDE DEF a
      <4> QED BY <1>1, <3>2, <4>1, CancellingGood, CancellingCalls
    <3>3. CASE ~GoalCanRunNow(n, TRUE) /\ Contention[g] # "cancel"
      <4>1. a = ActivateOther(n, g, TRUE, {})
        BY <3>3
      <4> HIDE DEF a
      <4> QED BY <1>1, <3>3, <4>1, OtherGood, OtherCalls
    <3> QED BY <3>1, <3>2, <3>3
  <2> HIDE DEF a
  <2>2. r.started = a.started /\ r.active = a.active /\ r.cancelled = a.cancelled
    BY <1>2, <1>4, <2>1, EmptyCalls DEF Good
  <2> QED BY <1>1, <2>1, <2>2 DEF CallsFit, r
<1> QED BY <1>3, <1>4

\* The calls for a decision that comes from the queue: its goal is started.
LEMMA RedeliveryCalls ==
    ASSUME NEW e, Good(e), NEW g \in Goals, Deliverable(e, g)
    PROVE  CallsFit(e, GoalsEngine_ActivateGoal(Taken(e, g), g, FALSE, {}), g)
<1> DEFINE n == [NoCalls(Taken(e, g)) EXCEPT !.count = @ - 1]
           r == GoalsEngine_ActivateGoal(Taken(e, g), g, FALSE, {})
           a == IF GoalCanRunNow(n, FALSE) THEN StartGoal(n, g)
                ELSE IF Contention[g] = "cancel"
                     THEN ActivateCancelling(n, g, FALSE, {})
                     ELSE ActivateOther(n, g, FALSE, {})
<1>1. e.msgs[g] > 0 /\ e.lock[e.on[g]] = {}
  BY DEF Deliverable
<1>2. WaitMask(e, g) = {}
  BY <1>1 DEF Good, Locked
<1>3. Good(n)
  BY <1>1, TakenGood
<1>4. n.active = e.active /\ n.started = {} /\ n.cancelled = {} /\ n \in GoalSet
  BY <1>3 DEF Good, GoalSet, NoCalls, Taken
<1>5. r = IF Contention[g] = "cancel" /\ g \in n.active
          THEN ClearPendingGoalsQueue(n) ELSE ResetPendingQueueIfEmpty(a)
  BY DEF GoalsEngine_ActivateGoal
<1> HIDE DEF n, r
<1>6. ~(Contention[g] = "cancel" /\ g \in n.active)
  BY <1>2, <1>4 DEF WaitMask
<1>7. Good(a) /\ CallsFit(n, a, g)
  <2>1. CASE GoalCanRunNow(n, FALSE)
    <3>1. a = StartGoal(n, g) /\ n.active = {}
      BY <2>1 DEF GoalCanRunNow
    <3> HIDE DEF a
    <3>2. Good(a)
      BY <1>3, <3>1, StartGood
    <3>3. a.started = {g} /\ a.active = n.active \cup {g} /\ a.cancelled = {}
      BY <1>4, <3>1, StartCalls
    <3> QED BY <3>1, <3>2, <3>3 DEF CallsFit
  <2>2. CASE ~GoalCanRunNow(n, FALSE)
    <3>1. Contention[g] = "concurrent"
      BY <1>2, <1>4, <2>2 DEF WaitMask, GoalCanRunNow
    <3>2. a = ActivateOther(n, g, FALSE, {})
      BY <2>2, <3>1
    <3> HIDE DEF a
    <3> QED BY <1>3, <1>4, <3>1, <3>2, OtherGood, OtherCalls
  <2> QED BY <2>1, <2>2
<1> HIDE DEF a
<1>8. r.started = a.started /\ r.active = a.active /\ r.cancelled = a.cancelled
  BY <1>5, <1>6, <1>7, EmptyCalls DEF Good
<1> QED BY <1>4, <1>7, <1>8 DEF CallsFit, r

-----------------------------------------------------------------------------
(* The theorems *)

GoalsInv ==
    /\ Good(gs)
    /\ proc \in [Goals -> {"idle", "running", "cancelling"}]

\* The goal set that a topology creates.
LEMMA CreatedGood == Good(GoalsEngine_CreateGoalSet)
<1> DEFINE r == GoalsEngine_CreateGoalSet
<1>1. ASSUME NEW g \in Goals PROVE 1 \in SlotIds
  <2>1. IsFiniteSet(Goals) /\ Cardinality(Goals) <= Slots /\ Slots \in Nat
    BY GoalsAssumption, SlotsAssumption
  <2>2. Cardinality(Goals) # 0 /\ Cardinality(Goals) \in Nat
    BY <2>1, FS_EmptySet, FS_CardinalityType
  <2> QED BY <2>1, <2>2 DEF SlotIds
<1>2. /\ r \in GoalSet /\ r.msgs = [g \in Goals |-> 0] /\ r.count = 0
      /\ r.id = [s \in SlotIds |-> None] /\ ~r.stray /\ ~r.panic
  BY <1>1 DEF GoalsEngine_CreateGoalSet, GoalSet
<1>3. Covers(r.count, r.msgs)
  BY <1>2, CoversNone
<1> HIDE DEF r
<1>4. Distinct(r) /\ Locked(r)
  BY <1>2 DEF Distinct, Locked
<1>5. Good(r)
  BY <1>2, <1>3, <1>4 DEF Good, Counted
<1> QED BY <1>5 DEF r

\* The initial state satisfies the invariant.
LEMMA GoalsInit == Init => GoalsInv
BY CreatedGood DEF Init, GoalsInv

\* Every step preserves it.
LEMMA GoalsStep == GoalsInv /\ [Next]_vars => GoalsInv'
<1> SUFFICES ASSUME GoalsInv, [Next]_vars PROVE GoalsInv'
  OBVIOUS
<1> USE DEF GoalsInv
<1>1. ASSUME NEW g \in Goals, Decide(g) PROVE GoalsInv'
  <2>1. Good(gs')
    BY <1>1, DecisionGood DEF Decide
  <2>2. proc' \in [Goals -> {"idle", "running", "cancelling"}]
    BY <1>1 DEF Decide, ProceduresCalled
  <2> QED BY <2>1, <2>2
<1>2. ASSUME NEW g \in Goals, Redeliver(g) PROVE GoalsInv'
  <2>1. Good(gs')
    <3>1. PICK sync : /\ Deliverable(gs, g)
                      /\ gs' = GoalsEngine_ActivateGoal(Taken(gs, g), g, FALSE, sync)
      BY <1>2 DEF Redeliver
    <3> QED BY <3>1, RedeliveryGood
  <2>2. proc' \in [Goals -> {"idle", "running", "cancelling"}]
    BY <1>2 DEF Redeliver, ProceduresCalled
  <2> QED BY <2>1, <2>2
<1>3. ASSUME NEW g \in Goals, Ignore(g) PROVE GoalsInv'
  <2>1. Good(Taken(gs, g))
    BY <1>3, TakenGood DEF Ignore, Deliverable
  <2>2. Good(NoCalls(Taken(gs, g)))
    BY <2>1, NoCallsGood
  <2> QED BY <1>3, <2>2 DEF Ignore
<1>4. ASSUME NEW g \in Goals, ProcedureEnds(g) PROVE GoalsInv'
  <2>1. Good(NoCalls(gs))
    BY NoCallsGood
  <2>2. Good(GoalsEngine_ClearGoal(NoCalls(gs), g))
    BY <2>1, ClearGoalGood
  <2> QED BY <1>4, <2>2 DEF ProcedureEnds
<1>5. CASE UNCHANGED vars
  BY <1>5 DEF vars
<1> QED BY <1>1, <1>2, <1>3, <1>4, <1>5 DEF Next

\* The inductive invariant holds in every reachable state.
THEOREM GoalsInvariant == Spec => []GoalsInv
BY GoalsInit, GoalsStep, PTL DEF Spec

\* Whatever the table, the decisions of a goal wait on the goal's own slot,
\* and its lock holds exactly the active goals that it may not run beside:
\* QueueGoal, UpdateQueueMasks and ClearGoal keep every lock up to date.
THEOREM GoalsLocks == Spec => []LocksFollowActiveGoals
<1>1. GoalsInv => LocksFollowActiveGoals
  BY DEF GoalsInv, Good, Locked, LocksFollowActiveGoals
<1> QED BY <1>1, GoalsInvariant, PTL

\* With as many slots as goals the Panic() of a full queue is out of reach,
\* since no goal ever holds two slots.
THEOREM GoalsSlots == Spec => []SlotForEveryGoal
<1>1. GoalsInv => SlotForEveryGoal
  BY DEF GoalsInv, Good, Distinct, SlotForEveryGoal, TypeOK
<1> QED BY <1>1, GoalsInvariant, PTL

\* What ImplementsSchedule says without its fairness.
ScheduleIsKept == Schedule!Init /\ [][Schedule!Next]_Schedule!vars

\* An outcome of a decision is a step of the schedule.
LEMMA OutcomeIsScheduled ==
    ASSUME NEW g \in Goals, Outcome(gs, gs', g)
    PROVE  Schedule!Next
<1>1. CASE RunsAtOnce(gs, gs', g)
  <2>1. Schedule!RunNew(g)
    BY <1>1 DEF RunsAtOnce, GivesWay, Beside,
                Schedule!RunNew, Schedule!Displaced, Schedule!MayRunBeside
  <2> QED BY <2>1 DEF Schedule!Next
<1>2. CASE PutOff(gs, gs', g)
  BY <1>2 DEF PutOff, Schedule!Put, Schedule!Next
<1>3. CASE CancelsAll(gs, gs', g)
  BY <1>3 DEF CancelsAll, Schedule!CancelAll, Schedule!Next
<1>4. CASE Excludes(gs, gs', g)
  BY <1>4 DEF Excludes, Schedule!Exclude, Schedule!Next
<1> QED BY <1>1, <1>2, <1>3, <1>4 DEF Outcome

\* Every step of the engine is a step of the schedule, or leaves it alone.
LEMMA StepIsScheduled ==
    ASSUME GoalsInv, [Next]_vars
    PROVE  [Schedule!Next]_Schedule!vars
<1>1. ASSUME NEW g \in Goals, Decide(g) PROVE Schedule!Next
  <2>1. Outcome(gs, gs', g)
    BY <1>1, DecisionGood DEF Decide, GoalsInv
  <2> QED BY <2>1, OutcomeIsScheduled
<1>2. ASSUME NEW g \in Goals, Redeliver(g) PROVE Schedule!Next
  <2>1. PICK sync : /\ Deliverable(gs, g)
                    /\ gs' = GoalsEngine_ActivateGoal(Taken(gs, g), g, FALSE, sync)
    BY <1>2 DEF Redeliver
  <2>2. Beside(g, gs.active)
    BY <2>1, RedeliveryGood DEF GoalsInv
  <2>3. gs'.active = gs.active \cup {g}
    BY <2>1, RedeliveryGood DEF GoalsInv
  <2>4. gs'.msgs = [gs.msgs EXCEPT ![g] = @ - 1]
    BY <2>1, RedeliveryGood, ZenonT(30) DEF GoalsInv
  <2>5. Schedule!RunWaiting(g)
    BY <2>1, <2>2, <2>3, <2>4
       DEF Deliverable, Beside, Schedule!RunWaiting, Schedule!MayRunBeside
  <2> QED BY <2>5 DEF Schedule!Next
<1>3. ASSUME NEW g \in Goals, Ignore(g) PROVE Schedule!Next
  <2>1. /\ gs.msgs[g] > 0 /\ gs'.active = gs.active
        /\ gs'.msgs = [gs.msgs EXCEPT ![g] = @ - 1]
    BY <1>3 DEF Ignore, Deliverable, NoCalls, Taken, GoalsInv, Good, GoalSet
  <2> QED BY <2>1 DEF Schedule!Discard, Schedule!Next
<1>4. ASSUME NEW g \in Goals, ProcedureEnds(g) PROVE Schedule!Next
  <2>1. gs'.active = gs.active \ {g} /\ gs'.msgs = gs.msgs
    BY <1>4 DEF ProcedureEnds, GoalsEngine_ClearGoal, NoCalls, GoalsInv, Good, GoalSet
  <2> QED BY <2>1 DEF Schedule!Finish, Schedule!Next
<1>5. CASE UNCHANGED vars
  BY <1>5 DEF vars, Schedule!vars
<1> QED BY <1>1, <1>2, <1>3, <1>4, <1>5 DEF Next

\* Whatever the table, the engine with its slots, locks and counter does only
\* what GoalSchedule allows: a goal runs beside others only if it was declared
\* concurrent with them, and no decision is lost or doubled on the way.
THEOREM GoalsRefineSchedule == Spec => ScheduleIsKept
<1>1. Init => Schedule!Init
  BY DEF Init, GoalsEngine_CreateGoalSet, Schedule!Init
<1>2. GoalsInv /\ [Next]_vars => [Schedule!Next]_Schedule!vars
  BY StepIsScheduled
<1> QED BY <1>1, <1>2, GoalsInvariant, PTL DEF Spec, ScheduleIsKept

=============================================================================
