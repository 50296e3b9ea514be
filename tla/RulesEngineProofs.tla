------------------------- MODULE RulesEngineProofs -------------------------
(***************************************************************************)
(* For every table of rules: a rule that is in progress has its decision   *)
(* on its way.  For every table in which a rule needs one event and an     *)
(* event has a rule, as in stereotop_rules_set: an event that is set has a *)
(* rule that is in progress or was deferred.                               *)
(***************************************************************************)
EXTENDS RulesEngine, SequenceTheorems, WellFoundedInduction, TLAPS

Messages == {MessageOf[r] : r \in Rules}

\* A message is among those of a sequence.
Carries(s, m) == \E i \in 1 .. Len(s) : s[i] = m

\* No event has only complete rules: its last rule resets the others.
SomeRuleLeft(e) ==
    \A v \in Events : \E r \in Rules : v \in EventsOf[r] /\ e.status[r] # "complete"

-----------------------------------------------------------------------------
(* The operations but the loop *)

\* Every non-empty set of natural numbers has a least element.
LEMMA LeastNat ==
    ASSUME NEW S \in SUBSET Nat, S # {}
    PROVE  \E x \in S : \A y \in S : x <= y
<1> DEFINE R == {p \in Nat \X Nat : p[1] < p[2]}
<1>1. OpToRel(<, Nat) = R
  BY DEF OpToRel
<1>2. IsWellFoundedOn(R, Nat)
  BY <1>1, NatLessThanWellFounded, Zenon
<1>3. PICK x \in S : \A y \in S : ~ (<<y, x>> \in R)
  <2> HIDE DEF R
  <2> QED BY <1>2, WFMin
<1>4. ASSUME NEW y \in S PROVE x <= y
  <2>1. ~ (<<y, x>> \in R)
    BY <1>3
  <2>2. x \in Nat /\ y \in Nat /\ ~ (y < x)
    BY <2>1
  <2> QED BY <2>2
<1> QED BY <1>4

\* What a sequence carries after it was extended.
LEMMA CarriesAppend ==
    ASSUME NEW M, NEW s \in Seq(M), NEW m \in M
    PROVE  /\ Append(s, m) \in Seq(M)
           /\ Carries(Append(s, m), m)
           /\ \A k : Carries(s, k) => Carries(Append(s, m), k)
<1>1. /\ Len(s) \in Nat /\ Append(s, m) \in Seq(M) /\ Len(Append(s, m)) = Len(s) + 1
      /\ Append(s, m)[Len(s) + 1] = m
      /\ \A i \in 1 .. Len(s) : Append(s, m)[i] = s[i]
  OBVIOUS
<1> DEFINE a == Append(s, m)
<1> HIDE DEF a
<1>2. Carries(a, m)
  BY <1>1 DEF Carries, a
<1>3. ASSUME NEW k, Carries(s, k) PROVE Carries(a, k)
  <2>1. PICK i \in 1 .. Len(s) : s[i] = k
    BY <1>3 DEF Carries
  <2> QED BY <1>1, <2>1 DEF Carries, a
<1> QED BY <1>1, <1>2, <1>3 DEF a

\* What two sequences carry one after the other.
LEMMA CarriesConcat ==
    ASSUME NEW M, NEW s \in Seq(M), NEW t \in Seq(M)
    PROVE  /\ s \o t \in Seq(M)
           /\ \A k : Carries(s, k) \/ Carries(t, k) => Carries(s \o t, k)
<1>1. /\ Len(s) \in Nat /\ Len(t) \in Nat /\ s \o t \in Seq(M)
      /\ Len(s \o t) = Len(s) + Len(t)
      /\ \A i \in 1 .. Len(s) : (s \o t)[i] = s[i]
      /\ \A i \in 1 .. Len(t) : (s \o t)[Len(s) + i] = t[i]
  BY ConcatProperties
<1> DEFINE c == s \o t
<1> HIDE DEF c
<1>2. ASSUME NEW k, Carries(s, k) PROVE Carries(c, k)
  <2>1. PICK i \in 1 .. Len(s) : s[i] = k
    BY <1>2 DEF Carries
  <2> QED BY <1>1, <2>1 DEF Carries, c
<1>3. ASSUME NEW k, Carries(t, k) PROVE Carries(c, k)
  <2>1. PICK i \in 1 .. Len(t) : t[i] = k
    BY <1>3 DEF Carries
  <2>2. Len(s) + i \in 1 .. Len(c) /\ c[Len(s) + i] = k
    BY <1>1, <2>1 DEF c
  <2> QED BY <2>2 DEF Carries
<1> QED BY <1>1, <1>2, <1>3 DEF c

\* A message that is not the first one is among the others.
LEMMA CarriesTail ==
    ASSUME NEW M, NEW s \in Seq(M), s # <<>>
    PROVE  /\ Tail(s) \in Seq(M) /\ Head(s) \in M
           /\ \A k : Carries(s, k) /\ k # Head(s) => Carries(Tail(s), k)
<1>1. /\ Len(s) \in Nat \ {0} /\ Tail(s) \in Seq(M) /\ Head(s) \in M
      /\ Len(Tail(s)) = Len(s) - 1 /\ Head(s) = s[1]
      /\ \A i \in 1 .. Len(s) - 1 : Tail(s)[i] = s[i + 1]
  BY HeadTailProperties
<1> DEFINE t == Tail(s)
<1> HIDE DEF t
<1>2. ASSUME NEW k, Carries(s, k), k # Head(s) PROVE Carries(t, k)
  <2>1. PICK i \in 1 .. Len(s) : s[i] = k
    BY <1>2 DEF Carries
  <2>2. i - 1 \in 1 .. Len(t) /\ t[i - 1] = k
    BY <1>1, <1>2, <2>1 DEF t
  <2> QED BY <2>2 DEF Carries
<1> QED BY <1>1, <1>2 DEF t

\* A reset takes the events away, and forgets how far their rules are.
LEMMA ResetFacts ==
    ASSUME NEW e \in RuleSet, NEW set \in SUBSET Events
    PROVE  /\ RulesEngine_ResetEvent(e, set) \in RuleSet
           /\ RulesEngine_ResetEvent(e, set).events = e.events \ set
           /\ RulesEngine_ResetEvent(e, set).sent = e.sent
           /\ RulesEngine_ResetEvent(e, set).status =
                [r \in Rules |-> IF EventsOf[r] \cap set # {} THEN "not_done"
                                 ELSE e.status[r]]
BY DEF RulesEngine_ResetEvent, RuleSet

\* An update completes rules with one status, and no others come to be in
\* progress.
LEMMA UpdateFacts ==
    ASSUME NEW e \in RuleSet, NEW m, NEW from, NEW set \in SUBSET Events
    PROVE  LET u == RulesEngine_UpdateRuleStatus(e, m, from, set)
           IN  /\ u \in RuleSet
               /\ u.sent = e.sent
               /\ u.events \subseteq e.events
               /\ \A r \in Rules : u.status[r] \in {e.status[r], "complete", "not_done"}
               /\ \A r \in Rules : /\ e.status[r] = from /\ from # "complete"
                                   /\ MessageOf[r] = m /\ EventsOf[r] \cap set # {}
                                   => u.status[r] \in {"complete", "not_done"}
<1> DEFINE hit == {r \in Rules : /\ MessageOf[r] = m
                                 /\ e.status[r] = from
                                 /\ EventsOf[r] \cap set # {}}
           n == [e EXCEPT !.status = [r \in Rules |->
                                         IF r \in hit THEN "complete" ELSE @[r]]]
           open == {r \in Rules : EventsOf[r] \cap set # {} /\ n.status[r] # "complete"}
           over == (UNION {EventsOf[r] : r \in hit}) \ (UNION {EventsOf[r] : r \in open})
           u == RulesEngine_UpdateRuleStatus(e, m, from, set)
<1>1. u = IF over = {} THEN n ELSE RulesEngine_ResetEvent(n, over)
  BY DEF RulesEngine_UpdateRuleStatus
<1>2. /\ n \in RuleSet /\ n.sent = e.sent /\ n.events = e.events
      /\ n.status = [r \in Rules |-> IF r \in hit THEN "complete" ELSE e.status[r]]
  BY DEF RuleSet
<1>3. over \in SUBSET Events
  BY RulesAssumption DEF Rules
<1> HIDE DEF n, open, over, u
<1>4. CASE over = {}
  BY <1>1, <1>2, <1>4 DEF u
<1>5. CASE over # {}
  <2>1. u = RulesEngine_ResetEvent(n, over)
    BY <1>1, <1>5
  <2>2. /\ u \in RuleSet /\ u.events = n.events \ over /\ u.sent = n.sent
        /\ u.status = [r \in Rules |-> IF EventsOf[r] \cap over # {} THEN "not_done"
                                       ELSE n.status[r]]
    BY <1>2, <1>3, <2>1, ResetFacts
  <2> QED BY <1>2, <2>2 DEF u
<1> QED BY <1>4, <1>5


\* In a table with one event per rule, an update leaves every event a rule
\* that is not complete: an event whose last rule completes is reset.
LEMMA UpdateLeavesRule ==
    ASSUME OneEventPerRule, NEW e \in RuleSet, SomeRuleLeft(e),
           NEW m, NEW from, NEW set \in SUBSET Events
    PROVE  LET u == RulesEngine_UpdateRuleStatus(e, m, from, set)
           IN  /\ SomeRuleLeft(u)
               /\ \A v \in u.events, r \in Rules :
                    v \in EventsOf[r] =>
                      \/ u.status[r] = e.status[r]
                      \/ u.status[r] = "complete" /\ e.status[r] = from
               /\ \A r \in Rules, v \in u.events :
                    (/\ e.status[r] = from /\ MessageOf[r] = m
                     /\ v \in set /\ v \in EventsOf[r]) => u.status[r] = "complete"
<1> DEFINE hit == {r \in Rules : /\ MessageOf[r] = m
                                 /\ e.status[r] = from
                                 /\ EventsOf[r] \cap set # {}}
           n == [e EXCEPT !.status = [r \in Rules |->
                                         IF r \in hit THEN "complete" ELSE @[r]]]
           open == {r \in Rules : EventsOf[r] \cap set # {} /\ n.status[r] # "complete"}
           over == (UNION {EventsOf[r] : r \in hit}) \ (UNION {EventsOf[r] : r \in open})
           u == RulesEngine_UpdateRuleStatus(e, m, from, set)
<1>1. u = IF over = {} THEN n ELSE RulesEngine_ResetEvent(n, over)
  BY DEF RulesEngine_UpdateRuleStatus
<1>2. /\ n \in RuleSet /\ n.sent = e.sent /\ n.events = e.events
      /\ n.status = [r \in Rules |-> IF r \in hit THEN "complete" ELSE e.status[r]]
  BY DEF RuleSet
<1>3. over \in SUBSET Events
  BY RulesAssumption DEF Rules
<1>4. \A v, r : v \in over /\ r \in Rules /\ v \in EventsOf[r]
                  => EventsOf[r] \cap over # {}
  OBVIOUS
<1>5. ASSUME NEW v \in Events,
             \A r \in Rules : v \in EventsOf[r] => n.status[r] = "complete"
      PROVE  v \in over
  <2>1. PICK r \in Rules : v \in EventsOf[r] /\ e.status[r] # "complete"
    BY DEF SomeRuleLeft
  <2>2. r \in hit
    BY <1>2, <1>5, <2>1
  <2>3. ASSUME NEW q \in open, v \in EventsOf[q] PROVE FALSE
    BY <1>5, <2>3
  <2> HIDE DEF hit, open
  <2> QED BY <2>1, <2>2, <2>3
<1>6. ASSUME NEW r \in Rules, EventsOf[r] \cap over # {}
      PROVE  EventsOf[r] \subseteq over
  <2>1. PICK v \in Events : EventsOf[r] = {v}
    BY DEF OneEventPerRule
  <2> HIDE DEF over
  <2> QED BY <1>6, <2>1
<1> HIDE DEF n, open, over, u
<1>7. /\ u.events = n.events \ over
      /\ u.status = [r \in Rules |-> IF EventsOf[r] \cap over # {} THEN "not_done"
                                     ELSE n.status[r]]
  <2>1. CASE over = {}
    BY <1>1, <1>2, <2>1 DEF RuleSet
  <2>2. CASE over # {}
    BY <1>1, <1>2, <1>3, <2>2, ResetFacts
  <2> QED BY <2>1, <2>2
<1>8. SomeRuleLeft(u)
  <2> SUFFICES ASSUME NEW v \in Events
               PROVE  \E r \in Rules : v \in EventsOf[r] /\ u.status[r] # "complete"
    BY DEF SomeRuleLeft
  <2>1. CASE v \in over
    <3>1. PICK r \in Rules : v \in EventsOf[r]
      BY DEF OneEventPerRule
    <3>2. u.status[r] = "not_done"
      BY <1>7, <2>1, <3>1
    <3> QED BY <3>1, <3>2
  <2>2. CASE v \notin over
    <3>1. PICK r \in Rules : v \in EventsOf[r] /\ n.status[r] # "complete"
      BY <1>5, <2>2
    <3>2. u.status[r] # "complete"
      BY <1>7, <3>1
    <3> QED BY <3>1, <3>2
  <2> QED BY <2>1, <2>2
<1>9. ASSUME NEW v \in u.events, NEW r \in Rules, v \in EventsOf[r]
      PROVE  u.status[r] = n.status[r]
  <2>1. v \notin over
    BY <1>7
  <2>2. EventsOf[r] \cap over = {}
    BY <1>6, <1>9, <2>1
  <2> QED BY <1>7, <2>2
<1>10. ASSUME NEW v \in u.events, NEW r \in Rules, v \in EventsOf[r]
       PROVE  \/ u.status[r] = e.status[r]
              \/ u.status[r] = "complete" /\ e.status[r] = from
  BY <1>2, <1>9, <1>10
<1>11. ASSUME NEW r \in Rules, NEW v \in u.events, e.status[r] = from,
              MessageOf[r] = m, v \in set, v \in EventsOf[r]
       PROVE  u.status[r] = "complete"
  <2>1. r \in hit
    BY <1>11
  <2> QED BY <1>2, <1>9, <1>11, <2>1
<1>12. \A v \in u.events, r \in Rules : v \in EventsOf[r] =>
          \/ u.status[r] = e.status[r]
          \/ u.status[r] = "complete" /\ e.status[r] = from
  BY <1>10, Zenon
<1>13. \A r \in Rules, v \in u.events :
          (/\ e.status[r] = from /\ MessageOf[r] = m
           /\ v \in set /\ v \in EventsOf[r]) => u.status[r] = "complete"
  BY <1>11, Zenon
<1> QED BY <1>8, <1>12, <1>13, Zenon DEF u

\* A reset of every event leaves no rule complete.
LEMMA ResetLeavesRule ==
    ASSUME OneEventPerRule, NEW e \in RuleSet
    PROVE  SomeRuleLeft(RulesEngine_ResetEvent(e, Events))
<1> DEFINE u == RulesEngine_ResetEvent(e, Events)
<1>1. u.status = [r \in Rules |-> IF EventsOf[r] \cap Events # {} THEN "not_done"
                                  ELSE e.status[r]]
  BY ResetFacts
<1> HIDE DEF u
<1>2. \A v \in Events : \E r \in Rules : v \in EventsOf[r] /\ u.status[r] = "not_done"
  BY <1>1 DEF OneEventPerRule
<1> QED BY <1>2 DEF SomeRuleLeft, u

-----------------------------------------------------------------------------
(***************************************************************************)
(* The loop.  What holds after the first n rules, of the loop's state x    *)
(* and the record e it started from.                                       *)
(***************************************************************************)
LoopState == [e : RuleSet, left : SUBSET Events]

Sends(e, x) ==
    \A r \in Rules : x.e.status[r] = "in_progress" =>
        e.status[r] = "in_progress" \/ Carries(x.e.sent, MessageOf[r])

Serves(n, x) ==
    /\ SomeRuleLeft(x.e)
    /\ \A v \in x.e.events \ x.left :
         \E r \in Rules : v \in EventsOf[r] /\ x.e.status[r] = "in_progress"
    /\ \A v \in x.e.events \cap x.left, r \in 1 .. n :
         v \in EventsOf[r] => x.e.status[r] \in {"complete", "deferred"}

LoopInv(e, n, x) ==
    /\ x \in LoopState
    /\ Sends(e, x)
    /\ OneEventPerRule => Serves(n, x)

\* One turn of the loop.
LEMMA TurnKeeps ==
    ASSUME NEW e, NEW n \in Nat, n + 1 <= Count, NEW x, LoopInv(e, n, x),
           NEW act \in [Rules -> Actions]
    PROVE  LoopInv(e, n + 1, RunRule(x, n + 1, act))
<1> DEFINE k == n + 1
           y == RunRule(x, k, act)
<1>1. /\ k \in Rules /\ Count \in Nat /\ EventsOf[k] \in SUBSET Events
      /\ EventsOf[k] # {} /\ MessageOf[k] \in Messages
  BY RulesAssumption DEF Rules, Messages
<1>2. /\ x.e \in RuleSet /\ x.left \in SUBSET Events
      /\ x.e.status \in [Rules -> {"not_done", "deferred", "in_progress", "complete"}]
      /\ x.e.sent \in Seq(Messages) /\ x.e.events \in SUBSET Events
  BY DEF LoopInv, LoopState, RuleSet, Messages
<1>3. 1 .. n \subseteq Rules /\ \A r \in 1 .. k : r = k \/ r \in 1 .. n
  BY <1>1 DEF Rules
<1>4. act[k] \in {"run", "ignore", "defer"}
  BY <1>1, RulesAssumption
<1>5. Sends(e, x) /\ (OneEventPerRule => Serves(n, x))
  BY DEF LoopInv
<1> HIDE DEF k, y
\* The rule is passed over.
<1>6. CASE ~(EventsOf[k] \subseteq x.left) \/ x.e.status[k] = "complete"
  <2>1. y = x
    BY <1>6 DEF RunRule, y
  <2>2. ASSUME OneEventPerRule PROVE Serves(k, x)
    <3>1. ASSUME NEW v \in x.e.events \cap x.left, NEW r \in 1 .. k, v \in EventsOf[r]
          PROVE  x.e.status[r] \in {"complete", "deferred"}
      <4>1. CASE r \in 1 .. n
        BY <1>5, <2>2, <3>1, <4>1 DEF Serves
      <4>2. CASE r = k
        <5>1. EventsOf[k] = {v}
          BY <1>1, <2>2, <3>1, <4>2 DEF OneEventPerRule
        <5> QED BY <1>6, <3>1, <4>2, <5>1
      <4> QED BY <1>3, <4>1, <4>2
    <3> QED BY <1>5, <2>2, <3>1 DEF Serves
  <2> QED BY <2>1, <2>2 DEF LoopInv, y, k
\* The rule is in progress, or decides to run: its event is served.
<1>7. ASSUME NEW z, z \in LoopState, Sends(e, z),
             z.left = x.left \ EventsOf[k], z.e.events = x.e.events,
             z.e.status = [x.e.status EXCEPT ![k] = "in_progress"],
             x.e.status[k] # "complete", EventsOf[k] \subseteq x.left
      PROVE  LoopInv(e, k, z)
  <2>1. ASSUME OneEventPerRule PROVE Serves(k, z)
    <3>1. SomeRuleLeft(z.e)
      <4> SUFFICES ASSUME NEW v \in Events
                   PROVE  \E r \in Rules : v \in EventsOf[r] /\ z.e.status[r] # "complete"
        BY DEF SomeRuleLeft
      <4>1. PICK r \in Rules : v \in EventsOf[r] /\ x.e.status[r] # "complete"
        BY <1>5, <2>1 DEF Serves, SomeRuleLeft
      <4>2. z.e.status[r] # "complete"
        BY <1>2, <1>7, <4>1
      <4> QED BY <4>1, <4>2
    <3>2. ASSUME NEW v \in z.e.events \ z.left
          PROVE  \E r \in Rules : v \in EventsOf[r] /\ z.e.status[r] = "in_progress"
      <4>1. CASE v \in EventsOf[k]
        <5>1. z.e.status[k] = "in_progress"
          BY <1>1, <1>2, <1>7
        <5> QED BY <1>1, <4>1, <5>1
      <4>2. CASE v \notin EventsOf[k]
        <5>1. PICK r \in Rules : v \in EventsOf[r] /\ x.e.status[r] = "in_progress"
          BY <1>5, <1>7, <2>1, <3>2, <4>2 DEF Serves
        <5>2. z.e.status[r] = "in_progress"
          BY <1>2, <1>7, <5>1
        <5> QED BY <5>1, <5>2
      <4> QED BY <4>1, <4>2
    <3>3. ASSUME NEW v \in z.e.events \cap z.left, NEW r \in 1 .. k, v \in EventsOf[r]
          PROVE  z.e.status[r] \in {"complete", "deferred"}
      <4>1. r # k /\ v \in x.e.events \cap x.left
        BY <1>7, <3>3
      <4>2. r \in 1 .. n /\ r \in Rules
        BY <1>3, <4>1
      <4>3. x.e.status[r] \in {"complete", "deferred"}
        BY <1>5, <2>1, <3>3, <4>1, <4>2 DEF Serves
      <4> QED BY <1>2, <1>7, <4>1, <4>2, <4>3
    <3> QED BY <3>1, <3>2, <3>3 DEF Serves
  <2> QED BY <1>7, <2>1 DEF LoopInv
<1>8. CASE /\ EventsOf[k] \subseteq x.left /\ x.e.status[k] = "in_progress"
  <2> DEFINE z == [x EXCEPT !.left = @ \ EventsOf[k]]
  <2>1. y = z
    BY <1>8 DEF RunRule, y
  <2>2. /\ z \in LoopState /\ z.e = x.e /\ z.left = x.left \ EventsOf[k]
    BY DEF LoopInv, LoopState
  <2> HIDE DEF z
  <2>3. Sends(e, z)
    BY <1>5, <2>2 DEF Sends
  <2>4. z.e.status = [x.e.status EXCEPT ![k] = "in_progress"]
    BY <1>1, <1>2, <1>8, <2>2
  <2>5. LoopInv(e, k, z)
    BY <1>7, <1>8, <2>2, <2>3, <2>4
  <2> QED BY <2>1, <2>5 DEF y, k
<1>9. CASE /\ EventsOf[k] \subseteq x.left
           /\ x.e.status[k] \notin {"complete", "in_progress"} /\ act[k] = "run"
  <2> DEFINE z == [x EXCEPT !.e.status[k] = "in_progress",
                            !.e.sent = Append(@, MessageOf[k]),
                            !.left = @ \ EventsOf[k]]
  <2>1. y = z
    BY <1>9 DEF RunRule, y
  <2>2. /\ z.e.events = x.e.events /\ z.left = x.left \ EventsOf[k]
        /\ z.e.status = [x.e.status EXCEPT ![k] = "in_progress"]
        /\ z.e.sent = Append(x.e.sent, MessageOf[k])
    BY DEF LoopInv, LoopState, RuleSet
  <2>7. z = [e |-> z.e, left |-> z.left]
    <3> DEFINE a == [x.e EXCEPT !.status[k] = "in_progress",
                                !.sent = Append(@, MessageOf[k])]
               b == x.left \ EventsOf[k]
    <3>1. z = [x EXCEPT !.e = a, !.left = b]
      BY DEF LoopInv, LoopState
    <3> HIDE DEF a, b, z
    <3> QED BY <3>1 DEF LoopInv, LoopState
  <2>8. z.e = [events |-> z.e.events, status |-> z.e.status, sent |-> z.e.sent]
    BY DEF LoopInv, LoopState, RuleSet
  <2> HIDE DEF z
  <2>3. /\ Append(x.e.sent, MessageOf[k]) \in Seq(Messages)
        /\ Carries(Append(x.e.sent, MessageOf[k]), MessageOf[k])
        /\ \A c : Carries(x.e.sent, c) => Carries(Append(x.e.sent, MessageOf[k]), c)
    BY <1>1, <1>2, CarriesAppend
  <2>4. z \in LoopState
    <3>1. /\ z.e.events \in SUBSET Events /\ z.left \in SUBSET Events
          /\ z.e.status \in [Rules -> {"not_done", "deferred", "in_progress", "complete"}]
          /\ z.e.sent \in Seq(Messages)
      BY <1>2, <2>2, <2>3
    <3>2. z.e \in RuleSet
      BY <2>8, <3>1 DEF RuleSet, Messages
    <3> QED BY <2>7, <3>1, <3>2 DEF LoopState
  <2>5. Sends(e, z)
    <3> SUFFICES ASSUME NEW r \in Rules, z.e.status[r] = "in_progress"
                 PROVE  e.status[r] = "in_progress" \/ Carries(z.e.sent, MessageOf[r])
      BY DEF Sends
    <3>1. CASE r = k
      BY <2>2, <2>3, <3>1
    <3>2. CASE r # k
      BY <1>2, <1>5, <2>2, <2>3, <3>2 DEF Sends
    <3> QED BY <3>1, <3>2
  <2>6. LoopInv(e, k, z)
    BY <1>7, <1>9, <2>2, <2>4, <2>5
  <2> QED BY <2>1, <2>6 DEF y, k
\* The rule is ignored: it is complete, and with it the rules of its event
\* that have its status and its message.
<1>10. CASE /\ EventsOf[k] \subseteq x.left
            /\ x.e.status[k] \notin {"complete", "in_progress"} /\ act[k] = "ignore"
  <2> DEFINE u == RulesEngine_UpdateRuleStatus(
                      x.e, MessageOf[k], x.e.status[k], EventsOf[k])
             z == [x EXCEPT !.e = u]
  <2>1. y = z
    BY <1>10 DEF RunRule, y
  <2>2. /\ u \in RuleSet /\ u.sent = x.e.sent /\ u.events \subseteq x.e.events
        /\ \A r \in Rules : u.status[r] \in {x.e.status[r], "complete", "not_done"}
    BY <1>1, <1>2, UpdateFacts
  <2>3. ASSUME OneEventPerRule
        PROVE  /\ SomeRuleLeft(u)
               /\ \A v \in u.events, r \in Rules :
                    v \in EventsOf[r] =>
                      \/ u.status[r] = x.e.status[r]
                      \/ u.status[r] = "complete" /\ x.e.status[r] = x.e.status[k]
               /\ \A r \in Rules, v \in u.events :
                    (/\ x.e.status[r] = x.e.status[k] /\ MessageOf[r] = MessageOf[k]
                     /\ v \in EventsOf[k] /\ v \in EventsOf[r])
                    => u.status[r] = "complete"
    <3>1. SomeRuleLeft(x.e)
      BY <1>5, <2>3 DEF Serves
    <3> QED BY <1>1, <1>2, <2>3, <3>1, UpdateLeavesRule
  <2> HIDE DEF u
  <2>4. z \in LoopState /\ z.e = u /\ z.left = x.left
    BY <2>2 DEF LoopInv, LoopState
  <2> HIDE DEF z
  <2>5. Sends(e, z)
    BY <1>5, <2>2, <2>4 DEF Sends
  <2>6. ASSUME OneEventPerRule PROVE Serves(k, z)
    <3>1. ASSUME NEW v \in z.e.events \ z.left
          PROVE  \E r \in Rules : v \in EventsOf[r] /\ z.e.status[r] = "in_progress"
      <4>1. PICK r \in Rules : v \in EventsOf[r] /\ x.e.status[r] = "in_progress"
        BY <1>5, <2>2, <2>4, <2>6 DEF Serves
      <4>2. z.e.status[r] = "in_progress"
        BY <1>10, <2>3, <2>4, <2>6, <4>1
      <4> QED BY <4>1, <4>2
    <3>2. ASSUME NEW v \in z.e.events \cap z.left, NEW r \in 1 .. k, v \in EventsOf[r]
          PROVE  z.e.status[r] \in {"complete", "deferred"}
      <4>1. CASE r = k
        BY <1>1, <2>3, <2>4, <2>6, <3>2, <4>1
      <4>2. CASE r \in 1 .. n
        <5>1. r \in Rules /\ v \in x.e.events \cap x.left
          BY <1>3, <2>2, <2>4, <3>2, <4>2
        <5>2. x.e.status[r] \in {"complete", "deferred"}
          BY <1>5, <2>6, <3>2, <4>2, <5>1 DEF Serves
        <5> QED BY <2>3, <2>4, <2>6, <3>2, <5>1, <5>2
      <4> QED BY <1>3, <4>1, <4>2
    <3> QED BY <2>3, <2>4, <2>6, <3>1, <3>2 DEF Serves
  <2>7. LoopInv(e, k, z)
    BY <2>4, <2>5, <2>6 DEF LoopInv
  <2> QED BY <2>1, <2>7 DEF y, k
\* The rule is deferred.
<1>11. CASE /\ EventsOf[k] \subseteq x.left
            /\ x.e.status[k] \notin {"complete", "in_progress"} /\ act[k] = "defer"
  <2> DEFINE z == [x EXCEPT !.e.status[k] = "deferred"]
  <2>1. y = z
    BY <1>11 DEF RunRule, y
  <2>2. /\ z \in LoopState /\ z.e.events = x.e.events /\ z.left = x.left
        /\ z.e.status = [x.e.status EXCEPT ![k] = "deferred"]
        /\ z.e.sent = x.e.sent
    BY <1>1 DEF LoopInv, LoopState, RuleSet
  <2> HIDE DEF z
  <2>3. Sends(e, z)
    BY <1>2, <1>5, <2>2 DEF Sends
  <2>4. ASSUME OneEventPerRule PROVE Serves(k, z)
    <3>1. SomeRuleLeft(z.e)
      <4> SUFFICES ASSUME NEW v \in Events
                   PROVE  \E r \in Rules : v \in EventsOf[r] /\ z.e.status[r] # "complete"
        BY DEF SomeRuleLeft
      <4>1. PICK r \in Rules : v \in EventsOf[r] /\ x.e.status[r] # "complete"
        BY <1>5, <2>4 DEF Serves, SomeRuleLeft
      <4>2. z.e.status[r] # "complete"
        BY <1>2, <2>2, <4>1
      <4> QED BY <4>1, <4>2
    <3>2. ASSUME NEW v \in z.e.events \ z.left
          PROVE  \E r \in Rules : v \in EventsOf[r] /\ z.e.status[r] = "in_progress"
      <4>1. PICK r \in Rules : v \in EventsOf[r] /\ x.e.status[r] = "in_progress"
        BY <1>5, <2>2, <2>4, <3>2 DEF Serves
      <4>2. z.e.status[r] = "in_progress"
        BY <1>2, <1>11, <2>2, <4>1
      <4> QED BY <4>1, <4>2
    <3>3. ASSUME NEW v \in z.e.events \cap z.left, NEW r \in 1 .. k, v \in EventsOf[r]
          PROVE  z.e.status[r] \in {"complete", "deferred"}
      <4>1. CASE r = k
        BY <1>1, <1>2, <2>2, <4>1
      <4>2. CASE r \in 1 .. n /\ r # k
        <5>1. r \in Rules /\ x.e.status[r] \in {"complete", "deferred"}
          BY <1>3, <1>5, <2>2, <2>4, <3>3, <4>2 DEF Serves
        <5> QED BY <1>2, <2>2, <4>2, <5>1
      <4> QED BY <1>3, <4>1, <4>2
    <3> QED BY <3>1, <3>2, <3>3 DEF Serves
  <2>5. LoopInv(e, k, z)
    BY <2>2, <2>3, <2>4 DEF LoopInv
  <2> QED BY <2>1, <2>5 DEF y, k
<1> QED BY <1>4, <1>6, <1>8, <1>9, <1>10, <1>11


(***************************************************************************)
(* The first n turns as a function, which the module defines recursively.  *)
(* That there is such a function, and that it keeps the invariant of the   *)
(* loop, is shown for the least n for which it would fail.                 *)
(***************************************************************************)
IsRun(f, e, act, n) ==
    f = [i \in 0 .. n |-> IF i = 0 THEN [e |-> e, left |-> e.events]
                          ELSE RunRule(f[i - 1], i, act)]

\* The loop has a result.
LEMMA RunExists ==
    ASSUME NEW e, NEW act, NEW n \in Nat
    PROVE  \E f : IsRun(f, e, act, n)
<1> DEFINE bad == {m \in Nat : ~ \E f : IsRun(f, e, act, m)}
<1> SUFFICES ASSUME bad # {} PROVE FALSE
  OBVIOUS
<1>1. PICK m \in bad : \A k \in bad : m <= k
  <2> HIDE DEF bad
  <2>1. bad \in SUBSET Nat
    BY DEF bad
  <2> QED BY <2>1, LeastNat
<1>2. CASE m = 0
  <2> DEFINE f == [i \in 0 .. 0 |-> [e |-> e, left |-> e.events]]
  <2>1. IsRun(f, e, act, 0)
    BY DEF IsRun
  <2> QED BY <1>1, <1>2, <2>1
<1>3. CASE m # 0
  <2>1. m \in Nat /\ m - 1 \in Nat /\ m - 1 \notin bad
    BY <1>1, <1>3
  <2>2. PICK f : IsRun(f, e, act, m - 1)
    BY <2>1
  <2> DEFINE last == RunRule(f[m - 1], m, act)
             g == [i \in 0 .. m |-> IF i = m THEN last ELSE f[i]]
  <2>3. ASSUME NEW i \in 0 .. m
        PROVE  g[i] = IF i = 0 THEN [e |-> e, left |-> e.events]
                      ELSE RunRule(g[i - 1], i, act)
    <3>1. CASE i = m
      <4>1. g[m] = last /\ g[m - 1] = f[m - 1]
        <5> HIDE DEF last
        <5> QED BY <1>3, <2>1
      <4> QED BY <1>3, <3>1, <4>1
    <3>2. CASE i # m
      <4>1. i \in 0 .. m - 1 /\ (i # 0 => i - 1 \in 0 .. m - 1)
        BY <2>1, <3>2
      <4>2. g[i] = f[i] /\ (i # 0 => g[i - 1] = f[i - 1])
        <5> HIDE DEF last
        <5> QED BY <2>1, <3>2, <4>1
      <4>3. f[i] = IF i = 0 THEN [e |-> e, left |-> e.events]
                   ELSE RunRule(f[i - 1], i, act)
        BY <2>2, <4>1 DEF IsRun
      <4> HIDE DEF g
      <4> QED BY <4>2, <4>3
    <3> QED BY <3>1, <3>2
  <2>4. g = [i \in 0 .. m |-> g[i]]
    OBVIOUS
  <2> HIDE DEF g
  <2>5. g = [i \in 0 .. m |-> IF i = 0 THEN [e |-> e, left |-> e.events]
                              ELSE RunRule(g[i - 1], i, act)]
    BY <2>3, <2>4
  <2>6. IsRun(g, e, act, m)
    BY <2>5 DEF IsRun
  <2> QED BY <1>1, <2>6
<1> QED BY <1>2, <1>3

\* The invariant of the loop holds after every turn.
LEMMA RunKeeps ==
    ASSUME NEW e \in RuleSet, OneEventPerRule => SomeRuleLeft(e),
           NEW act \in [Rules -> Actions], NEW f, IsRun(f, e, act, Count),
           NEW n \in 0 .. Count
    PROVE  LoopInv(e, n, f[n])
<1> DEFINE bad == {m \in 0 .. Count : ~ LoopInv(e, m, f[m])}
<1> SUFFICES ASSUME bad # {} PROVE FALSE
  OBVIOUS
<1>1. Count \in Nat
  BY RulesAssumption
<1>2. PICK m \in bad : \A k \in bad : m <= k
  <2>1. bad \in SUBSET Nat
    BY <1>1
  <2> HIDE DEF bad
  <2> QED BY <2>1, LeastNat
<1>3. m \in 0 .. Count /\ ~ LoopInv(e, m, f[m])
  BY <1>2
<1>4. CASE m = 0
  <2>1. f[0] = [e |-> e, left |-> e.events]
    BY <1>1 DEF IsRun
  <2>2. f[0] \in LoopState /\ f[0].e = e /\ f[0].left = e.events
    BY <2>1 DEF LoopState, RuleSet
  <2>3. Sends(e, f[0])
    BY <2>2 DEF Sends
  <2>4. OneEventPerRule => Serves(0, f[0])
    BY <2>2 DEF Serves
  <2> QED BY <1>3, <1>4, <2>2, <2>3, <2>4 DEF LoopInv
<1>5. CASE m # 0
  <2>1. m - 1 \in Nat /\ m - 1 \in 0 .. Count /\ m - 1 \notin bad /\ (m - 1) + 1 = m
    BY <1>1, <1>2, <1>3, <1>5
  <2>2. LoopInv(e, m - 1, f[m - 1])
    BY <2>1
  <2>3. f[m] = RunRule(f[m - 1], m, act)
    BY <1>3, <1>5 DEF IsRun
  <2>4. LoopInv(e, (m - 1) + 1, RunRule(f[m - 1], (m - 1) + 1, act))
    <3>1. (m - 1) + 1 <= Count
      BY <1>1, <1>3, <2>1
    <3> QED BY <2>1, <2>2, <3>1, TurnKeeps
  <2> QED BY <1>3, <2>1, <2>3, <2>4
<1> QED BY <1>4, <1>5

\* What RulesEngine_Check makes of a set of rules.
LEMMA CheckFacts ==
    ASSUME NEW e \in RuleSet, OneEventPerRule => SomeRuleLeft(e),
           NEW act \in [Rules -> Actions]
    PROVE  LET c == RulesEngine_Check(e, act)
           IN  /\ c \in RuleSet
               /\ \A r \in Rules : c.status[r] = "in_progress" =>
                    e.status[r] = "in_progress" \/ Carries(c.sent, MessageOf[r])
               /\ OneEventPerRule =>
                    /\ SomeRuleLeft(c)
                    /\ \A v \in c.events : \E r \in Rules :
                         v \in EventsOf[r] /\ c.status[r] \in {"in_progress", "deferred"}
<1> DEFINE run == CHOOSE f : IsRun(f, e, act, Count)
           c == RulesEngine_Check(e, act)
<1>1. Count \in Nat /\ Count \in 0 .. Count /\ 1 .. Count = Rules
  BY RulesAssumption DEF Rules
<1>2. c = run[Count].e
  BY DEF RulesEngine_Check, IsRun
<1>3. IsRun(run, e, act, Count)
  BY <1>1, RunExists
<1> HIDE DEF run, c
<1>4. LoopInv(e, Count, run[Count])
  BY <1>1, <1>3, RunKeeps
<1> DEFINE x == run[Count]
<1> HIDE DEF x
<1>5. x \in LoopState /\ Sends(e, x) /\ x.e = c
  BY <1>2, <1>4 DEF LoopInv, x
<1>6. c \in RuleSet
  BY <1>5 DEF LoopState
<1>7. \A r \in Rules : c.status[r] = "in_progress" =>
        e.status[r] = "in_progress" \/ Carries(c.sent, MessageOf[r])
  BY <1>5 DEF Sends
<1>8. ASSUME OneEventPerRule
      PROVE  /\ SomeRuleLeft(c)
             /\ \A v \in c.events : \E r \in Rules :
                  v \in EventsOf[r] /\ c.status[r] \in {"in_progress", "deferred"}
  <2>1. Serves(Count, x)
    BY <1>4, <1>8 DEF LoopInv, x
  <2>2. ASSUME NEW v \in c.events
        PROVE  \E r \in Rules :
                 v \in EventsOf[r] /\ c.status[r] \in {"in_progress", "deferred"}
    <3>1. CASE v \notin x.left
      BY <1>5, <2>1, <3>1 DEF Serves
    <3>2. CASE v \in x.left
      <4>1. v \in Events
        BY <1>6 DEF RuleSet
      <4>2. PICK r \in Rules : v \in EventsOf[r] /\ c.status[r] # "complete"
        BY <1>5, <2>1, <4>1 DEF Serves, SomeRuleLeft
      <4>3. c.status[r] \in {"complete", "deferred"}
        BY <1>1, <1>5, <2>1, <3>2, <4>2 DEF Serves
      <4> QED BY <4>2, <4>3
    <3> QED BY <3>1, <3>2
  <2> QED BY <1>5, <2>1, <2>2 DEF Serves
<1> QED BY <1>6, <1>7, <1>8 DEF c

-----------------------------------------------------------------------------
(* The theorems *)

RulesInv ==
    /\ rs \in RuleSet
    /\ inbox \in Seq(Messages)
    /\ \A r \in Rules : rs.status[r] = "in_progress" => Carries(inbox, MessageOf[r])
    /\ OneEventPerRule => SomeRuleLeft(rs) /\ SetEventIsServed

\* The set of rules that a topology creates.
LEMMA RulesInit == Init => RulesInv
<1> SUFFICES ASSUME Init PROVE RulesInv
  OBVIOUS
<1>1. /\ rs \in RuleSet /\ rs.status = [r \in Rules |-> "not_done"]
      /\ rs.events = {} /\ inbox \in Seq(Messages)
  BY DEF Init, RulesEngine_CreateRuleSet, RuleSet
<1>2. OneEventPerRule => SomeRuleLeft(rs)
  BY <1>1 DEF OneEventPerRule, SomeRuleLeft
<1> QED BY <1>1, <1>2 DEF RulesInv, SetEventIsServed

\* An operation starts with nothing sent.
LEMMA NothingSent ==
    ASSUME NEW e \in RuleSet
    PROVE  /\ [e EXCEPT !.sent = <<>>] \in RuleSet
           /\ [e EXCEPT !.sent = <<>>].status = e.status
           /\ [e EXCEPT !.sent = <<>>].events = e.events
<1>1. RuleSet = [events : SUBSET Events,
                 status : [Rules -> {"not_done", "deferred", "in_progress", "complete"}],
                 sent   : Seq(Messages)]
  BY DEF RuleSet, Messages
<1>2. <<>> \in Seq(Messages)
  OBVIOUS
<1> DEFINE Q == Seq(Messages)
           n == <<>>
<1> HIDE DEF Q, n
<1>3. n \in Q /\ e \in [events : SUBSET Events,
                 status : [Rules -> {"not_done", "deferred", "in_progress", "complete"}],
                 sent   : Q]
  BY <1>1, <1>2 DEF Q, n
<1>4. /\ [e EXCEPT !.sent = n] \in
            [events : SUBSET Events,
             status : [Rules -> {"not_done", "deferred", "in_progress", "complete"}],
             sent   : Q]
      /\ [e EXCEPT !.sent = n].status = e.status
      /\ [e EXCEPT !.sent = n].events = e.events
  BY <1>3
<1> QED BY <1>1, <1>4 DEF Q, n

\* An event is set.
LEMMA SetEventKeeps ==
    ASSUME RulesInv, NEW act \in [Rules -> Actions], NEW v \in Events, SetEvent(v, act)
    PROVE  RulesInv'
<1> DEFINE e == [rs EXCEPT !.events = @ \cup {v}, !.sent = <<>>]
<1>1. e \in RuleSet /\ e.status = rs.status
  <2> DEFINE d == [rs EXCEPT !.events = @ \cup {v}]
  <2>1. d \in RuleSet /\ d.status = rs.status
    BY DEF RulesInv, RuleSet
  <2>2. e = [d EXCEPT !.sent = <<>>]
    BY DEF RulesInv, RuleSet
  <2> HIDE DEF d, e
  <2> QED BY <2>1, <2>2, NothingSent
<1> HIDE DEF e
<1>2. OneEventPerRule => SomeRuleLeft(e)
  BY <1>1 DEF RulesInv, SomeRuleLeft
<1>3. rs' = RulesEngine_Check(e, act) /\ inbox' = inbox \o rs'.sent
  BY DEF SetEvent, RulesEngine_SetEvent, e
<1>4. /\ rs' \in RuleSet
      /\ \A r \in Rules : rs'.status[r] = "in_progress" =>
           e.status[r] = "in_progress" \/ Carries(rs'.sent, MessageOf[r])
      /\ OneEventPerRule => SomeRuleLeft(rs') /\ SetEventIsServed'
  BY <1>1, <1>2, <1>3, CheckFacts DEF SetEventIsServed
<1>5. rs'.sent \in Seq(Messages) /\ inbox \in Seq(Messages)
  BY <1>4 DEF RulesInv, RuleSet, Messages
<1>6. /\ inbox' \in Seq(Messages)
      /\ \A k : Carries(inbox, k) \/ Carries(rs'.sent, k) => Carries(inbox', k)
  BY <1>3, <1>5, CarriesConcat
<1> QED BY <1>1, <1>4, <1>6 DEF RulesInv

\* A decision is delivered and reported as complete: no rule with its message
\* is in progress any more, so that what was behind it in the queue suffices
\* for the rules that still are.
LEMMA DeliverKeeps ==
    ASSUME RulesInv, NEW act \in [Rules -> Actions], Deliver(act)
    PROVE  RulesInv'
<1> DEFINE m == Head(inbox)
           e == [rs EXCEPT !.sent = <<>>]
           u == RulesEngine_UpdateRuleStatus(e, m, "in_progress", Events)
<1>1. e \in RuleSet /\ e.status = rs.status
  BY NothingSent DEF RulesInv
<1> HIDE DEF e
<1>2. /\ u \in RuleSet
      /\ \A r \in Rules : u.status[r] \in {e.status[r], "complete", "not_done"}
      /\ \A r \in Rules : /\ e.status[r] = "in_progress"
                          /\ MessageOf[r] = m /\ EventsOf[r] \cap Events # {}
                          => u.status[r] \in {"complete", "not_done"}
  BY <1>1, UpdateFacts
<1>3. \A r \in Rules : EventsOf[r] \cap Events # {}
  BY RulesAssumption DEF Rules
<1>4. ASSUME OneEventPerRule PROVE SomeRuleLeft(u)
  <2>1. SomeRuleLeft(e)
    BY <1>1, <1>4 DEF RulesInv, SomeRuleLeft
  <2> QED BY <1>1, <1>4, <2>1, UpdateLeavesRule
<1>5. /\ rs' = RulesEngine_Check(u, act) /\ inbox' = Tail(inbox) \o rs'.sent
      /\ inbox # <<>>
  BY DEF Deliver, RulesEngine_SetRuleComplete, e
<1> HIDE DEF u
<1>6. /\ rs' \in RuleSet
      /\ \A r \in Rules : rs'.status[r] = "in_progress" =>
           u.status[r] = "in_progress" \/ Carries(rs'.sent, MessageOf[r])
      /\ OneEventPerRule => SomeRuleLeft(rs') /\ SetEventIsServed'
  BY <1>2, <1>4, <1>5, CheckFacts DEF SetEventIsServed
<1>7. rs'.sent \in Seq(Messages) /\ inbox \in Seq(Messages)
  BY <1>6 DEF RulesInv, RuleSet, Messages
<1>8. /\ Tail(inbox) \in Seq(Messages)
      /\ \A k : Carries(inbox, k) /\ k # m => Carries(Tail(inbox), k)
  BY <1>5, <1>7, CarriesTail
<1>9. /\ inbox' \in Seq(Messages)
      /\ \A k : Carries(Tail(inbox), k) \/ Carries(rs'.sent, k) => Carries(inbox', k)
  BY <1>5, <1>7, <1>8, CarriesConcat
<1>10. ASSUME NEW r \in Rules, rs'.status[r] = "in_progress"
       PROVE  Carries(inbox', MessageOf[r])
  <2>1. CASE u.status[r] = "in_progress"
    <3>1. e.status[r] = "in_progress" /\ MessageOf[r] # m
      BY <1>2, <1>3, <2>1
    <3>2. Carries(inbox, MessageOf[r])
      BY <1>1, <3>1 DEF RulesInv
    <3> QED BY <1>8, <1>9, <3>1, <3>2
  <2>2. CASE Carries(rs'.sent, MessageOf[r])
    BY <1>9, <2>2
  <2> QED BY <1>6, <1>10, <2>1, <2>2
<1> QED BY <1>6, <1>9, <1>10 DEF RulesInv

\* The events are reset when a topology starts.
LEMMA ResetKeeps ==
    ASSUME RulesInv, ResetEvents
    PROVE  RulesInv'
<1> DEFINE u == RulesEngine_ResetEvent(rs, Events)
<1>1. /\ u \in RuleSet /\ u.events = {}
      /\ u.status = [r \in Rules |-> IF EventsOf[r] \cap Events # {} THEN "not_done"
                                     ELSE rs.status[r]]
  <2>1. rs \in RuleSet /\ rs.events \subseteq Events
    BY DEF RulesInv, RuleSet
  <2> QED BY <2>1, ResetFacts
<1>2. OneEventPerRule => SomeRuleLeft(u)
  BY ResetLeavesRule DEF RulesInv
<1>3. rs' = [u EXCEPT !.sent = <<>>] /\ inbox' = inbox
  BY DEF ResetEvents
<1> HIDE DEF u
<1>4. rs' \in RuleSet /\ rs'.events = {} /\ rs'.status = u.status
  BY <1>1, <1>3, NothingSent
<1>5. OneEventPerRule => SomeRuleLeft(rs') /\ SetEventIsServed'
  BY <1>2, <1>4 DEF SomeRuleLeft, SetEventIsServed
<1> QED BY <1>1, <1>3, <1>4, <1>5 DEF RulesInv

\* The inductive invariant holds in every reachable state.
THEOREM RulesInvariant == Spec => []RulesInv
<1>1. RulesInv /\ [Next]_vars => RulesInv'
  <2> SUFFICES ASSUME RulesInv, [Next]_vars PROVE RulesInv'
    OBVIOUS
  <2>1. CASE Next
    BY <2>1, SetEventKeeps, DeliverKeeps, ResetKeeps DEF Next
  <2>2. CASE UNCHANGED vars
    BY <2>2 DEF vars, RulesInv, SetEventIsServed
  <2> QED BY <2>1, <2>2
<1> QED BY <1>1, RulesInit, PTL DEF Spec

\* Whatever the table, a rule in progress has a decision with its message on
\* its way, although one report completes the rules of several events and a
\* reset forgets decisions that are delivered later.
THEOREM RulesInProgress == Spec => []InProgressIsOnItsWay
<1>1. RulesInv => InProgressIsOnItsWay
  BY DEF RulesInv, InProgressIsOnItsWay, TypeOK, Messages, Carries
<1> QED BY <1>1, RulesInvariant, PTL

\* In every table in which a rule needs one event and every event has a rule,
\* as the tables of the headset do, an event that is set is being served or
\* waits for a deferred rule.
THEOREM RulesServe == OneEventPerRule => (Spec => []SetEventIsServed)
<1>1. OneEventPerRule /\ RulesInv => SetEventIsServed
  BY DEF RulesInv
<1>2. ASSUME OneEventPerRule PROVE RulesInv => SetEventIsServed
  BY <1>1, <1>2
<1>3. ASSUME OneEventPerRule PROVE Spec => []SetEventIsServed
  BY <1>2, <1>3, RulesInvariant, PTL
<1> QED BY <1>3

=============================================================================
