-------------------------- MODULE AppMessagesProofs --------------------------
(***************************************************************************)
(* Proofs about AppMessages, for every set of tasks, identifiers, payloads *)
(* and conditions, every clock and every number of timers: no message is   *)
(* forgotten, none is delivered early, a retained payload is kept, and a   *)
(* task has the latest of the system messages that replace each other.     *)
(***************************************************************************)
EXTENDS AppMessages, SequenceTheorems, WellFoundedInduction, TLAPS

\* A message in the queue has a recipient.
Queued == {m \in AppMessage : m.to # {}}

-----------------------------------------------------------------------------
(* Sequences and the clock *)

\* Every non-empty set of natural numbers has a least element.
LEMMA LeastNat ==
    ASSUME NEW S \in SUBSET Nat, S # {}
    PROVE  \E x \in S : \A y \in S : x <= y
<1> DEFINE R == {p \in Nat \X Nat : p[1] < p[2]}
<1>1. OpToRel(<, Nat) = R
  BY DEF OpToRel
<1>2. IsWellFoundedOn(R, Nat)
  BY <1>1, NatLessThanWellFounded, Zenon
<1>3. PICK x \in S : \A y \in S : ~ (<<y, x>> \in R)
  <2> HIDE DEF R
  <2> QED BY <1>2, WFMin
<1>4. ASSUME NEW y \in S PROVE x <= y
  <2>1. ~ (<<y, x>> \in R)
    BY <1>3
  <2>2. x \in Nat /\ y \in Nat /\ ~ (y < x)
    BY <2>1
  <2> QED BY <2>2
<1> QED BY <1>4

\* An element more in a sequence.
LEMMA InsertAtFacts ==
    ASSUME NEW S, NEW s \in Seq(S), NEW k \in 1 .. Len(s) + 1, NEW m \in S
    PROVE  LET r == InsertAt(s, k, m)
           IN  /\ r \in Seq(S) /\ Len(r) = Len(s) + 1 /\ r[k] = m
               /\ \A i \in 1 .. Len(r) :
                    i # k => r[i] = s[IF i < k THEN i ELSE i - 1]
<1> DEFINE a == SubSeq(s, 1, k - 1)  b == SubSeq(s, k, Len(s))  c == a \o <<m>>
<1>1. Len(s) \in Nat /\ k \in Nat /\ k >= 1 /\ k <= Len(s) + 1
  OBVIOUS
<1>2. /\ a \in Seq(S) /\ Len(a) = k - 1
      /\ \A i \in 1 .. k - 1 : a[i] = s[i]
  <2>1. \A i \in 1 .. k - 1 : s[i] \in S
    BY <1>1
  <2>2. /\ a \in Seq(S) /\ Len(a) = IF 1 <= k - 1 THEN k - 1 - 1 + 1 ELSE 0
        /\ \A i \in 1 .. k - 1 - 1 + 1 : a[i] = s[1 + i - 1]
    BY <1>1, <2>1, SubSeqProperties
  <2> HIDE DEF a
  <2> QED BY <1>1, <2>2
<1>3. /\ b \in Seq(S) /\ Len(b) = Len(s) - k + 1
      /\ \A i \in 1 .. Len(s) - k + 1 : b[i] = s[k + i - 1]
  <2>1. \A i \in k .. Len(s) : s[i] \in S
    BY <1>1
  <2>2. /\ b \in Seq(S) /\ Len(b) = IF k <= Len(s) THEN Len(s) - k + 1 ELSE 0
        /\ \A i \in 1 .. Len(s) - k + 1 : b[i] = s[k + i - 1]
    BY <1>1, <2>1, SubSeqProperties
  <2> HIDE DEF b
  <2> QED BY <1>1, <2>2
<1> HIDE DEF a, b
<1>4. /\ c \in Seq(S) /\ Len(c) = k /\ c[k] = m
      /\ \A i \in 1 .. k - 1 : c[i] = s[i]
  <2>1. <<m>> \in Seq(S) /\ Len(<<m>>) = 1 /\ <<m>>[1] = m
    OBVIOUS
  <2>2. /\ c \in Seq(S) /\ Len(c) = Len(a) + Len(<<m>>)
        /\ \A i \in 1 .. Len(a) + Len(<<m>>) :
             c[i] = IF i <= Len(a) THEN a[i] ELSE <<m>>[i - Len(a)]
    BY <1>2, <2>1, ConcatProperties
  <2>3. Len(c) = k
    BY <1>1, <1>2, <2>1, <2>2
  <2>4. c[k] = m
    BY <1>1, <1>2, <2>1, <2>2
  <2> HIDE DEF c
  <2>5. \A i \in 1 .. k - 1 : c[i] = s[i]
    BY <1>1, <1>2, <2>1, <2>2
  <2> QED BY <2>2, <2>3, <2>4, <2>5
<1> HIDE DEF c
<1>5. PICK r : r = c \o b
  OBVIOUS
<1>6. /\ r \in Seq(S) /\ Len(r) = Len(c) + Len(b)
      /\ \A i \in 1 .. Len(c) + Len(b) :
           r[i] = IF i <= Len(c) THEN c[i] ELSE b[i - Len(c)]
  BY <1>3, <1>4, <1>5, ConcatProperties
<1>7. Len(r) = Len(s) + 1
  BY <1>1, <1>3, <1>4, <1>6
<1>8. r[k] = m
  BY <1>1, <1>3, <1>4, <1>6
<1>9. ASSUME NEW i \in 1 .. Len(r), i # k
      PROVE  r[i] = s[IF i < k THEN i ELSE i - 1]
  <2>1. CASE i < k
    <3>1. r[i] = c[i] /\ c[i] = s[i]
      BY <1>1, <1>4, <1>6, <1>7, <1>3, <2>1
    <3> QED BY <2>1, <3>1
  <2>2. CASE i > k
    <3>1. i - k \in 1 .. Len(s) - k + 1 /\ k + (i - k) - 1 = i - 1
      BY <1>1, <1>7, <2>2
    <3>2. r[i] = b[i - k] /\ b[i - k] = s[k + (i - k) - 1]
      BY <1>1, <1>4, <1>6, <1>7, <1>3, <2>2, <3>1
    <3>3. r[i] = s[i - 1]
      BY <3>1, <3>2
    <3> QED BY <1>1, <2>2, <3>3
  <2>3. i < k \/ i > k
    BY <1>1, <1>7, <1>9
  <2> QED BY <2>1, <2>2, <2>3
<1>10. InsertAt(s, k, m) = r
  BY <1>5 DEF InsertAt, a, b, c
<1> QED BY <1>6, <1>7, <1>8, <1>9, <1>10

\* An element less.
LEMMA RemoveAtFacts ==
    ASSUME NEW S, NEW s \in Seq(S), NEW k \in 1 .. Len(s)
    PROVE  LET r == RemoveAt(s, k)
           IN  /\ r \in Seq(S) /\ Len(r) = Len(s) - 1
               /\ \A i \in 1 .. Len(r) : r[i] = s[IF i < k THEN i ELSE i + 1]
<1> DEFINE a == SubSeq(s, 1, k - 1)  b == SubSeq(s, k + 1, Len(s))
<1>1. Len(s) \in Nat /\ k \in Nat /\ k >= 1 /\ k <= Len(s)
  OBVIOUS
<1>2. /\ a \in Seq(S) /\ Len(a) = k - 1
      /\ \A i \in 1 .. k - 1 : a[i] = s[i]
  <2>1. \A i \in 1 .. k - 1 : s[i] \in S
    BY <1>1
  <2>2. /\ a \in Seq(S) /\ Len(a) = IF 1 <= k - 1 THEN k - 1 - 1 + 1 ELSE 0
        /\ \A i \in 1 .. k - 1 - 1 + 1 : a[i] = s[1 + i - 1]
    BY <1>1, <2>1, SubSeqProperties
  <2> HIDE DEF a
  <2> QED BY <1>1, <2>2
<1>3. /\ b \in Seq(S) /\ Len(b) = Len(s) - k
      /\ \A i \in 1 .. Len(s) - k : b[i] = s[k + i]
  <2>1. \A i \in k + 1 .. Len(s) : s[i] \in S
    BY <1>1
  <2>2. /\ b \in Seq(S)
        /\ Len(b) = IF k + 1 <= Len(s) THEN Len(s) - (k + 1) + 1 ELSE 0
        /\ \A i \in 1 .. Len(s) - (k + 1) + 1 : b[i] = s[(k + 1) + i - 1]
    BY <1>1, <2>1, SubSeqProperties
  <2> HIDE DEF b
  <2>3. Len(b) = Len(s) - k
    BY <1>1, <2>2
  <2>4. ASSUME NEW i \in 1 .. Len(s) - k PROVE b[i] = s[k + i]
    <3>1. i \in 1 .. Len(s) - (k + 1) + 1 /\ (k + 1) + i - 1 = k + i
      BY <1>1
    <3> QED BY <2>2, <3>1
  <2> QED BY <2>2, <2>3, <2>4
<1> HIDE DEF a, b
<1>5. PICK r : r = a \o b
  OBVIOUS
<1>6. /\ r \in Seq(S) /\ Len(r) = Len(a) + Len(b)
      /\ \A i \in 1 .. Len(a) + Len(b) :
           r[i] = IF i <= Len(a) THEN a[i] ELSE b[i - Len(a)]
  BY <1>2, <1>3, <1>5, ConcatProperties
<1>7. Len(r) = Len(s) - 1
  BY <1>1, <1>2, <1>3, <1>6
<1>9. ASSUME NEW i \in 1 .. Len(r)
      PROVE  r[i] = s[IF i < k THEN i ELSE i + 1]
  <2>1. CASE i < k
    <3>1. r[i] = a[i] /\ a[i] = s[i]
      BY <1>1, <1>2, <1>6, <1>7, <1>3, <2>1
    <3> QED BY <2>1, <3>1
  <2>2. CASE ~ (i < k)
    <3>1. i - (k - 1) \in 1 .. Len(s) - k /\ k + (i - (k - 1)) = i + 1
      BY <1>1, <1>7, <2>2
    <3>2. r[i] = b[i - (k - 1)] /\ b[i - (k - 1)] = s[k + (i - (k - 1))]
      BY <1>1, <1>2, <1>6, <1>7, <1>3, <2>2, <3>1
    <3>3. r[i] = s[i + 1]
      BY <3>1, <3>2
    <3> QED BY <2>2, <3>3
  <2> QED BY <2>1, <2>2
<1>10. RemoveAt(s, k) = r
  BY <1>5 DEF RemoveAt, a, b
<1> QED BY <1>6, <1>7, <1>9, <1>10

\* The code's due time of a message is right modulo Wrap, and messages are
\* so near to each other that half the range of the clock separates them.
InTime(m, t) ==
    /\ m.left >= -MaxAge /\ m.left + MaxAge < Wrap \div 2
    /\ \/ m.due - t = m.left
       \/ m.due - t = m.left + Wrap
       \/ m.due - t = m.left - Wrap

\* The clock's range is even and its half exceeds the age of any message.
LEMMA ClockFacts ==
    \E h \in Nat : Wrap = 2 * h /\ Wrap \div 2 = h /\ MaxAge \in Nat /\ MaxAge < h
<1>1. Wrap \in Nat /\ Wrap % 2 = 0 /\ MaxAge \in Nat /\ 0 + MaxAge < Wrap \div 2
  BY ClockAssumption
<1>2. Wrap \div 2 \in Nat /\ Wrap = 2 * (Wrap \div 2)
  BY <1>1
<1> QED BY <1>1, <1>2

\* What is left of a number that is off by one turn of the clock at most.
LEMMA ModFacts ==
    ASSUME NEW W \in Nat, NEW a \in Int, 0 <= a, a < W
    PROVE  a % W = a /\ (a + W) % W = a /\ (a - W) % W = a
  OBVIOUS

\* VM_DIFF finds a difference smaller than half the range of the clock.
LEMMA DiffFacts ==
    ASSUME NEW t \in Int, NEW u \in Int, NEW x \in Int,
           x + Wrap \div 2 > 0, x < Wrap \div 2,
           t - u = x \/ t - u = x + Wrap \/ t - u = x - Wrap
    PROVE  VM_DIFF(t, u) = x
<1>1. PICK h \in Nat : Wrap = 2 * h /\ Wrap \div 2 = h
  BY ClockFacts
<1>2. Wrap \in Nat /\ x + h \in Int /\ 0 <= x + h /\ x + h < Wrap
  BY <1>1
<1>3. /\ (x + h) % Wrap = x + h /\ ((x + h) + Wrap) % Wrap = x + h
      /\ ((x + h) - Wrap) % Wrap = x + h
  BY <1>2, ModFacts
<1>4. \/ t - u + h = x + h \/ t - u + h = (x + h) + Wrap
      \/ t - u + h = (x + h) - Wrap
  BY <1>1, <1>2
<1>5. (t - u + h) % Wrap = x + h
  BY <1>3, <1>4
<1> QED BY <1>1, <1>5 DEF VM_DIFF

\* The code sees the true time until a message is due.
LEMMA DueFacts ==
    ASSUME NEW m \in AppMessage, NEW t \in 0 .. Wrap - 1, InTime(m, t)
    PROVE  VM_DIFF(m.due, t) = m.left
<1>1. PICK h \in Nat : Wrap = 2 * h /\ Wrap \div 2 = h /\ MaxAge \in Nat /\ MaxAge < h
  BY ClockFacts
<1>2. m.due \in Int /\ m.left \in Int /\ t \in Int
  BY <1>1 DEF AppMessage
<1>3. m.left + Wrap \div 2 > 0 /\ m.left < Wrap \div 2
  BY <1>1, <1>2 DEF InTime
<1> QED BY <1>2, <1>3, DiffFacts DEF InTime

\* And the true time between two messages.
LEMMA BetweenFacts ==
    ASSUME NEW m \in AppMessage, NEW n \in AppMessage, NEW t \in 0 .. Wrap - 1,
           InTime(m, t), InTime(n, t)
    PROVE  VM_DIFF(m.due, n.due) = m.left - n.left
<1>1. PICK h \in Nat : Wrap = 2 * h /\ Wrap \div 2 = h /\ MaxAge \in Nat /\ MaxAge < h
  BY ClockFacts
<1>2. /\ m.due \in Int /\ m.left \in Int /\ t \in Int /\ n.due \in Int /\ n.left \in Int
      /\ 0 <= m.due /\ m.due < Wrap /\ 0 <= n.due /\ n.due < Wrap
  BY <1>1 DEF AppMessage
<1> DEFINE x == m.left - n.left
<1>3. x \in Int /\ x + Wrap \div 2 > 0 /\ x < Wrap \div 2
  BY <1>1, <1>2 DEF InTime
<1>4. \/ m.due - n.due = x \/ m.due - n.due = x + Wrap
      \/ m.due - n.due = x - Wrap
  BY <1>1, <1>2, <1>3 DEF InTime
<1> HIDE DEF x
<1>5. VM_DIFF(m.due, n.due) = x
  BY <1>2, <1>3, <1>4, DiffFacts
<1> QED BY <1>5 DEF x

\* A message that is sent.
LEMMA SentInTime ==
    ASSUME NEW t \in 0 .. Wrap - 1, NEW delay \in Delays \cup {0},
           NEW m, m.left = delay, m.due = (t + delay) % Wrap
    PROVE  InTime(m, t) /\ m.due \in 0 .. Wrap - 1
<1>1. PICK h \in Nat : Wrap = 2 * h /\ Wrap \div 2 = h /\ MaxAge \in Nat /\ MaxAge < h
  BY ClockFacts
<1>2. delay \in Nat /\ delay + MaxAge < h /\ t \in Nat /\ t < Wrap
  BY <1>1, ClockAssumption
<1>3. CASE t + delay < Wrap
  <2>1. (t + delay) % Wrap = t + delay
    BY <1>1, <1>2, <1>3, ModFacts, SMTT(30)
  <2> QED BY <1>1, <1>2, <1>3, <2>1 DEF InTime
<1>4. CASE t + delay >= Wrap
  <2>1. t + delay - Wrap \in Int /\ 0 <= t + delay - Wrap /\ t + delay - Wrap < Wrap
    BY <1>1, <1>2, <1>4
  <2>2. ((t + delay - Wrap) + Wrap) % Wrap = t + delay - Wrap
    BY <1>1, <2>1, ModFacts
  <2>3. (t + delay) % Wrap = t + delay - Wrap
    BY <1>1, <1>2, <2>2
  <2> QED BY <1>1, <1>2, <1>4, <2>1, <2>3 DEF InTime
<1> QED BY <1>1, <1>2, <1>3, <1>4

\* A millisecond later.
LEMMA TickInTime ==
    ASSUME NEW t \in 0 .. Wrap - 1, NEW m \in AppMessage, InTime(m, t),
           m.left > -MaxAge,
           NEW n, n.left = m.left - 1, n.due = m.due
    PROVE  InTime(n, (t + 1) % Wrap) /\ (t + 1) % Wrap \in 0 .. Wrap - 1
<1>1. PICK h \in Nat : Wrap = 2 * h /\ Wrap \div 2 = h /\ MaxAge \in Nat /\ MaxAge < h
  BY ClockFacts
<1>2. /\ m.due \in Nat /\ m.due < Wrap /\ m.left \in Int /\ t \in Nat /\ t < Wrap
  BY <1>1 DEF AppMessage
<1>3. CASE t + 1 < Wrap
  <2>1. (t + 1) % Wrap = t + 1
    BY <1>1, <1>2, <1>3, ModFacts
  <2>2. /\ m.left - 1 >= -MaxAge /\ (m.left - 1) + MaxAge < Wrap \div 2
        /\ t + 1 \in 0 .. Wrap - 1
    BY <1>1, <1>2, <1>3 DEF InTime
  <2>3. \/ m.due - (t + 1) = m.left - 1 \/ m.due - (t + 1) = (m.left - 1) + Wrap
        \/ m.due - (t + 1) = (m.left - 1) - Wrap
    BY <1>1, <1>2 DEF InTime
  <2> QED BY <2>1, <2>2, <2>3 DEF InTime
<1>4. CASE t + 1 = Wrap
  <2>1. (0 + Wrap) % Wrap = 0
    BY <1>1, ModFacts
  <2>2. (t + 1) % Wrap = 0
    BY <1>1, <1>4, <2>1
  <2>3. /\ m.left - 1 >= -MaxAge /\ (m.left - 1) + MaxAge < Wrap \div 2
        /\ 0 \in 0 .. Wrap - 1
    BY <1>1, <1>2, <1>4 DEF InTime
  <2>4. m.due - t # m.left + Wrap
    BY <1>1, <1>2, <1>4, <2>3
  <2>5. \/ m.due - 0 = (m.left - 1) + Wrap
        \/ m.due - 0 = m.left - 1
    BY <1>1, <1>2, <1>4, <2>4 DEF InTime
  <2> QED BY <2>2, <2>3, <2>5 DEF InTime
<1> QED BY <1>1, <1>2, <1>3, <1>4

-----------------------------------------------------------------------------
(* The queue *)

\* In the order in which the messages are really due.
Ordered(q) == \A i, j \in 1 .. Len(q) : i < j => q[i].left <= q[j].left

\* No two messages share a payload.
Apart(q) == \A i, j \in 1 .. Len(q) : q[i].ptr = q[j].ptr => i = j

\* A system message that replaces others has one recipient, for which it is
\* the latest unless duplicates were let in.
Told(x, l) == ~x.multi /\ \E u \in Task : x.to = {u} /\ l[u] \in {None, x.id}

\* Two messages that replace each other, and no duplicates were let in.
Rivals(x, y, l) ==
    /\ x.id \in ReplaceId /\ y.id \in ReplaceId /\ x.to = y.to
    /\ \A u \in x.to : l[u] # None

Newest(q, l) ==
    /\ \A i \in 1 .. Len(q) : q[i].id \in ReplaceId => Told(q[i], l)
    /\ \A i, j \in 1 .. Len(q) : Rivals(q[i], q[j], l) => i = j

QueueOk(q, t, l) ==
    /\ q \in Seq(Queued)
    /\ \A i \in 1 .. Len(q) : InTime(q[i], t)
    /\ Ordered(q) /\ Apart(q) /\ Newest(q, l)

(***************************************************************************)
(* r is what is left of the first n messages of q when some have been      *)
(* removed and others have lost recipients; h tells where they were.       *)
(***************************************************************************)
SameBut(a, b) ==
    /\ a.to \subseteq b.to /\ a.multi = b.multi /\ a.id = b.id /\ a.ptr = b.ptr
    /\ a.cond = b.cond /\ a.due = b.due /\ a.left = b.left

Places(h, r, q, n) ==
    /\ \A i \in 1 .. Len(r) : h[i] \in 1 .. n /\ SameBut(r[i], q[h[i]])
    /\ \A i, j \in 1 .. Len(r) : i < j => h[i] < h[j]

Thinned(r, q, n) == r \in Seq(Queued) /\ \E h \in [1 .. Len(r) -> 1 .. n] : Places(h, r, q, n)

\* The payloads of r are payloads of q.
Within(r, q) == \A i \in 1 .. Len(r) : \E j \in 1 .. Len(q) : r[i].ptr = q[j].ptr

\* What is left of a queue is in order.
LEMMA ThinnedOk ==
    ASSUME NEW q, NEW r, NEW t, NEW l, QueueOk(q, t, l), Thinned(r, q, Len(q))
    PROVE  QueueOk(r, t, l) /\ Within(r, q)
<1>1. q \in Seq(Queued) /\ r \in Seq(Queued) /\ Len(q) \in Nat /\ Len(r) \in Nat
  BY DEF QueueOk, Thinned
<1>2. PICK h \in [1 .. Len(r) -> 1 .. Len(q)] : Places(h, r, q, Len(q))
  BY DEF Thinned
<1>3. ASSUME NEW i \in 1 .. Len(r)
      PROVE  h[i] \in 1 .. Len(q) /\ SameBut(r[i], q[h[i]])
  BY <1>2 DEF Places
<1>4. ASSUME NEW i \in 1 .. Len(r), NEW j \in 1 .. Len(r), h[i] = h[j]
      PROVE  i = j
  <2>1. h[i] \in Nat /\ h[j] \in Nat /\ i \in Nat /\ j \in Nat
    BY <1>1, <1>3
  <2>2. ~ (h[i] < h[j]) /\ ~ (h[j] < h[i])
    BY <1>4, <2>1
  <2>3. (i < j => h[i] < h[j]) /\ (j < i => h[j] < h[i])
    BY <1>2 DEF Places
  <2> QED BY <2>1, <2>2, <2>3
<1>5. ASSUME NEW i \in 1 .. Len(r) PROVE InTime(r[i], t)
  <2>1. InTime(q[h[i]], t) /\ r[i].left = q[h[i]].left /\ r[i].due = q[h[i]].due
    BY <1>3 DEF QueueOk, SameBut
  <2> QED BY <2>1 DEF InTime
<1>6. Ordered(r)
  <2> SUFFICES ASSUME NEW i \in 1 .. Len(r), NEW j \in 1 .. Len(r), i < j
               PROVE  r[i].left <= r[j].left
    BY DEF Ordered
  <2>1. h[i] < h[j]
    BY <1>2 DEF Places
  <2>2. q[h[i]].left <= q[h[j]].left
    BY <1>3, <2>1 DEF QueueOk, Ordered
  <2> QED BY <1>3, <2>2 DEF SameBut
<1>7. Apart(r)
  <2> SUFFICES ASSUME NEW i \in 1 .. Len(r), NEW j \in 1 .. Len(r), r[i].ptr = r[j].ptr
               PROVE  i = j
    BY DEF Apart
  <2>1. q[h[i]].ptr = q[h[j]].ptr
    BY <1>3 DEF SameBut
  <2>2. h[i] = h[j]
    BY <1>3, <2>1 DEF QueueOk, Apart
  <2> QED BY <1>4, <2>2
<1>8. ASSUME NEW i \in 1 .. Len(r), r[i].id \in ReplaceId
      PROVE  /\ Told(r[i], l) /\ r[i].to = q[h[i]].to /\ q[h[i]].id \in ReplaceId
  <2>1. /\ h[i] \in 1 .. Len(q) /\ q[h[i]].id = r[i].id /\ q[h[i]].multi = r[i].multi
        /\ r[i].to \subseteq q[h[i]].to
    BY <1>3 DEF SameBut
  <2>2. Told(q[h[i]], l)
    BY <1>8, <2>1 DEF QueueOk, Newest
  <2>3. PICK u \in Task : q[h[i]].to = {u} /\ l[u] \in {None, q[h[i]].id}
    BY <2>2 DEF Told
  <2>4. r[i] \in Queued
    BY <1>1
  <2>5. r[i].to # {}
    BY <2>4 DEF Queued
  <2>6. r[i].to = {u}
    BY <2>1, <2>3, <2>5
  <2> QED BY <1>8, <2>1, <2>2, <2>3, <2>6 DEF Told
<1>9. Newest(r, l)
  <2>1. ASSUME NEW i \in 1 .. Len(r), NEW j \in 1 .. Len(r), Rivals(r[i], r[j], l)
        PROVE  i = j
    <3>1. r[i].id \in ReplaceId /\ r[j].id \in ReplaceId
      BY <2>1 DEF Rivals
    <3>2. Rivals(q[h[i]], q[h[j]], l)
      BY <1>8, <2>1, <3>1 DEF Rivals
    <3>3. h[i] = h[j]
      BY <1>3, <3>2 DEF QueueOk, Newest
    <3> QED BY <1>4, <3>3
  <2> QED BY <1>8, <2>1 DEF Newest
<1>10. ASSUME NEW i \in 1 .. Len(r) PROVE \E j \in 1 .. Len(q) : r[i].ptr = q[j].ptr
  BY <1>3 DEF SameBut
<1> QED BY <1>1, <1>5, <1>6, <1>7, <1>9, <1>10 DEF QueueOk, Within

\* The message that is unlinked for delivery (vm_message_next).
LEMMA RemoveThins ==
    ASSUME NEW q \in Seq(Queued), NEW k \in 1 .. Len(q)
    PROVE  /\ Thinned(RemoveAt(q, k), q, Len(q))
           /\ Apart(q) => \A i \in 1 .. Len(RemoveAt(q, k)) : RemoveAt(q, k)[i].ptr # q[k].ptr
<1>1. PICK r : r = RemoveAt(q, k)
  OBVIOUS
<1>2. /\ r \in Seq(Queued) /\ Len(r) = Len(q) - 1
      /\ \A i \in 1 .. Len(r) : r[i] = q[IF i < k THEN i ELSE i + 1]
  BY <1>1, RemoveAtFacts
<1>3. Len(q) \in Nat /\ k \in Nat /\ k <= Len(q) /\ k >= 1
  OBVIOUS
<1> DEFINE h == [i \in 1 .. Len(r) |-> IF i < k THEN i ELSE i + 1]
<1>4. ASSUME NEW i \in 1 .. Len(r)
      PROVE  h[i] \in 1 .. Len(q) /\ h[i] # k /\ r[i] = q[h[i]]
  BY <1>2, <1>3
<1>5. ASSUME NEW i \in 1 .. Len(r), NEW j \in 1 .. Len(r), i < j
      PROVE  h[i] < h[j]
  BY <1>2, <1>3, <1>5
<1>6. h \in [1 .. Len(r) -> 1 .. Len(q)]
  BY <1>4
<1> HIDE DEF h
<1>7. Places(h, r, q, Len(q))
  BY <1>4, <1>5 DEF Places, SameBut
<1>8. Thinned(r, q, Len(q))
  BY <1>2, <1>6, <1>7 DEF Thinned
<1>9. ASSUME Apart(q), NEW i \in 1 .. Len(r) PROVE r[i].ptr # q[k].ptr
  BY <1>4, <1>9 DEF Apart
<1> QED BY <1>1, <1>8, <1>9

-----------------------------------------------------------------------------
(***************************************************************************)
(* Cancelling.  The walk along the queue: f[n] is what is left of its      *)
(* first n messages.                                                       *)
(***************************************************************************)
Step(q, t, set, n, s) ==
    IF n \in set /\ q[n].to = {t} THEN s
    ELSE Append(s, IF n \in set THEN [q[n] EXCEPT !.to = @ \ {t}] ELSE q[n])

IsWalk(f, q, t, set, n) ==
    f = [i \in 0 .. n |-> IF i = 0 THEN << >> ELSE Step(q, t, set, i, f[i - 1])]

\* The walk comes to its end.
LEMMA WalkExists ==
    ASSUME NEW q, NEW t, NEW set, NEW n \in Nat
    PROVE  \E f : IsWalk(f, q, t, set, n)
<1> DEFINE bad == {m \in Nat : ~ \E f : IsWalk(f, q, t, set, m)}
<1> SUFFICES ASSUME bad # {} PROVE FALSE
  OBVIOUS
<1>1. PICK m \in bad : \A k \in bad : m <= k
  <2> HIDE DEF bad
  <2>1. bad \in SUBSET Nat
    BY DEF bad
  <2> QED BY <2>1, LeastNat
<1>2. CASE m = 0
  <2> DEFINE f == [i \in 0 .. 0 |-> << >>]
  <2>1. IsWalk(f, q, t, set, 0)
    BY DEF IsWalk
  <2> QED BY <1>1, <1>2, <2>1
<1>3. CASE m # 0
  <2>1. m \in Nat /\ m - 1 \in Nat /\ m - 1 \notin bad
    BY <1>1, <1>3
  <2>2. PICK f : IsWalk(f, q, t, set, m - 1)
    BY <2>1
  <2> DEFINE last == Step(q, t, set, m, f[m - 1])
             g == [i \in 0 .. m |-> IF i = m THEN last ELSE f[i]]
  <2>3. ASSUME NEW i \in 0 .. m
        PROVE  g[i] = IF i = 0 THEN << >> ELSE Step(q, t, set, i, g[i - 1])
    <3>1. CASE i = m
      <4>1. g[m] = last /\ g[m - 1] = f[m - 1]
        <5> HIDE DEF last
        <5> QED BY <1>3, <2>1
      <4> QED BY <1>3, <3>1, <4>1
    <3>2. CASE i # m
      <4>1. i \in 0 .. m - 1 /\ (i # 0 => i - 1 \in 0 .. m - 1)
        BY <2>1, <3>2
      <4>2. g[i] = f[i] /\ (i # 0 => g[i - 1] = f[i - 1])
        <5> HIDE DEF last
        <5> QED BY <2>1, <3>2, <4>1
      <4>3. f[i] = IF i = 0 THEN << >> ELSE Step(q, t, set, i, f[i - 1])
        BY <2>2, <4>1 DEF IsWalk
      <4> HIDE DEF g
      <4> QED BY <4>2, <4>3
    <3> QED BY <3>1, <3>2
  <2>4. g = [i \in 0 .. m |-> g[i]]
    OBVIOUS
  <2> HIDE DEF g
  <2>5. g = [i \in 0 .. m |-> IF i = 0 THEN << >> ELSE Step(q, t, set, i, g[i - 1])]
    BY <2>3, <2>4
  <2>6. IsWalk(g, q, t, set, m)
    BY <2>5 DEF IsWalk
  <2> QED BY <1>1, <2>6
<1> QED BY <1>2, <1>3

\* One message further.
LEMMA StepThins ==
    ASSUME NEW q \in Seq(Queued), NEW t, NEW set, NEW n \in 0 .. Len(q) - 1,
           NEW s, Thinned(s, q, n)
    PROVE  Thinned(Step(q, t, set, n + 1, s), q, n + 1)
<1>1. PICK h \in [1 .. Len(s) -> 1 .. n] : Places(h, s, q, n)
  BY DEF Thinned
<1>2. /\ Len(q) \in Nat /\ s \in Seq(Queued) /\ Len(s) \in Nat /\ n \in Nat
      /\ n + 1 \in 1 .. Len(q) /\ q[n + 1] \in Queued
  BY DEF Thinned
<1>3. ASSUME NEW i \in 1 .. Len(s)
      PROVE  h[i] \in 1 .. n /\ SameBut(s[i], q[h[i]])
  BY <1>1 DEF Places
<1>4. CASE n + 1 \in set /\ q[n + 1].to = {t}
  <2>1. h \in [1 .. Len(s) -> 1 .. n + 1]
    BY <1>2, <1>3
  <2>2. Places(h, s, q, n + 1)
    BY <1>1, <1>2, <1>3 DEF Places
  <2> QED BY <1>2, <1>4, <2>1, <2>2 DEF Step, Thinned
<1>5. CASE ~ (n + 1 \in set /\ q[n + 1].to = {t})
  <2> DEFINE old == q[n + 1]
             cut == [old EXCEPT !.to = @ \ {t}]
  <2>1. PICK m : m = IF n + 1 \in set THEN cut ELSE old
    OBVIOUS
  <2>2. m \in Queued /\ SameBut(m, old)
    <3>1. CASE n + 1 \in set
      <4>1. old \in AppMessage /\ old.to # {} /\ old.to # {t} /\ old.to \in SUBSET Task
        BY <1>2, <1>5, <3>1 DEF Queued, AppMessage
      <4>2. cut \in AppMessage /\ cut.to = old.to \ {t}
        BY <4>1 DEF AppMessage
      <4>3. /\ cut.multi = old.multi /\ cut.id = old.id /\ cut.ptr = old.ptr
            /\ cut.cond = old.cond /\ cut.due = old.due /\ cut.left = old.left
        BY <4>1 DEF AppMessage
      <4>4. cut.to # {}
        BY <4>1, <4>2
      <4> HIDE DEF cut
      <4> QED BY <2>1, <3>1, <4>2, <4>3, <4>4 DEF Queued, SameBut
    <3>2. CASE n + 1 \notin set
      BY <1>2, <2>1, <3>2 DEF SameBut
    <3> QED BY <3>1, <3>2
  <2>3. PICK r : r = Append(s, m)
    OBVIOUS
  <2>4. /\ r \in Seq(Queued) /\ Len(r) = Len(s) + 1 /\ r[Len(s) + 1] = m
        /\ \A i \in 1 .. Len(s) : r[i] = s[i]
    BY <1>2, <2>2, <2>3
  <2> DEFINE g == [i \in 1 .. Len(r) |-> IF i = Len(s) + 1 THEN n + 1 ELSE h[i]]
  <2>5. ASSUME NEW i \in 1 .. Len(r)
        PROVE  g[i] \in 1 .. n + 1 /\ SameBut(r[i], q[g[i]])
    <3>1. CASE i = Len(s) + 1
      <4>1. g[i] = n + 1 /\ r[i] = m
        BY <2>4, <3>1
      <4> QED BY <1>2, <2>2, <4>1
    <3>2. CASE i # Len(s) + 1
      <4>1. i \in 1 .. Len(s)
        BY <1>2, <2>4, <3>2
      <4>2. g[i] = h[i] /\ r[i] = s[i]
        BY <2>4, <3>2, <4>1
      <4> QED BY <1>2, <1>3, <4>1, <4>2
    <3> QED BY <3>1, <3>2
  <2>6. ASSUME NEW i \in 1 .. Len(r), NEW j \in 1 .. Len(r), i < j
        PROVE  g[i] < g[j]
    <3>1. i \in 1 .. Len(s) /\ g[i] = h[i] /\ h[i] \in 1 .. n
      BY <1>2, <1>3, <2>4, <2>6
    <3>2. CASE j = Len(s) + 1
      <4>1. g[j] = n + 1
        BY <3>2
      <4> HIDE DEF g
      <4> QED BY <1>2, <3>1, <4>1
    <3>3. CASE j # Len(s) + 1
      <4>1. j \in 1 .. Len(s) /\ g[j] = h[j]
        BY <1>2, <2>4, <3>3
      <4>2. h[i] < h[j]
        BY <1>1, <2>6, <3>1, <4>1 DEF Places
      <4> QED BY <3>1, <4>1, <4>2
    <3> QED BY <3>2, <3>3
  <2>7. g \in [1 .. Len(r) -> 1 .. n + 1]
    BY <2>5
  <2> HIDE DEF g
  <2>8. Places(g, r, q, n + 1)
    BY <2>5, <2>6 DEF Places
  <2>9. Thinned(r, q, n + 1)
    BY <2>4, <2>7, <2>8 DEF Thinned
  <2>10. Step(q, t, set, n + 1, s) = r
    BY <1>5, <2>1, <2>3 DEF Step
  <2> QED BY <2>9, <2>10
<1> QED BY <1>4, <1>5

\* The queue that is left when messages are cancelled or a task is flushed.
LEMMA WithoutThins ==
    ASSUME NEW q \in Seq(Queued), NEW t, NEW set
    PROVE  Thinned(Without(q, t, set), q, Len(q))
<1>1. Len(q) \in Nat
  OBVIOUS
<1> DEFINE f == CHOOSE f : IsWalk(f, q, t, set, Len(q))
<1>2. IsWalk(f, q, t, set, Len(q))
  <2>1. \E g : IsWalk(g, q, t, set, Len(q))
    BY <1>1, WalkExists
  <2> QED BY <2>1
<1>3. Without(q, t, set) = f[Len(q)]
  BY DEF Without, IsWalk, Step
<1> HIDE DEF f
<1> DEFINE bad == {m \in 0 .. Len(q) : ~ Thinned(f[m], q, m)}
<1>4. CASE bad = {}
  <2>1. Len(q) \in 0 .. Len(q) /\ Len(q) \notin bad
    BY <1>1, <1>4
  <2> QED BY <1>3, <2>1
<1>5. CASE bad # {}
  <2>1. PICK m \in bad : \A k \in bad : m <= k
    <3>1. bad \in SUBSET Nat
      BY <1>1
    <3> HIDE DEF bad
    <3> QED BY <1>5, <3>1, LeastNat
  <2>2. m \in 0 .. Len(q) /\ ~ Thinned(f[m], q, m)
    BY <2>1
  <2>3. CASE m = 0
    <3>1. f[0] = << >>
      BY <1>1, <1>2 DEF IsWalk
    <3>2. << >> \in Seq(Queued) /\ Len(<< >>) = 0
      OBVIOUS
    <3> DEFINE h == [i \in 1 .. 0 |-> i]
    <3>3. h \in [1 .. 0 -> 1 .. 0]
      OBVIOUS
    <3>4. Places(h, << >>, q, 0)
      BY <3>2 DEF Places
    <3>5. Thinned(<< >>, q, 0)
      BY <3>2, <3>3, <3>4 DEF Thinned
    <3> QED BY <2>2, <2>3, <3>1, <3>5
  <2>4. CASE m # 0
    <3>1. /\ m - 1 \in 0 .. Len(q) - 1 /\ m - 1 \in 0 .. Len(q) /\ m - 1 \notin bad
          /\ (m - 1) + 1 = m
      BY <1>1, <2>1, <2>2, <2>4
    <3>2. Thinned(f[m - 1], q, m - 1)
      BY <3>1
    <3>3. f[m] = Step(q, t, set, m, f[m - 1])
      BY <1>2, <2>2, <2>4 DEF IsWalk
    <3>4. Thinned(Step(q, t, set, (m - 1) + 1, f[m - 1]), q, (m - 1) + 1)
      BY <3>1, <3>2, StepThins
    <3> QED BY <2>2, <3>1, <3>3, <3>4
  <2> QED BY <2>3, <2>4
<1> QED BY <1>4, <1>5

-----------------------------------------------------------------------------
(* Sending *)

\* Where a message goes: behind those that are due no later.
LEMMA BeforeFacts ==
    ASSUME NEW q, NEW t \in 0 .. Wrap - 1, NEW l, QueueOk(q, t, l),
           NEW m \in Queued, InTime(m, t)
    PROVE  LET n == Before(q, m.due)
           IN  /\ n \in 0 .. Len(q)
               /\ \A i \in 1 .. n : q[i].left <= m.left
               /\ \A i \in n + 1 .. Len(q) : m.left <= q[i].left
<1>1. q \in Seq(Queued) /\ Len(q) \in Nat /\ m \in AppMessage /\ m.left \in Int
  BY DEF QueueOk, Queued, AppMessage
<1>2. ASSUME NEW i \in 1 .. Len(q)
      PROVE  /\ q[i] \in AppMessage /\ q[i].left \in Int
             /\ VM_DIFF(m.due, q[i].due) = m.left - q[i].left
  <2>1. q[i] \in Queued /\ InTime(q[i], t)
    BY <1>1 DEF QueueOk
  <2>2. q[i] \in AppMessage /\ q[i].left \in Int
    BY <2>1 DEF Queued, AppMessage
  <2> QED BY <1>1, <2>1, <2>2, BetweenFacts
<1> DEFINE P(n) == /\ \A i \in 1 .. n : VM_DIFF(m.due, q[i].due) >= 0
                   /\ n = Len(q) \/ VM_DIFF(m.due, q[n + 1].due) < 0
           stop == {k \in 0 .. Len(q) :
                      k = Len(q) \/ VM_DIFF(m.due, q[k + 1].due) < 0}
<1>3. \E n \in 0 .. Len(q) : P(n)
  <2>1. stop \in SUBSET Nat /\ Len(q) \in stop
    BY <1>1
  <2>2. PICK n \in stop : \A k \in stop : n <= k
    <3> HIDE DEF stop
    <3> QED BY <2>1, LeastNat
  <2>3. n \in 0 .. Len(q) /\ n \in Nat
    BY <1>1, <2>2
  <2>4. ASSUME NEW i \in 1 .. n PROVE VM_DIFF(m.due, q[i].due) >= 0
    <3>1. i \in 1 .. Len(q) /\ i - 1 \in 0 .. Len(q) /\ (i - 1) + 1 = i /\ ~ (n <= i - 1)
          /\ i - 1 # Len(q)
      BY <1>1, <2>3
    <3>2. i - 1 \notin stop
      BY <2>2, <3>1
    <3>3. ~ (VM_DIFF(m.due, q[i].due) < 0)
      BY <3>1, <3>2
    <3> QED BY <1>1, <1>2, <3>1, <3>3
  <2>5. n = Len(q) \/ VM_DIFF(m.due, q[n + 1].due) < 0
    BY <2>2
  <2> QED BY <2>3, <2>4, <2>5
<1>4. PICK n : n = Before(q, m.due)
  OBVIOUS
<1>5. n \in 0 .. Len(q) /\ P(n)
  <2>1. n = CHOOSE k \in 0 .. Len(q) : P(k)
    BY <1>4 DEF Before
  <2> HIDE DEF P
  <2> QED BY <1>3, <2>1
<1>6. ASSUME NEW i \in 1 .. n PROVE q[i].left <= m.left
  <2>1. i \in 1 .. Len(q) /\ VM_DIFF(m.due, q[i].due) >= 0
    BY <1>1, <1>5
  <2> QED BY <1>1, <1>2, <2>1
<1>7. ASSUME NEW i \in n + 1 .. Len(q) PROVE m.left <= q[i].left
  <2>1. /\ i \in 1 .. Len(q) /\ n + 1 \in 1 .. Len(q) /\ n # Len(q)
        /\ (i = n + 1 \/ n + 1 < i)
    BY <1>1, <1>5
  <2>2. m.left - q[n + 1].left < 0
    BY <1>2, <1>5, <2>1
  <2>3. q[n + 1].left <= q[i].left
    BY <1>2, <2>1 DEF QueueOk, Ordered
  <2> QED BY <1>1, <1>2, <2>1, <2>2, <2>3
<1> QED BY <1>4, <1>5, <1>6, <1>7

\* A message can be added to the queue.
Addable(q, m, t, l) ==
    /\ m \in Queued /\ InTime(m, t)
    /\ \A i \in 1 .. Len(q) : q[i].ptr # m.ptr
    /\ m.id \in ReplaceId => Told(m, l)
    /\ \A i \in 1 .. Len(q) : ~Rivals(q[i], m, l) /\ ~Rivals(m, q[i], l)

\* It is added where it belongs (insert).
LEMMA InsertOk ==
    ASSUME NEW q, NEW t \in 0 .. Wrap - 1, NEW l, QueueOk(q, t, l),
           NEW m, Addable(q, m, t, l)
    PROVE  /\ QueueOk(insert(q, m), t, l)
           /\ \A i \in 1 .. Len(insert(q, m)) :
                \/ insert(q, m)[i].ptr = m.ptr
                \/ \E j \in 1 .. Len(q) : insert(q, m)[i].ptr = q[j].ptr
<1> DEFINE n == Before(q, m.due)
<1>1. q \in Seq(Queued) /\ Len(q) \in Nat /\ m \in Queued /\ InTime(m, t)
  BY DEF QueueOk, Addable
<1>2. /\ n \in 0 .. Len(q)
      /\ \A i \in 1 .. n : q[i].left <= m.left
      /\ \A i \in n + 1 .. Len(q) : m.left <= q[i].left
  BY <1>1, BeforeFacts
<1>3. CASE n > 0 /\ similar(q[n], m)
  <2>1. insert(q, m) = q
    BY <1>3 DEF insert
  <2> QED BY <2>1
<1>4. CASE ~ (n > 0 /\ similar(q[n], m))
  <2>1. PICK r : r = InsertAt(q, n + 1, m)
    OBVIOUS
  <2>2. insert(q, m) = r
    BY <1>4, <2>1 DEF insert
  <2>3. PICK k : k = n + 1
    OBVIOUS
  <2>4. k \in 1 .. Len(q) + 1 /\ k \in Nat /\ n = k - 1
    BY <1>1, <1>2, <2>3
  <2> HIDE DEF n
  <2>5. /\ r \in Seq(Queued) /\ Len(r) = Len(q) + 1 /\ r[k] = m
        /\ \A i \in 1 .. Len(r) : i # k => r[i] = q[IF i < k THEN i ELSE i - 1]
    <3>1. r = InsertAt(q, k, m)
      BY <2>1, <2>3 DEF n
    <3>2. LET s == InsertAt(q, k, m)
          IN  /\ s \in Seq(Queued) /\ Len(s) = Len(q) + 1 /\ s[k] = m
              /\ \A i \in 1 .. Len(s) : i # k => s[i] = q[IF i < k THEN i ELSE i - 1]
      BY <1>1, <2>4, InsertAtFacts
    <3> QED BY <3>1, <3>2
  <2> DEFINE h == [i \in 1 .. Len(r) |-> IF i < k THEN i ELSE i - 1]
  <2>6. ASSUME NEW i \in 1 .. Len(r), i # k
        PROVE  /\ h[i] \in 1 .. Len(q) /\ r[i] = q[h[i]]
               /\ i < k => h[i] = i /\ h[i] \in 1 .. n
               /\ i > k => h[i] = i - 1 /\ h[i] \in n + 1 .. Len(q)
    BY <1>1, <2>4, <2>5, <2>6
  <2> HIDE DEF h
  <2>7. ASSUME NEW i \in 1 .. Len(r), NEW j \in 1 .. Len(r), i # k, j # k, h[i] = h[j]
        PROVE  i = j
    <3>1. (i < k \/ i > k) /\ (j < k \/ j > k) /\ i \in Nat /\ j \in Nat
      BY <2>4, <2>5, <2>7, <1>1
    <3> QED BY <1>1, <2>4, <2>6, <2>7, <3>1
  <2>8. ASSUME NEW i \in 1 .. Len(r) PROVE InTime(r[i], t)
    <3>1. CASE i = k
      BY <1>1, <2>5, <3>1
    <3>2. CASE i # k
      BY <2>6, <3>2 DEF QueueOk
    <3> QED BY <3>1, <3>2
  <2>9. Ordered(r)
    <3> SUFFICES ASSUME NEW i \in 1 .. Len(r), NEW j \in 1 .. Len(r), i < j
                 PROVE  r[i].left <= r[j].left
      BY DEF Ordered
    <3>1. i \in Nat /\ j \in Nat
      OBVIOUS
    <3>2. CASE i = k
      <4>1. j # k /\ j > k
        BY <2>4, <3>1, <3>2
      <4>2. r[j] = q[h[j]] /\ m.left <= q[h[j]].left
        BY <1>2, <2>6, <4>1
      <4> QED BY <2>5, <3>2, <4>2
    <3>3. CASE j = k
      <4>1. i # k /\ i < k
        BY <2>4, <3>1, <3>3
      <4>2. r[i] = q[h[i]] /\ q[h[i]].left <= m.left
        BY <1>2, <2>6, <4>1
      <4> QED BY <2>5, <3>3, <4>2
    <3>4. CASE i # k /\ j # k
      <4>1. /\ h[i] \in 1 .. Len(q) /\ r[i] = q[h[i]]
            /\ h[j] \in 1 .. Len(q) /\ r[j] = q[h[j]]
        BY <2>6, <3>4
      <4>2. h[i] < h[j]
        <5>1. (i < k \/ i > k) /\ (j < k \/ j > k)
          BY <2>4, <3>1, <3>4
        <5>2. /\ i < k => h[i] = i
              /\ i > k => h[i] = i - 1
              /\ j < k => h[j] = j
              /\ j > k => h[j] = j - 1
          BY <2>6, <3>4
        <5> QED BY <2>4, <3>1, <5>1, <5>2
      <4> QED BY <4>1, <4>2 DEF QueueOk, Ordered
    <3> QED BY <3>2, <3>3, <3>4
  <2>10. Apart(r)
    <3> SUFFICES ASSUME NEW i \in 1 .. Len(r), NEW j \in 1 .. Len(r), r[i].ptr = r[j].ptr
                 PROVE  i = j
      BY DEF Apart
    <3>1. CASE i # k /\ j # k
      <4>1. /\ h[i] \in 1 .. Len(q) /\ r[i] = q[h[i]]
            /\ h[j] \in 1 .. Len(q) /\ r[j] = q[h[j]]
        BY <2>6, <3>1
      <4>2. h[i] = h[j]
        BY <4>1 DEF QueueOk, Apart
      <4> QED BY <2>7, <3>1, <4>2
    <3>2. CASE i = k /\ j # k
      BY <2>5, <2>6, <3>2 DEF Addable
    <3>3. CASE i # k /\ j = k
      BY <2>5, <2>6, <3>3 DEF Addable
    <3> QED BY <3>1, <3>2, <3>3
  <2>11. ASSUME NEW i \in 1 .. Len(r), r[i].id \in ReplaceId
         PROVE  Told(r[i], l)
    <3>1. CASE i = k
      BY <2>5, <2>11, <3>1 DEF Addable
    <3>2. CASE i # k
      <4>1. PICK j \in 1 .. Len(q) : r[i] = q[j]
        BY <2>6, <3>2
      <4> QED BY <2>11, <4>1 DEF QueueOk, Newest
    <3> QED BY <3>1, <3>2
  <2>12. ASSUME NEW i \in 1 .. Len(r), NEW j \in 1 .. Len(r), Rivals(r[i], r[j], l)
         PROVE  i = j
    <3>1. CASE i # k /\ j # k
      <4>1. /\ h[i] \in 1 .. Len(q) /\ r[i] = q[h[i]]
            /\ h[j] \in 1 .. Len(q) /\ r[j] = q[h[j]]
        BY <2>6, <3>1
      <4>2. h[i] = h[j]
        BY <2>12, <4>1 DEF QueueOk, Newest
      <4> QED BY <2>7, <3>1, <4>2
    <3>2. CASE i = k /\ j # k
      BY <2>5, <2>6, <2>12, <3>2 DEF Addable
    <3>3. CASE i # k /\ j = k
      BY <2>5, <2>6, <2>12, <3>3 DEF Addable
    <3> QED BY <3>1, <3>2, <3>3
  <2>13. Newest(r, l)
    BY <2>11, <2>12 DEF Newest
  <2>14. QueueOk(r, t, l)
    BY <2>5, <2>8, <2>9, <2>10, <2>13 DEF QueueOk
  <2>15. ASSUME NEW i \in 1 .. Len(r)
         PROVE  r[i].ptr = m.ptr \/ \E j \in 1 .. Len(q) : r[i].ptr = q[j].ptr
    <3>1. CASE i = k
      BY <2>5, <3>1
    <3>2. CASE i # k
      BY <2>6, <3>2
    <3> QED BY <3>1, <3>2
  <2> QED BY <2>2, <2>14, <2>15
<1> QED BY <1>3, <1>4

\* The table of the latest messages after a system message for task u; open
\* when duplicates are in.
Posted(l, u, id, open) ==
    IF id \notin ReplaceId THEN l ELSE [l EXCEPT ![u] = IF open THEN None ELSE id]

LatestTable == [Task -> ReplaceId \cup {None}]

SystemMessage(m, u) ==
    m \in Queued /\ m.to = {u} /\ m.id \in SystemId /\ ~m.multi

\* What the table says of a task.
LEMMA PostedFacts ==
    ASSUME NEW l \in LatestTable, NEW u \in Task, NEW id \in ReplaceId, NEW open \in BOOLEAN
    PROVE  /\ Posted(l, u, id, open) \in LatestTable
           /\ Posted(l, u, id, open)[u] = IF open THEN None ELSE id
           /\ \A v \in Task : v # u => Posted(l, u, id, open)[v] = l[v]
  BY DEF Posted, LatestTable

\* A message for another task, or one of which no more is claimed.
LEMMA ToldStill ==
    ASSUME NEW l \in LatestTable, NEW n \in LatestTable, NEW x, Told(x, l), NEW u \in Task,
           \A v \in Task : v # u => n[v] = l[v], n[u] = None \/ x.to # {u}
    PROVE  Told(x, n)
<1>1. PICK v \in Task : ~x.multi /\ x.to = {v} /\ l[v] \in {None, x.id}
  BY DEF Told
<1>2. n[v] \in {None, x.id}
  <2>1. CASE v = u
    BY <1>1, <2>1
  <2>2. CASE v # u
    BY <1>1, <2>2
  <2> QED BY <2>1, <2>2
<1> QED BY <1>1, <1>2 DEF Told

\* The message replaces the one in the queue (already, replace).
LEMMA CombinedOk ==
    ASSUME NEW q, NEW t, NEW l \in LatestTable, QueueOk(q, t, l), NEW open \in BOOLEAN,
           NEW u \in Task, NEW m, SystemMessage(m, u), already(q, m) # {},
           open <=> l[u] = None
    PROVE  /\ QueueOk(Combined(q, m), t, Posted(l, u, m.id, open))
           /\ Len(Combined(q, m)) = Len(q)
           /\ \A i \in 1 .. Len(q) :
                /\ Combined(q, m)[i].ptr = q[i].ptr /\ Combined(q, m)[i].left = q[i].left
                /\ Combined(q, m)[i].cond = q[i].cond
<1>1. q \in Seq(Queued) /\ Len(q) \in Nat /\ DOMAIN q = 1 .. Len(q)
  BY DEF QueueOk
<1>2. m \in Queued /\ m.to = {u} /\ m.id \in SystemId /\ ~m.multi
  BY DEF SystemMessage
<1> DEFINE first(k) == \A j \in already(q, m) : k <= j
<1>3. \E k \in already(q, m) : first(k)
  <2>1. already(q, m) \in SUBSET Nat
    BY <1>1 DEF already
  <2> QED BY <2>1, LeastNat
<1>4. PICK k : k = CHOOSE i \in already(q, m) : first(i)
  OBVIOUS
<1>5. k \in already(q, m)
  BY <1>3, <1>4
<1>6. k \in 1 .. Len(q) /\ (similar(q[k], m) \/ replaces(q[k], m))
  BY <1>1, <1>5 DEF already
<1>7. Combined(q, m) = IF similar(q[k], m) THEN q ELSE [q EXCEPT ![k].id = m.id]
  BY <1>4 DEF Combined
<1>8. CASE similar(q[k], m)
  <2>1. m.id \notin ReplaceId
    BY <1>8, SetsAssumption DEF similar
  <2>2. Posted(l, u, m.id, open) = l
    BY <2>1 DEF Posted
  <2> QED BY <1>7, <1>8, <2>2
<1>9. CASE ~similar(q[k], m)
  <2>1. ~q[k].multi /\ q[k].to = {u} /\ q[k].id \in ReplaceId /\ m.id \in ReplaceId
    BY <1>2, <1>6, <1>9 DEF replaces
  <2> DEFINE new == [q[k] EXCEPT !.id = m.id]
  <2>2. q[k] \in AppMessage /\ q[k].to # {} /\ m.id \in Id
    BY <1>1, <1>2, <1>6 DEF Queued, Id
  <2>3. /\ new \in AppMessage /\ new.to = q[k].to /\ new.multi = q[k].multi
        /\ new.id = m.id /\ new.ptr = q[k].ptr /\ new.cond = q[k].cond
        /\ new.due = q[k].due /\ new.left = q[k].left
    BY <2>2 DEF AppMessage
  <2> HIDE DEF new
  <2>4. new \in Queued
    BY <2>2, <2>3 DEF Queued
  <2>5. PICK r : r = [q EXCEPT ![k] = new]
    OBVIOUS
  <2>6. Combined(q, m) = r
    BY <1>7, <1>9, <2>5 DEF new
  <2>7. /\ r \in Seq(Queued) /\ Len(r) = Len(q) /\ r[k] = new
        /\ \A i \in 1 .. Len(q) : i # k => r[i] = q[i]
    BY <1>1, <1>6, <2>4, <2>5
  <2>8. ASSUME NEW i \in 1 .. Len(q)
        PROVE  /\ r[i].to = q[i].to /\ r[i].multi = q[i].multi /\ r[i].ptr = q[i].ptr
               /\ r[i].cond = q[i].cond /\ r[i].due = q[i].due /\ r[i].left = q[i].left
               /\ r[i].id \in ReplaceId <=> q[i].id \in ReplaceId
    <3>1. CASE i = k
      BY <2>1, <2>3, <2>7, <3>1
    <3>2. CASE i # k
      BY <2>7, <3>2
    <3> QED BY <3>1, <3>2
  <2>9. \A i \in 1 .. Len(q) : InTime(r[i], t)
    BY <2>8 DEF QueueOk, InTime
  <2>10. Ordered(r) /\ Apart(r)
    BY <2>7, <2>8 DEF QueueOk, Ordered, Apart
  <2> DEFINE n == Posted(l, u, m.id, open)
  <2>11. /\ n \in LatestTable /\ n[u] = (IF open THEN None ELSE m.id)
         /\ \A v \in Task : v # u => n[v] = l[v]
    BY <2>1, PostedFacts
  <2> HIDE DEF n
  <2>12. ASSUME NEW i \in 1 .. Len(q), r[i].id \in ReplaceId
         PROVE  Told(r[i], n)
    <3>1. CASE i = k
      <4>1. ~r[i].multi /\ r[i].to = {u} /\ r[i].id = m.id
        BY <2>1, <2>3, <2>7, <3>1
      <4>2. n[u] \in {None, m.id}
        BY <2>11
      <4> QED BY <4>1, <4>2 DEF Told
    <3>2. CASE i # k
      <4>1. q[i].id \in ReplaceId /\ r[i] = q[i] /\ Told(q[i], l)
        BY <2>7, <2>8, <2>12, <3>2 DEF QueueOk, Newest
      <4>2. n[u] = None \/ q[i].to # {u}
        <5>1. CASE open
          BY <2>11, <5>1
        <5>2. CASE ~open
          <6>1. ~Rivals(q[i], q[k], l)
            BY <1>6, <3>2 DEF QueueOk, Newest
          <6> QED BY <2>1, <4>1, <5>2, <6>1 DEF Rivals
        <5> QED BY <5>1, <5>2
      <4> QED BY <2>11, <4>1, <4>2, ToldStill
    <3> QED BY <3>1, <3>2
  <2>13. Newest(r, n)
    <3>1. ASSUME NEW i \in 1 .. Len(q), NEW j \in 1 .. Len(q), Rivals(r[i], r[j], n)
          PROVE  i = j
      <4>1. /\ q[i].id \in ReplaceId /\ q[j].id \in ReplaceId /\ q[i].to = q[j].to
            /\ q[i].to = r[i].to /\ \A v \in r[i].to : n[v] # None
        BY <2>8, <3>1 DEF Rivals
      <4>2. Told(q[i], l)
        BY <4>1 DEF QueueOk, Newest
      <4>3. PICK v \in Task : q[i].to = {v}
        BY <4>2 DEF Told
      <4>4. l[v] # None
        BY <2>11, <4>1, <4>3
      <4>5. Rivals(q[i], q[j], l)
        BY <4>1, <4>3, <4>4 DEF Rivals
      <4> QED BY <4>5 DEF QueueOk, Newest
    <3> QED BY <2>7, <2>12, <3>1 DEF Newest
  <2>14. QueueOk(r, t, n)
    BY <2>7, <2>9, <2>10, <2>13 DEF QueueOk
  <2> QED BY <2>6, <2>7, <2>8, <2>14 DEF n
<1> QED BY <1>8, <1>9

\* There is none to replace, or duplicates are let in: the message can be added.
LEMMA PostedOk ==
    ASSUME NEW q, NEW t, NEW l \in LatestTable, QueueOk(q, t, l), NEW open \in BOOLEAN,
           NEW u \in Task, NEW m, SystemMessage(m, u), open \/ already(q, m) = {},
           InTime(m, t), \A i \in 1 .. Len(q) : q[i].ptr # m.ptr
    PROVE  /\ QueueOk(q, t, Posted(l, u, m.id, open))
           /\ Addable(q, m, t, Posted(l, u, m.id, open))
<1>1. q \in Seq(Queued) /\ Len(q) \in Nat /\ DOMAIN q = 1 .. Len(q) /\ Newest(q, l)
  BY DEF QueueOk
<1>2. m \in Queued /\ m.to = {u} /\ m.id \in SystemId /\ ~m.multi
  BY DEF SystemMessage
<1>3. CASE m.id \notin ReplaceId
  <2>1. Posted(l, u, m.id, open) = l
    BY <1>3 DEF Posted
  <2>2. \A i \in 1 .. Len(q) : ~Rivals(q[i], m, l) /\ ~Rivals(m, q[i], l)
    BY <1>3 DEF Rivals
  <2>3. Addable(q, m, t, l)
    BY <1>2, <1>3, <2>2 DEF Addable
  <2> QED BY <2>1, <2>3
<1>4. CASE m.id \in ReplaceId
  <2> DEFINE n == Posted(l, u, m.id, open)
  <2>1. /\ n \in LatestTable /\ n[u] = (IF open THEN None ELSE m.id)
        /\ \A v \in Task : v # u => n[v] = l[v]
    BY <1>4, PostedFacts
  <2> HIDE DEF n
  <2>2. Told(m, n)
    BY <1>2, <2>1 DEF Told
  <2>3. ASSUME NEW i \in 1 .. Len(q), q[i].id \in ReplaceId
        PROVE  Told(q[i], l) /\ Told(q[i], n) /\ (n[u] = None \/ q[i].to # {u})
    <3>1. Told(q[i], l)
      BY <1>1, <2>3 DEF Newest
    <3>2. n[u] = None \/ q[i].to # {u}
      <4>1. CASE open
        BY <2>1, <4>1
      <4>2. CASE ~open
        <5>1. i \notin already(q, m)
          BY <4>2
        <5>2. ~replaces(q[i], m)
          BY <1>1, <5>1 DEF already
        <5> QED BY <1>2, <1>4, <2>3, <3>1, <5>2 DEF replaces, Told
      <4> QED BY <4>1, <4>2
    <3> QED BY <2>1, <3>1, <3>2, ToldStill
  <2>4. ASSUME NEW i \in 1 .. Len(q)
        PROVE  ~Rivals(q[i], m, n) /\ ~Rivals(m, q[i], n)
    <3>1. q[i].id \in ReplaceId => n[u] = None \/ q[i].to # {u}
      BY <2>3
    <3> QED BY <1>2, <3>1 DEF Rivals
  <2>5. ASSUME NEW i \in 1 .. Len(q), NEW j \in 1 .. Len(q), Rivals(q[i], q[j], n)
        PROVE  i = j
    <3>1. q[i].id \in ReplaceId /\ \A v \in q[i].to : n[v] # None
      BY <2>5 DEF Rivals
    <3>2. PICK v \in Task : q[i].to = {v}
      BY <2>3, <3>1 DEF Told
    <3>3. l[v] # None
      BY <2>1, <2>3, <3>1, <3>2
    <3>4. Rivals(q[i], q[j], l)
      BY <2>5, <3>2, <3>3 DEF Rivals
    <3> QED BY <1>1, <3>4 DEF Newest
  <2>6. Newest(q, n)
    BY <2>3, <2>5 DEF Newest
  <2>7. QueueOk(q, t, n)
    BY <2>6 DEF QueueOk
  <2>8. Addable(q, m, t, n)
    BY <1>2, <2>2, <2>4 DEF Addable
  <2> QED BY <2>7, <2>8 DEF n
<1> QED BY <1>3, <1>4

-----------------------------------------------------------------------------
(* Messages that have been delivered *)

Items == [ptr : Ptr, ref : Nat \ {0}]

Bonus(i, busy) == IF i = 1 /\ busy THEN 1 ELSE 0

\* The references to a message are those of the application and that of the
\* delivery in progress.
DeliveredOk(list, h, busy) ==
    /\ list \in Seq(Items) /\ Apart(list)
    /\ \A p \in Ptr : h[p] > 0 => \E i \in 1 .. Len(list) : list[i].ptr = p
    /\ \A i \in 1 .. Len(list) : list[i].ref = h[list[i].ptr] + Bonus(i, busy)
    /\ busy => list # << >>

\* What an item of the list is.
LEMMA ItemFacts ==
    ASSUME NEW list \in Seq(Items), NEW i \in 1 .. Len(list)
    PROVE  list[i] \in Items /\ list[i].ptr \in Ptr /\ list[i].ref \in Nat \ {0}
<1>1. list[i] \in Items
  OBVIOUS
<1> QED BY <1>1 DEF Items

\* A message has one place in the list.
LEMMA PlaceFacts ==
    ASSUME NEW list \in Seq(Items), Apart(list), NEW k \in 1 .. Len(list)
    PROVE  PlaceOf(list, list[k].ptr) = k
<1>1. DOMAIN list = 1 .. Len(list)
  OBVIOUS
<1>2. k \in DOMAIN list /\ \A i \in DOMAIN list : list[i].ptr = list[k].ptr => i = k
  BY <1>1 DEF Apart
<1> QED BY <1>2 DEF PlaceOf

(***************************************************************************)
(* One reference less to the message at place k, of the application or of  *)
(* the delivery: g and now_busy are what they hold afterwards.             *)
(***************************************************************************)
LEMMA ReleaseFacts ==
    ASSUME NEW list, NEW h \in [Ptr -> Nat], NEW busy \in BOOLEAN,
           DeliveredOk(list, h, busy), NEW k \in 1 .. Len(list),
           NEW g \in [Ptr -> Nat], NEW still \in BOOLEAN, k # 1 => (still <=> busy),
           still => busy,
           \A p \in Ptr : p # list[k].ptr => g[p] = h[p],
           g[list[k].ptr] + Bonus(k, still) = h[list[k].ptr] + Bonus(k, busy) - 1
    PROVE  LET r == app_message_release(list, list[k].ptr)
           IN  /\ DeliveredOk(r, g, still) /\ Len(r) <= Len(list)
               /\ \A i \in 1 .. Len(r) : \E j \in 1 .. Len(list) : r[i].ptr = list[j].ptr
<1>1. list \in Seq(Items) /\ Apart(list) /\ Len(list) \in Nat /\ k \in Nat /\ k >= 1
  BY DEF DeliveredOk
<1>2. PICK p : p = list[k].ptr
  OBVIOUS
<1>3. list[k] \in Items /\ p \in Ptr /\ list[k].ref \in Nat \ {0} /\ g[p] \in Nat /\ h[p] \in Nat
  BY <1>1, <1>2, ItemFacts
<1>4. list[k].ref = h[p] + Bonus(k, busy)
  BY <1>2 DEF DeliveredOk
<1>5. PlaceOf(list, p) = k
  BY <1>1, <1>2, PlaceFacts
<1>6. PICK r : r = app_message_release(list, p)
  OBVIOUS
<1>7. r = IF list[k].ref = 1 THEN RemoveAt(list, k) ELSE [list EXCEPT ![k].ref = @ - 1]
  BY <1>5, <1>6 DEF app_message_release, app_message_destroy
<1>8. \A i \in 1 .. Len(list) : list[i] \in Items /\ list[i].ptr \in Ptr /\ list[i].ref \in Nat
  BY <1>1, ItemFacts
<1>9. ASSUME NEW i \in 1 .. Len(list), i # k
      PROVE  /\ list[i].ptr # p /\ g[list[i].ptr] = h[list[i].ptr]
             /\ list[i].ref = g[list[i].ptr] + Bonus(i, still)
  <2>1. list[i].ptr # p
    BY <1>1, <1>2, <1>9 DEF Apart
  <2>2. g[list[i].ptr] = h[list[i].ptr]
    BY <1>2, <1>8, <2>1
  <2>3. Bonus(i, still) = Bonus(i, busy)
    BY <1>9 DEF Bonus
  <2> QED BY <2>1, <2>2, <2>3 DEF DeliveredOk
<1>10. CASE list[k].ref = 1
  <2>1. /\ r \in Seq(Items) /\ Len(r) = Len(list) - 1
        /\ \A i \in 1 .. Len(r) : r[i] = list[IF i < k THEN i ELSE i + 1]
    BY <1>1, <1>7, <1>10, RemoveAtFacts
  <2> DEFINE o == [i \in 1 .. Len(r) |-> IF i < k THEN i ELSE i + 1]
  <2>2. ASSUME NEW i \in 1 .. Len(r)
        PROVE  o[i] \in 1 .. Len(list) /\ o[i] # k /\ r[i] = list[o[i]]
    BY <1>1, <2>1
  <2>3. ASSUME NEW i \in 1 .. Len(r), NEW j \in 1 .. Len(r), o[i] = o[j]
        PROVE  i = j
    BY <1>1, <2>1, <2>3
  <2>4. ASSUME NEW i \in 1 .. Len(list), i # k
        PROVE  \E j \in 1 .. Len(r) : o[j] = i
    <3>1. CASE i < k
      BY <1>1, <2>1, <3>1
    <3>2. CASE i > k
      <4>1. i - 1 \in 1 .. Len(r) /\ ~ (i - 1 < k) /\ (i - 1) + 1 = i
        BY <1>1, <2>1, <3>2
      <4> QED BY <4>1
    <3> QED BY <1>1, <2>4, <3>1, <3>2
  <2>5. g[p] = 0 /\ Bonus(k, still) = 0
    BY <1>2, <1>3, <1>4, <1>10 DEF Bonus
  <2>6. ASSUME NEW i \in 1 .. Len(r) PROVE Bonus(i, still) = Bonus(o[i], still)
    <3>1. CASE still
      <4>1. k # 1
        BY <2>5, <3>1 DEF Bonus
      <4>2. i = 1 <=> o[i] = 1
        BY <1>1, <2>1, <4>1
      <4> QED BY <4>2 DEF Bonus
    <3>2. CASE ~still
      BY <3>2 DEF Bonus
    <3> QED BY <3>1, <3>2
  <2> HIDE DEF o
  <2>7. Apart(r)
    <3> SUFFICES ASSUME NEW i \in 1 .. Len(r), NEW j \in 1 .. Len(r), r[i].ptr = r[j].ptr
                 PROVE  i = j
      BY DEF Apart
    <3>1. /\ o[i] \in 1 .. Len(list) /\ o[j] \in 1 .. Len(list)
          /\ list[o[i]].ptr = list[o[j]].ptr
      BY <2>2
    <3>2. o[i] = o[j]
      BY <1>1, <3>1 DEF Apart
    <3> QED BY <2>3, <3>2
  <2>8. ASSUME NEW x \in Ptr, g[x] > 0 PROVE \E i \in 1 .. Len(r) : r[i].ptr = x
    <3>1. x # p
      BY <2>5, <2>8
    <3>2. h[x] > 0
      BY <1>2, <2>8, <3>1
    <3>3. PICK j \in 1 .. Len(list) : list[j].ptr = x
      BY <3>2 DEF DeliveredOk
    <3>4. j # k
      BY <1>2, <3>1, <3>3
    <3>5. PICK i \in 1 .. Len(r) : o[i] = j
      BY <2>4, <3>4
    <3> QED BY <2>2, <3>3, <3>5
  <2>9. ASSUME NEW i \in 1 .. Len(r) PROVE r[i].ref = g[r[i].ptr] + Bonus(i, still)
    <3>1. o[i] \in 1 .. Len(list) /\ o[i] # k /\ r[i] = list[o[i]]
      BY <2>2
    <3>2. list[o[i]].ref = g[list[o[i]].ptr] + Bonus(o[i], still)
      BY <1>9, <3>1
    <3> QED BY <2>6, <3>1, <3>2
  <2>10. still => r # << >>
    <3>1. SUFFICES ASSUME still PROVE r # << >>
      OBVIOUS
    <3>2. k # 1
      BY <2>5, <3>1 DEF Bonus
    <3>3. Len(r) >= 1
      BY <1>1, <2>1, <3>2
    <3> QED BY <3>3
  <2>11. DeliveredOk(r, g, still)
    BY <2>1, <2>7, <2>8, <2>9, <2>10 DEF DeliveredOk
  <2>12. Len(r) <= Len(list)
    BY <1>1, <2>1
  <2> QED BY <1>2, <1>6, <2>2, <2>11, <2>12
<1>11. CASE list[k].ref # 1
  <2> DEFINE new == [list[k] EXCEPT !.ref = @ - 1]
  <2>1. new \in Items /\ new.ptr = p /\ new.ref = list[k].ref - 1
    BY <1>2, <1>3, <1>11 DEF Items
  <2>2. r = [list EXCEPT ![k] = new]
    BY <1>7, <1>11
  <2> HIDE DEF new
  <2>3. /\ r \in Seq(Items) /\ Len(r) = Len(list) /\ r[k] = new
        /\ \A i \in 1 .. Len(list) : i # k => r[i] = list[i]
    BY <1>1, <2>1, <2>2
  <2>4. ASSUME NEW i \in 1 .. Len(list)
        PROVE  /\ r[i].ptr = list[i].ptr
               /\ r[i].ref = g[r[i].ptr] + Bonus(i, still)
    <3>1. CASE i = k
      <4>1. new.ref = g[p] + Bonus(k, still)
        BY <1>2, <1>3, <1>4, <2>1 DEF Bonus
      <4> QED BY <1>2, <2>1, <2>3, <3>1, <4>1
    <3>2. CASE i # k
      BY <1>9, <2>3, <3>2
    <3> QED BY <3>1, <3>2
  <2>5. Apart(r)
    BY <1>1, <2>3, <2>4 DEF Apart
  <2>6. ASSUME NEW x \in Ptr, g[x] > 0 PROVE \E i \in 1 .. Len(r) : r[i].ptr = x
    <3>1. CASE x = p
      BY <1>2, <2>3, <2>4, <3>1
    <3>2. CASE x # p
      <4>1. h[x] > 0
        BY <1>2, <2>6, <3>2
      <4>2. PICK j \in 1 .. Len(list) : list[j].ptr = x
        BY <4>1 DEF DeliveredOk
      <4> QED BY <2>3, <2>4, <4>2
    <3> QED BY <3>1, <3>2
  <2>7. r # << >>
    <3>1. Len(r) >= 1
      BY <1>1, <2>3
    <3> QED BY <3>1
  <2>8. DeliveredOk(r, g, still)
    BY <2>3, <2>4, <2>5, <2>6, <2>7 DEF DeliveredOk
  <2>9. Len(r) <= Len(list)
    BY <1>1, <2>3
  <2> QED BY <1>2, <1>6, <2>3, <2>4, <2>8, <2>9
<1> QED BY <1>10, <1>11

\* A message that is retained by the handler it is delivered to.
LEMMA RetainFacts ==
    ASSUME NEW list, NEW h \in [Ptr -> Nat], DeliveredOk(list, h, TRUE)
    PROVE  LET r == [list EXCEPT ![1].ref = @ + 1]
           IN  /\ list[1].ptr \in Ptr
               /\ DeliveredOk(r, [h EXCEPT ![list[1].ptr] = @ + 1], TRUE)
               /\ Len(r) = Len(list)
               /\ \A i \in 1 .. Len(r) : r[i].ptr = list[i].ptr
<1>1. list \in Seq(Items) /\ Apart(list) /\ Len(list) \in Nat /\ list # << >>
  BY DEF DeliveredOk
<1>2. 1 \in 1 .. Len(list)
  BY <1>1
<1>3. PICK p : p = list[1].ptr
  OBVIOUS
<1>4. list[1] \in Items /\ p \in Ptr /\ list[1].ref \in Nat \ {0} /\ h[p] \in Nat
  BY <1>1, <1>2, <1>3, ItemFacts
<1> DEFINE new == [list[1] EXCEPT !.ref = @ + 1]
           g == [h EXCEPT ![p] = @ + 1]
<1>5. new \in Items /\ new.ptr = p /\ new.ref = list[1].ref + 1
  BY <1>3, <1>4 DEF Items
<1>6. PICK r : r = [list EXCEPT ![1] = new]
  OBVIOUS
<1>7. r = [list EXCEPT ![1].ref = @ + 1]
  BY <1>6
<1> HIDE DEF new
<1>8. /\ r \in Seq(Items) /\ Len(r) = Len(list) /\ r[1] = new
      /\ \A i \in 1 .. Len(list) : i # 1 => r[i] = list[i]
  BY <1>1, <1>2, <1>5, <1>6
<1>9. g[p] = h[p] + 1 /\ \A x \in Ptr : x # p => g[x] = h[x]
  BY <1>4
<1> HIDE DEF g
<1>10. ASSUME NEW i \in 1 .. Len(list)
       PROVE  r[i].ptr = list[i].ptr /\ r[i].ref = g[r[i].ptr] + Bonus(i, TRUE)
  <2>1. list[i].ref = h[list[i].ptr] + Bonus(i, TRUE) /\ list[i].ptr \in Ptr
    BY <1>1, ItemFacts DEF DeliveredOk
  <2>2. CASE i = 1
    <3>1. list[1].ref = h[p] + Bonus(1, TRUE)
      BY <1>3, <2>1, <2>2
    <3>2. new.ref = g[p] + Bonus(1, TRUE)
      BY <1>4, <1>5, <1>9, <3>1 DEF Bonus
    <3> QED BY <1>3, <1>5, <1>8, <2>2, <3>2
  <2>3. CASE i # 1
    <3>1. list[i].ptr # p
      BY <1>1, <1>2, <1>3, <2>3 DEF Apart
    <3> QED BY <1>8, <1>9, <2>1, <2>3, <3>1
  <2> QED BY <2>2, <2>3
<1>11. Apart(r)
  BY <1>1, <1>8, <1>10 DEF Apart
<1>12. ASSUME NEW x \in Ptr, g[x] > 0 PROVE \E i \in 1 .. Len(r) : r[i].ptr = x
  <2>1. CASE x = p
    BY <1>2, <1>3, <1>8, <1>10, <2>1
  <2>2. CASE x # p
    <3>1. PICK j \in 1 .. Len(list) : list[j].ptr = x
      BY <1>9, <1>12, <2>2 DEF DeliveredOk
    <3> QED BY <1>8, <1>10, <3>1
  <2> QED BY <2>1, <2>2
<1>13. r # << >>
  BY <1>2, <1>8
<1>14. DeliveredOk(r, g, TRUE)
  BY <1>8, <1>10, <1>11, <1>12, <1>13 DEF DeliveredOk
<1> QED BY <1>3, <1>4, <1>7, <1>8, <1>10, <1>14 DEF g

Lacks(list, p) == \A i \in 1 .. Len(list) : list[i].ptr # p

WithinOr(r, list, p) ==
    \A i \in 1 .. Len(r) : r[i].ptr = p \/ \E j \in 1 .. Len(list) : r[i].ptr = list[j].ptr

\* A message that is taken for delivery goes to the head of the list.
LEMMA DeliverFacts ==
    ASSUME NEW list, NEW h \in [Ptr -> Nat], DeliveredOk(list, h, FALSE),
           NEW p \in Ptr, Lacks(list, p),
           NEW r, r = <<[ptr |-> p, ref |-> 1]>> \o list
    PROVE  DeliveredOk(r, h, TRUE) /\ WithinOr(r, list, p)
<1> DEFINE m == [ptr |-> p, ref |-> 1]
<1>1. list \in Seq(Items) /\ Apart(list) /\ Len(list) \in Nat
  BY DEF DeliveredOk
<1>2. m \in Items /\ m.ptr = p /\ m.ref = 1
  BY DEF Items
<1> HIDE DEF m
<1>3. <<m>> \in Seq(Items) /\ Len(<<m>>) = 1 /\ <<m>>[1] = m
  BY <1>2
<1>4. r = <<m>> \o list
  BY DEF m
<1>5. /\ r \in Seq(Items) /\ Len(r) = Len(<<m>>) + Len(list)
      /\ \A i \in 1 .. Len(<<m>>) + Len(list) :
           r[i] = IF i <= Len(<<m>>) THEN <<m>>[i] ELSE list[i - Len(<<m>>)]
  BY <1>1, <1>3, <1>4, ConcatProperties
<1>6. Len(r) = Len(list) + 1 /\ r[1] = m
  BY <1>1, <1>3, <1>5
<1>7. ASSUME NEW i \in 1 .. Len(r), i # 1
      PROVE  i - 1 \in 1 .. Len(list) /\ r[i] = list[i - 1]
  BY <1>1, <1>3, <1>5, <1>6, <1>7
<1>8. h[p] = 0
  <2>1. ~ (h[p] > 0)
    BY DEF DeliveredOk, Lacks
  <2> QED BY <2>1
<1>9. ASSUME NEW i \in 1 .. Len(r) PROVE r[i].ref = h[r[i].ptr] + Bonus(i, TRUE)
  <2>1. CASE i = 1
    BY <1>2, <1>6, <1>8, <2>1 DEF Bonus
  <2>2. CASE i # 1
    <3>1. list[i - 1].ref = h[list[i - 1].ptr] + Bonus(i - 1, FALSE)
      BY <1>7, <2>2 DEF DeliveredOk
    <3> QED BY <1>7, <2>2, <3>1 DEF Bonus
  <2> QED BY <2>1, <2>2
<1>10. Apart(r)
  <2> SUFFICES ASSUME NEW i \in 1 .. Len(r), NEW j \in 1 .. Len(r), r[i].ptr = r[j].ptr
               PROVE  i = j
    BY DEF Apart
  <2>1. CASE i # 1 /\ j # 1
    <3>1. /\ i - 1 \in 1 .. Len(list) /\ j - 1 \in 1 .. Len(list)
          /\ list[i - 1].ptr = list[j - 1].ptr
      BY <1>7, <2>1
    <3>2. i - 1 = j - 1
      BY <1>1, <3>1 DEF Apart
    <3> QED BY <3>2
  <2>2. CASE i = 1 /\ j # 1
    BY <1>2, <1>6, <1>7, <2>2 DEF Lacks
  <2>3. CASE i # 1 /\ j = 1
    BY <1>2, <1>6, <1>7, <2>3 DEF Lacks
  <2> QED BY <2>1, <2>2, <2>3
<1>11. ASSUME NEW x \in Ptr, h[x] > 0 PROVE \E i \in 1 .. Len(r) : r[i].ptr = x
  <2>1. PICK j \in 1 .. Len(list) : list[j].ptr = x
    BY <1>11 DEF DeliveredOk
  <2>2. j + 1 \in 1 .. Len(r) /\ j + 1 # 1 /\ (j + 1) - 1 = j
    BY <1>1, <1>6
  <2> QED BY <1>7, <2>1, <2>2
<1>12. r # << >>
  BY <1>1, <1>6
<1>13. DeliveredOk(r, h, TRUE)
  BY <1>5, <1>9, <1>10, <1>11, <1>12 DEF DeliveredOk
<1>14. ASSUME NEW i \in 1 .. Len(r)
       PROVE  r[i].ptr = p \/ \E j \in 1 .. Len(list) : r[i].ptr = list[j].ptr
  BY <1>2, <1>6, <1>7
<1> QED BY <1>13, <1>14 DEF WithinOr

-----------------------------------------------------------------------------
(* The inductive invariant *)

Separate(q, list) ==
    \A i \in 1 .. Len(q), j \in 1 .. Len(list) : q[i].ptr # list[j].ptr

Deliveries == [busy : BOOLEAN, todo : SUBSET Task, task : Task \cup {None}]

\* The messages and who holds them.
Stored ==
    /\ now \in 0 .. Wrap - 1
    /\ latest \in LatestTable /\ held \in [Ptr -> Nat]
    /\ cur \in Deliveries /\ (cur.task # None => cur.busy)
    /\ QueueOk(queue, now, latest)
    /\ DeliveredOk(delivered, held, cur.busy)
    /\ Separate(queue, delivered)

Wakes == {"run", "event"}

\* An event that is pending is in the scheduler's queue.
Scheduled ==
    /\ sched \in Seq(Wakes) /\ pending \in BOOLEAN
    /\ pending => \E i \in 1 .. Len(sched) : sched[i] = "event"
    /\ DOMAIN timer \subseteq TimerId /\ \A i \in DOMAIN timer : timer[i] \in Nat
    /\ run_timer \in TimerId \cup {None}

\* A timer expires before the message is due, or at once.
Timed(m, tm) == \E i \in DOMAIN tm : tm[i] <= 0 \/ tm[i] <= m.left

\* The task will run in time for every message that is not blocked.
Waking(q, blocked, tm, s) ==
    s = << >> => \A i \in 1 .. Len(q) : q[i].cond \notin blocked => Timed(q[i], tm)

MessagesInv ==
    /\ Stored /\ Scheduled
    /\ closed \subseteq Cond /\ system \in Task \cup {None}
    /\ ~cur.busy => Waking(queue, closed, timer, sched)

\* The initial state: nothing has been sent.
LEMMA MessagesInit == Init => MessagesInv
<1> SUFFICES ASSUME Init PROVE MessagesInv
  OBVIOUS
<1>1. /\ now = 0 /\ queue = << >> /\ delivered = << >> /\ closed = {} /\ system \in Task
      /\ sched = << >> /\ pending = FALSE /\ timer = << >> /\ run_timer = None
      /\ held = [p \in Ptr |-> 0] /\ latest = [t \in Task |-> None]
      /\ cur = [busy |-> FALSE, todo |-> {}, task |-> None]
  BY DEF Init, Idle
<1>2. now \in 0 .. Wrap - 1
  <2>1. PICK h \in Nat : Wrap = 2 * h /\ MaxAge \in Nat /\ MaxAge < h
    BY ClockFacts
  <2> QED BY <1>1, <2>1
<1>3. latest \in LatestTable /\ held \in [Ptr -> Nat]
  BY <1>1 DEF LatestTable
<1>4. cur \in Deliveries /\ cur.task = None /\ cur.busy = FALSE
  BY <1>1 DEF Deliveries
<1>5. /\ queue \in Seq(Queued) /\ Len(queue) = 0
      /\ delivered \in Seq(Items) /\ Len(delivered) = 0
      /\ sched \in Seq(Wakes) /\ Len(sched) = 0 /\ DOMAIN timer = {}
  BY <1>1
<1>6. QueueOk(queue, now, latest)
  BY <1>5 DEF QueueOk, Ordered, Apart, Newest
<1>7. DeliveredOk(delivered, held, cur.busy)
  <2>1. \A p \in Ptr : ~ (held[p] > 0)
    BY <1>1
  <2> QED BY <1>4, <1>5, <2>1 DEF DeliveredOk, Apart
<1>8. Separate(queue, delivered)
  BY <1>5 DEF Separate
<1>9. Stored
  BY <1>2, <1>3, <1>4, <1>6, <1>7, <1>8 DEF Stored
<1>10. Scheduled
  BY <1>1, <1>5 DEF Scheduled
<1>11. Waking(queue, closed, timer, sched)
  BY <1>5 DEF Waking
<1> QED BY <1>1, <1>9, <1>10, <1>11 DEF MessagesInv

\* The event is triggered (vm_event_trigger).
LEMMA TriggerFacts ==
    ASSUME Scheduled, vm_event_trigger
    PROVE  Scheduled' /\ sched' # << >> /\ timer' = timer
<1>1. /\ sched \in Seq(Wakes) /\ Len(sched) \in Nat
      /\ timer' = timer /\ run_timer' = run_timer /\ pending' = TRUE
      /\ sched' = IF pending THEN sched ELSE Append(sched, "event")
  BY DEF Scheduled, vm_event_trigger
<1>2. sched' \in Seq(Wakes) /\ \E i \in 1 .. Len(sched') : sched'[i] = "event"
  <2>1. CASE pending
    BY <1>1, <2>1 DEF Scheduled
  <2>2. CASE ~pending
    <3>1. "event" \in Wakes /\ sched' = Append(sched, "event")
      BY <1>1, <2>2 DEF Wakes
    <3>2. /\ sched' \in Seq(Wakes) /\ Len(sched') = Len(sched) + 1
          /\ sched'[Len(sched) + 1] = "event"
      BY <1>1, <3>1
    <3> QED BY <1>1, <3>2
  <2> QED BY <2>1, <2>2
<1>3. sched' # << >>
  BY <1>2
<1> QED BY <1>1, <1>2, <1>3 DEF Scheduled

\* A block of memory that is free.
LEMMA FreeFacts ==
    ASSUME Stored, NEW p \in FreePtr
    PROVE  /\ p \in Ptr
           /\ \A i \in 1 .. Len(queue) : queue[i].ptr # p
           /\ \A i \in 1 .. Len(delivered) : delivered[i].ptr # p
<1>1. queue \in Seq(Queued) /\ delivered \in Seq(Items)
  BY DEF Stored, QueueOk, DeliveredOk
<1>2. DOMAIN queue = 1 .. Len(queue) /\ DOMAIN delivered = 1 .. Len(delivered)
  BY <1>1
<1> QED BY <1>2 DEF FreePtr, Elements

\* The first message that is not blocked (vm_message_next).
LEMMA FirstOpenFacts ==
    ASSUME NEW q \in Seq(Queued)
    PROVE  LET k == FirstOpen(q)
           IN  /\ k = 0 => \A i \in 1 .. Len(q) : q[i].cond \in closed
               /\ k # 0 => /\ k \in 1 .. Len(q) /\ q[k].cond \notin closed
                           /\ \A i \in 1 .. Len(q) : q[i].cond \notin closed => k <= i
<1> DEFINE open == {i \in DOMAIN q : q[i].cond \notin closed}
<1>1. DOMAIN q = 1 .. Len(q) /\ Len(q) \in Nat
  OBVIOUS
<1>2. FirstOpen(q) = IF open = {} THEN 0
                     ELSE CHOOSE i \in open : \A j \in open : i <= j
  BY DEF FirstOpen
<1>3. CASE open = {}
  <2>1. FirstOpen(q) = 0
    BY <1>2, <1>3
  <2>2. \A i \in 1 .. Len(q) : q[i].cond \in closed
    BY <1>1, <1>3
  <2> QED BY <2>1, <2>2
<1>4. CASE open # {}
  <2>1. open \in SUBSET Nat
    BY <1>1
  <2>2. \E i \in open : \A j \in open : i <= j
    <3> HIDE DEF open
    <3> QED BY <1>4, <2>1, LeastNat
  <2>3. PICK k : k = CHOOSE i \in open : \A j \in open : i <= j
    OBVIOUS
  <2>4. k \in open /\ \A j \in open : k <= j
    BY <2>2, <2>3
  <2>5. FirstOpen(q) = k
    BY <1>2, <1>4, <2>3
  <2>6. /\ k \in 1 .. Len(q) /\ q[k].cond \notin closed /\ k # 0
        /\ \A i \in 1 .. Len(q) : q[i].cond \notin closed => k <= i
    BY <1>1, <2>4
  <2> QED BY <2>5, <2>6
<1> QED BY <1>3, <1>4

-----------------------------------------------------------------------------
(* Every step keeps the invariant *)

\* While a handler runs, a delivery is in progress.
LEMMA RunningFacts ==
    ASSUME Stored, Running
    PROVE  cur.busy /\ cur.busy = TRUE
  BY DEF Stored, Running, Deliveries

\* Another queue, with the payloads it had and perhaps one that was free.
LEMMA QueueChanged ==
    ASSUME Stored, QueueOk(queue', now', latest'),
           UNCHANGED <<now, delivered, cur, held>>, latest' \in LatestTable,
           NEW p, \A i \in 1 .. Len(delivered) : delivered[i].ptr # p,
           \A i \in 1 .. Len(queue') :
              queue'[i].ptr = p \/ \E j \in 1 .. Len(queue) : queue'[i].ptr = queue[j].ptr
    PROVE  Stored'
<1>1. Separate(queue', delivered)
  <2> SUFFICES ASSUME NEW i \in 1 .. Len(queue'), NEW k \in 1 .. Len(delivered)
               PROVE  queue'[i].ptr # delivered[k].ptr
    BY DEF Separate
  <2>1. CASE queue'[i].ptr = p
    BY <2>1
  <2>2. CASE \E j \in 1 .. Len(queue) : queue'[i].ptr = queue[j].ptr
    <3>1. PICK j \in 1 .. Len(queue) : queue'[i].ptr = queue[j].ptr
      BY <2>2
    <3> QED BY <3>1 DEF Stored, Separate
  <2> QED BY <2>1, <2>2
<1>2. now' = now /\ delivered' = delivered /\ cur' = cur /\ held' = held
  OBVIOUS
<1> QED BY <1>1, <1>2 DEF Stored

\* The application sends a message.
LEMMA SendKeeps ==
    ASSUME MessagesInv, Running, NEW to \in SUBSET Task, to # {}, NEW id \in AppId,
           NEW delay \in Delays \cup {0}, NEW c \in Cond \cup {None},
           vm_message_send_later(to, id, delay, c),
           UNCHANGED <<now, delivered, cur, closed, system, held, latest>>
    PROVE  MessagesInv'
<1>1. Stored /\ Scheduled /\ cur.busy /\ now \in 0 .. Wrap - 1 /\ QueueOk(queue, now, latest)
  BY RunningFacts DEF MessagesInv, Stored
<1>2. PICK p \in FreePtr :
         LET m == [to |-> to, multi |-> Cardinality(to) > 1, id |-> id, ptr |-> p,
                   cond |-> c, due |-> (now + delay) % Wrap, left |-> delay]
         IN  queue' = insert(queue, m) /\ vm_event_trigger
  BY DEF vm_message_send_later
<1> DEFINE m == [to |-> to, multi |-> Cardinality(to) > 1, id |-> id, ptr |-> p,
                 cond |-> c, due |-> (now + delay) % Wrap, left |-> delay]
<1>3. queue' = insert(queue, m) /\ vm_event_trigger
  BY <1>2
<1>4. /\ p \in Ptr /\ \A i \in 1 .. Len(queue) : queue[i].ptr # p
      /\ \A i \in 1 .. Len(delivered) : delivered[i].ptr # p
  BY <1>1, FreeFacts
<1>5. /\ m.to = to /\ m.id = id /\ m.ptr = p /\ m.left = delay
      /\ m.due = (now + delay) % Wrap
  OBVIOUS
<1>6. m \in Queued
  <2>1. (Cardinality(to) > 1) \in BOOLEAN
    OBVIOUS
  <2>2. delay \in Int /\ id \in Id
    BY ClockAssumption DEF Id
  <2>3. InTime(m, now) /\ m.due \in 0 .. Wrap - 1
    <3> HIDE DEF m
    <3> QED BY <1>1, <1>5, SentInTime
  <2>4. (now + delay) % Wrap \in 0 .. Wrap - 1
    BY <2>3
  <2>5. m \in AppMessage
    BY <1>4, <2>1, <2>2, <2>4 DEF AppMessage
  <2> QED BY <1>5, <2>5 DEF Queued
<1> HIDE DEF m
<1>7. InTime(m, now)
  BY <1>1, <1>5, SentInTime
<1>8. m.id \notin ReplaceId
  BY <1>5, SetsAssumption DEF SystemId
<1>9. Addable(queue, m, now, latest)
  <2>1. \A i \in 1 .. Len(queue) : ~Rivals(queue[i], m, latest) /\ ~Rivals(m, queue[i], latest)
    BY <1>8 DEF Rivals
  <2> QED BY <1>4, <1>5, <1>6, <1>7, <1>8, <2>1 DEF Addable
<1>10. /\ QueueOk(queue', now, latest)
       /\ \A i \in 1 .. Len(queue') :
            queue'[i].ptr = p \/ \E j \in 1 .. Len(queue) : queue'[i].ptr = queue[j].ptr
  <2>1. LET r == insert(queue, m)
        IN  /\ QueueOk(r, now, latest)
            /\ \A i \in 1 .. Len(r) :
                 r[i].ptr = m.ptr \/ \E j \in 1 .. Len(queue) : r[i].ptr = queue[j].ptr
    BY <1>1, <1>9, InsertOk, ZenonT(30)
  <2> QED BY <1>3, <1>5, <2>1
<1>11. Stored'
  <2>1. QueueOk(queue', now', latest') /\ latest' \in LatestTable
    BY <1>1, <1>10 DEF Stored
  <2> QED BY <1>1, <1>4, <1>10, <2>1, QueueChanged
<1>12. Scheduled'
  BY <1>1, <1>3, TriggerFacts
<1> QED BY <1>1, <1>11, <1>12 DEF MessagesInv

\* The queue after messages have been removed.
LEMMA ThinnedQueue ==
    ASSUME Stored, Thinned(queue', queue, Len(queue))
    PROVE  /\ QueueOk(queue', now, latest)
           /\ \A i \in 1 .. Len(queue') : \E j \in 1 .. Len(queue) : queue'[i].ptr = queue[j].ptr
<1>1. QueueOk(queue, now, latest)
  BY DEF Stored
<1>2. QueueOk(queue', now, latest) /\ Within(queue', queue)
  BY <1>1, ThinnedOk
<1> QED BY <1>2 DEF Within

\* Messages are cancelled or flushed.
LEMMA ThinnedKeeps ==
    ASSUME MessagesInv, Running, Thinned(queue', queue, Len(queue)),
           UNCHANGED <<now, delivered, cur, closed, clock, held, latest>>,
           system' \in Task \cup {None}
    PROVE  MessagesInv'
<1>1. Stored /\ Scheduled /\ cur.busy /\ QueueOk(queue, now, latest)
  BY RunningFacts DEF MessagesInv, Stored
<1>2. /\ QueueOk(queue', now, latest)
      /\ \A i \in 1 .. Len(queue') : \E j \in 1 .. Len(queue) : queue'[i].ptr = queue[j].ptr
  BY <1>1, ThinnedQueue
<1>3. Separate(queue', delivered)
  <2> SUFFICES ASSUME NEW i \in 1 .. Len(queue'), NEW k \in 1 .. Len(delivered)
               PROVE  queue'[i].ptr # delivered[k].ptr
    BY DEF Separate
  <2>1. PICK j \in 1 .. Len(queue) : queue'[i].ptr = queue[j].ptr
    BY <1>2
  <2> QED BY <1>1, <2>1 DEF Stored, Separate
<1>4. Stored'
  <2>1. /\ now' = now /\ delivered' = delivered /\ cur' = cur /\ held' = held
        /\ latest' = latest
    OBVIOUS
  <2> QED BY <1>1, <1>2, <1>3, <2>1 DEF Stored
<1>5. Scheduled'
  BY <1>1 DEF Scheduled, clock
<1> QED BY <1>1, <1>4, <1>5 DEF MessagesInv

\* A handler retains its message.
LEMMA RetainKeeps == MessagesInv /\ MessageRetain => MessagesInv'
<1> SUFFICES ASSUME MessagesInv, MessageRetain PROVE MessagesInv'
  OBVIOUS
<1>1. /\ Stored /\ Scheduled /\ cur.busy = TRUE /\ held \in [Ptr -> Nat]
      /\ DeliveredOk(delivered, held, TRUE)
  <2>1. Stored /\ Scheduled /\ cur.busy = TRUE
    BY RunningFacts DEF MessagesInv, MessageRetain
  <2> QED BY <2>1 DEF Stored
<1>2. /\ delivered[1].ptr \in Ptr
      /\ DeliveredOk(delivered', held', TRUE) /\ Len(delivered') = Len(delivered)
      /\ \A i \in 1 .. Len(delivered') : delivered'[i].ptr = delivered[i].ptr
  BY <1>1, RetainFacts, ZenonT(30) DEF MessageRetain
<1>3. held' \in [Ptr -> Nat]
  BY <1>1, <1>2 DEF MessageRetain
<1>4. Separate(queue, delivered')
  BY <1>1, <1>2 DEF Stored, Separate
<1>5. /\ now' = now /\ queue' = queue /\ cur' = cur /\ latest' = latest
      /\ closed' = closed /\ system' = system /\ clock' = clock
  BY DEF MessageRetain
<1>6. Stored'
  BY <1>1, <1>2, <1>3, <1>4, <1>5 DEF Stored
<1>7. Scheduled'
  BY <1>1, <1>5 DEF Scheduled, clock
<1> QED BY <1>1, <1>5, <1>6, <1>7 DEF MessagesInv

\* The application frees a message that it retains.
LEMMA FreeKeeps ==
    ASSUME MessagesInv, NEW p \in Ptr, MessageFree(p)
    PROVE  MessagesInv'
<1>1. /\ Stored /\ Scheduled /\ cur.busy = TRUE /\ held \in [Ptr -> Nat]
      /\ DeliveredOk(delivered, held, TRUE)
  <2>1. Stored /\ Scheduled /\ cur.busy = TRUE
    BY RunningFacts DEF MessagesInv, MessageFree
  <2> QED BY <2>1 DEF Stored
<1>2. held[p] > 0 /\ held' = [held EXCEPT ![p] = @ - 1]
      /\ delivered' = app_message_release(delivered, p)
  BY DEF MessageFree
<1>3. PICK k \in 1 .. Len(delivered) : delivered[k].ptr = p
  BY <1>1, <1>2 DEF DeliveredOk
<1>4. /\ held' \in [Ptr -> Nat] /\ \A x \in Ptr : x # p => held'[x] = held[x]
      /\ held'[p] = held[p] - 1
  BY <1>1, <1>2
<1>5. held'[p] + Bonus(k, TRUE) = held[p] + Bonus(k, TRUE) - 1
  BY <1>1, <1>4 DEF Bonus
<1>6. /\ DeliveredOk(delivered', held', TRUE)
      /\ \A i \in 1 .. Len(delivered') :
           \E j \in 1 .. Len(delivered) : delivered'[i].ptr = delivered[j].ptr
  <2>1. LET r == app_message_release(delivered, delivered[k].ptr)
        IN  /\ DeliveredOk(r, held', TRUE) /\ Len(r) <= Len(delivered)
            /\ \A i \in 1 .. Len(r) : \E j \in 1 .. Len(delivered) : r[i].ptr = delivered[j].ptr
    <3>1. PICK g : g = held'
      OBVIOUS
    <3>2. /\ g \in [Ptr -> Nat]
          /\ \A x \in Ptr : x # delivered[k].ptr => g[x] = held[x]
          /\ g[delivered[k].ptr] + Bonus(k, TRUE)
               = held[delivered[k].ptr] + Bonus(k, TRUE) - 1
      BY <1>3, <1>4, <1>5, <3>1
    <3>3. PICK b \in BOOLEAN : b = TRUE
      OBVIOUS
    <3>4. LET r == app_message_release(delivered, delivered[k].ptr)
          IN  /\ DeliveredOk(r, g, b) /\ Len(r) <= Len(delivered)
              /\ \A i \in 1 .. Len(r) : \E j \in 1 .. Len(delivered) : r[i].ptr = delivered[j].ptr
      <4>1. DeliveredOk(delivered, held, b)
        BY <1>1, <3>3
      <4>2. g[delivered[k].ptr] + Bonus(k, b) = held[delivered[k].ptr] + Bonus(k, b) - 1
        BY <3>2, <3>3
      <4> QED BY <1>1, <3>2, <4>1, <4>2, ReleaseFacts
    <3> QED BY <3>1, <3>3, <3>4
  <2> QED BY <1>2, <1>3, <2>1
<1>7. Separate(queue, delivered')
  <2> SUFFICES ASSUME NEW i \in 1 .. Len(queue), NEW k2 \in 1 .. Len(delivered')
               PROVE  queue[i].ptr # delivered'[k2].ptr
    BY DEF Separate
  <2>1. PICK j \in 1 .. Len(delivered) : delivered'[k2].ptr = delivered[j].ptr
    BY <1>6
  <2> QED BY <1>1, <2>1 DEF Stored, Separate
<1>8. /\ now' = now /\ queue' = queue /\ cur' = cur /\ latest' = latest
      /\ closed' = closed /\ system' = system /\ clock' = clock
  BY DEF MessageFree
<1>9. Stored'
  BY <1>1, <1>4, <1>6, <1>7, <1>8 DEF Stored
<1>10. Scheduled'
  BY <1>1, <1>8 DEF Scheduled, clock
<1> QED BY <1>1, <1>8, <1>9, <1>10 DEF MessagesInv

\* The calls of the application.
LEMMA HandlerKeeps == MessagesInv /\ Handler => MessagesInv'
<1> SUFFICES ASSUME MessagesInv, Handler PROVE MessagesInv'
  OBVIOUS
<1>1. Stored /\ Scheduled /\ queue \in Seq(Queued) /\ system \in Task \cup {None}
  BY DEF MessagesInv, Stored, QueueOk
<1>2. ASSUME NEW to \in (SUBSET Task) \ {{}}, NEW id \in AppId, NEW delay \in Delays,
             MessageSendLater(to, id, delay)
      PROVE  MessagesInv'
  <2>1. to \in SUBSET Task /\ to # {} /\ delay \in Delays \cup {0} /\ None \in Cond \cup {None}
    OBVIOUS
  <2>2. /\ Running /\ vm_message_send_later(to, id, delay, None)
        /\ UNCHANGED <<now, delivered, cur, closed, system, held, latest>>
    BY <1>2 DEF MessageSendLater
  <2> QED BY <2>1, <2>2, SendKeeps
<1>3. ASSUME NEW to \in (SUBSET Task) \ {{}}, NEW id \in AppId, NEW c \in Cond,
             MessageSendConditionally(to, id, c)
      PROVE  MessagesInv'
  <2>1. to \in SUBSET Task /\ to # {} /\ 0 \in Delays \cup {0} /\ c \in Cond \cup {None}
    OBVIOUS
  <2>2. /\ Running /\ vm_message_send_later(to, id, 0, c)
        /\ UNCHANGED <<now, delivered, cur, closed, system, held, latest>>
    BY <1>3 DEF MessageSendConditionally
  <2> QED BY <2>1, <2>2, SendKeeps
<1>4. ASSUME NEW t \in Task, NEW id, CancelFirst(t, id) PROVE MessagesInv'
  <2>1. Thinned(queue', queue, Len(queue))
    BY <1>1, <1>4, WithoutThins DEF CancelFirst, MessageCancelFirst
  <2> QED BY <1>1, <1>4, <2>1, ThinnedKeeps DEF CancelFirst
<1>5. ASSUME NEW t \in Task, NEW id, CancelAll(t, id) PROVE MessagesInv'
  <2>1. Thinned(queue', queue, Len(queue))
    BY <1>1, <1>5, WithoutThins DEF CancelAll, MessageCancelAll
  <2> QED BY <1>1, <1>5, <2>1, ThinnedKeeps DEF CancelAll
<1>6. ASSUME NEW t \in Task, MessageFlushTask(t) PROVE MessagesInv'
  <2>1. Thinned(queue', queue, Len(queue))
    BY <1>1, <1>6, WithoutThins DEF MessageFlushTask, FlushQueue
  <2>2. system' \in Task \cup {None}
    BY <1>1, <1>6 DEF MessageFlushTask
  <2> QED BY <1>6, <2>1, <2>2, ThinnedKeeps DEF MessageFlushTask
<1>7. ASSUME NEW t \in Task, MessageSystemTask(t) PROVE MessagesInv'
  <2>1. /\ system' = t /\ closed' = closed /\ now' = now /\ queue' = queue /\ cur' = cur
        /\ delivered' = delivered /\ held' = held /\ latest' = latest
        /\ sched' = sched /\ pending' = pending /\ timer' = timer /\ run_timer' = run_timer
    BY <1>7 DEF MessageSystemTask, clock
  <2>2. Stored' /\ Scheduled'
    BY <1>1, <2>1 DEF Stored, Scheduled
  <2> QED BY <2>1, <2>2 DEF MessagesInv
<1>8. ASSUME NEW c \in Cond, SetCondition(c) PROVE MessagesInv'
  <2>1. /\ system' = system /\ closed' \in {closed \cup {c}, closed \ {c}}
        /\ now' = now /\ queue' = queue /\ cur' = cur
        /\ delivered' = delivered /\ held' = held /\ latest' = latest
        /\ sched' = sched /\ pending' = pending /\ timer' = timer /\ run_timer' = run_timer
    BY <1>8 DEF SetCondition, clock
  <2>2. Stored' /\ Scheduled'
    BY <1>1, <2>1 DEF Stored, Scheduled
  <2>3. cur.busy
    BY <1>1, <1>8, RunningFacts DEF SetCondition
  <2>4. closed' \subseteq Cond
    BY <2>1 DEF MessagesInv
  <2> QED BY <1>1, <2>1, <2>2, <2>3, <2>4 DEF MessagesInv
<1>9. CASE MessageRetain
  BY <1>9, RetainKeeps
<1>10. ASSUME NEW p \in Ptr, MessageFree(p) PROVE MessagesInv'
  BY <1>10, FreeKeeps
<1> QED BY <1>2, <1>3, <1>4, <1>5, <1>6, <1>7, <1>8, <1>9, <1>10 DEF Handler

\* The scheduler's message is taken and the timer cancelled.
LEMMA TakeFacts ==
    ASSUME Scheduled, TakeSchedulerMessage
    PROVE  /\ sched' \in Seq(Wakes) /\ pending' \in BOOLEAN
           /\ pending' => \E i \in 1 .. Len(sched') : sched'[i] = "event"
           /\ DOMAIN TimersLeft \subseteq DOMAIN timer
           /\ \A i \in DOMAIN TimersLeft : TimersLeft[i] = timer[i]
<1>1. /\ sched \in Seq(Wakes) /\ sched # << >> /\ sched' = Tail(sched)
      /\ pending \in BOOLEAN /\ (pending' <=> pending /\ Head(sched) # "event")
      /\ pending' \in BOOLEAN
  BY DEF Scheduled, TakeSchedulerMessage
<1>2. /\ sched' \in Seq(Wakes) /\ Len(sched') = Len(sched) - 1 /\ Len(sched) \in Nat
      /\ \A i \in 1 .. Len(sched') : sched'[i] = sched[i + 1]
      /\ Head(sched) = sched[1]
  BY <1>1
<1>3. ASSUME pending' PROVE \E i \in 1 .. Len(sched') : sched'[i] = "event"
  <2>1. pending /\ Head(sched) # "event"
    BY <1>1, <1>3
  <2>2. PICK i \in 1 .. Len(sched) : sched[i] = "event"
    BY <2>1 DEF Scheduled
  <2>3. i # 1
    BY <1>2, <2>1, <2>2
  <2>4. i - 1 \in 1 .. Len(sched') /\ (i - 1) + 1 = i
    BY <1>2, <2>3
  <2> QED BY <1>2, <2>2, <2>4
<1>4. /\ DOMAIN TimersLeft \subseteq DOMAIN timer
      /\ \A i \in DOMAIN TimersLeft : TimersLeft[i] = timer[i]
  <2>1. CASE Head(sched) = "run"
    BY <2>1 DEF TimersLeft
  <2>2. CASE Head(sched) # "run"
    <3>1. TimersLeft = [i \in DOMAIN timer \ {run_timer} |-> timer[i]]
      BY <2>2 DEF TimersLeft, Cancelled
    <3> QED BY <3>1
  <2> QED BY <2>1, <2>2
<1> QED BY <1>1, <1>2, <1>3, <1>4

\* Nothing is due: the timer is set for the first message that may be
\* delivered, and so it is early enough for the others.
LEMMA WaitKeeps == MessagesInv /\ WaitForMessage => MessagesInv'
<1> SUFFICES ASSUME MessagesInv, WaitForMessage PROVE MessagesInv'
  OBVIOUS
<1>1. /\ Stored /\ Scheduled /\ queue \in Seq(Queued) /\ QueueOk(queue, now, latest)
      /\ now \in 0 .. Wrap - 1
  BY DEF MessagesInv, Stored, QueueOk
<1>2. TakeSchedulerMessage
  BY DEF WaitForMessage
<1>3. /\ sched' \in Seq(Wakes) /\ pending' \in BOOLEAN
      /\ pending' => \E i \in 1 .. Len(sched') : sched'[i] = "event"
      /\ DOMAIN TimersLeft \subseteq DOMAIN timer
      /\ \A i \in DOMAIN TimersLeft : TimersLeft[i] = timer[i]
  BY <1>1, <1>2, TakeFacts
<1>4. /\ now' = now /\ queue' = queue /\ delivered' = delivered /\ cur' = cur
      /\ closed' = closed /\ system' = system /\ held' = held /\ latest' = latest
  BY DEF WaitForMessage
<1>5. Stored'
  BY <1>1, <1>4 DEF Stored
<1>6. PICK k : k = FirstOpen(queue)
  OBVIOUS
<1>7. /\ k = 0 => \A i \in 1 .. Len(queue) : queue[i].cond \in closed
      /\ k # 0 => /\ k \in 1 .. Len(queue) /\ queue[k].cond \notin closed
                  /\ \A i \in 1 .. Len(queue) : queue[i].cond \notin closed => k <= i
  BY <1>1, <1>6, FirstOpenFacts
<1>8. /\ DOMAIN timer \subseteq TimerId /\ \A i \in DOMAIN timer : timer[i] \in Nat
  BY <1>1 DEF Scheduled
<1>9. CASE k = 0
  <2>1. run_timer' = None /\ timer' = TimersLeft
    BY <1>6, <1>9 DEF WaitForMessage
  <2>2. Scheduled'
    BY <1>3, <1>8, <2>1 DEF Scheduled
  <2>3. Waking(queue', closed', timer', sched')
    BY <1>4, <1>7, <1>9 DEF Waking
  <2> QED BY <1>4, <1>5, <2>2, <2>3 DEF MessagesInv
<1>10. CASE k # 0
  <2> DEFINE delay == VM_DIFF(queue[k].due, now)
  <2>1. /\ delay > 0
        /\ \E new \in TimerId \ DOMAIN TimersLeft :
             /\ run_timer' = new
             /\ timer' = [j \in DOMAIN TimersLeft \cup {new} |->
                  IF j = new THEN IF delay > TimerLimit THEN TimerLimit ELSE delay
                  ELSE timer[j]]
    BY <1>6, <1>10 DEF WaitForMessage
  <2>2. queue[k] \in AppMessage /\ InTime(queue[k], now) /\ queue[k].left \in Int
    <3>1. queue[k] \in Queued /\ InTime(queue[k], now)
      BY <1>1, <1>7, <1>10 DEF QueueOk
    <3> QED BY <3>1 DEF Queued, AppMessage
  <2>3. delay = queue[k].left
    BY <1>1, <2>2, DueFacts
  <2> HIDE DEF delay
  <2>4. PICK new \in TimerId \ DOMAIN TimersLeft :
             /\ run_timer' = new
             /\ timer' = [j \in DOMAIN TimersLeft \cup {new} |->
                  IF j = new THEN IF delay > TimerLimit THEN TimerLimit ELSE delay
                  ELSE timer[j]]
    BY <2>1
  <2>5. /\ DOMAIN timer' = DOMAIN TimersLeft \cup {new}
        /\ timer'[new] = IF delay > TimerLimit THEN TimerLimit ELSE delay
        /\ \A j \in DOMAIN TimersLeft : timer'[j] = timer[j]
    BY <2>4
  <2>6. TimerLimit \in Nat /\ delay \in Nat
    BY <2>1, <2>2, <2>3, ClockAssumption
  <2>7. timer'[new] \in Nat /\ timer'[new] <= queue[k].left
    BY <2>3, <2>5, <2>6
  <2>8. Scheduled'
    <3>1. DOMAIN timer' \subseteq TimerId
      BY <1>3, <1>8, <2>5
    <3>2. \A j \in DOMAIN timer' : timer'[j] \in Nat
      BY <1>3, <1>8, <2>5, <2>7
    <3> QED BY <1>3, <2>4, <3>1, <3>2 DEF Scheduled
  <2>9. ASSUME NEW i \in 1 .. Len(queue), queue[i].cond \notin closed
        PROVE  Timed(queue[i], timer')
    <3>1. k <= i /\ k \in 1 .. Len(queue)
      BY <1>7, <1>10, <2>9
    <3>2. queue[i] \in Queued
      BY <1>1
    <3>3. queue[i].left \in Int
      BY <3>2 DEF Queued, AppMessage
    <3>4. queue[k].left <= queue[i].left
      <4>1. CASE k = i
        BY <3>3, <4>1
      <4>2. CASE k < i
        BY <1>1, <3>1, <4>2 DEF QueueOk, Ordered
      <4> QED BY <3>1, <4>1, <4>2
    <3>5. timer'[new] <= queue[i].left
      BY <2>2, <2>7, <3>3, <3>4
    <3> QED BY <2>5, <3>5 DEF Timed
  <2>10. Waking(queue', closed', timer', sched')
    BY <1>4, <2>9 DEF Waking
  <2> QED BY <1>4, <1>5, <2>8, <2>10 DEF MessagesInv
<1> QED BY <1>9, <1>10

\* The first message that may be delivered is due.
LEMMA NextKeeps == MessagesInv /\ vm_message_next => MessagesInv'
<1> SUFFICES ASSUME MessagesInv, vm_message_next PROVE MessagesInv'
  OBVIOUS
<1>1. /\ Stored /\ Scheduled /\ queue \in Seq(Queued) /\ QueueOk(queue, now, latest)
      /\ held \in [Ptr -> Nat] /\ Apart(queue)
  BY DEF MessagesInv, Stored, QueueOk
<1>2. TakeSchedulerMessage /\ run_timer' = None /\ timer' = TimersLeft
  BY DEF vm_message_next
<1>3. /\ sched' \in Seq(Wakes) /\ pending' \in BOOLEAN
      /\ pending' => \E i \in 1 .. Len(sched') : sched'[i] = "event"
      /\ DOMAIN TimersLeft \subseteq DOMAIN timer
      /\ \A i \in DOMAIN TimersLeft : TimersLeft[i] = timer[i]
  BY <1>1, <1>2, TakeFacts
<1>4. /\ now' = now /\ closed' = closed /\ system' = system /\ held' = held
      /\ latest' = latest
  BY DEF vm_message_next
<1>5. PICK k : k = FirstOpen(queue)
  OBVIOUS
<1>6. /\ k \in 1 .. Len(queue) /\ queue' = RemoveAt(queue, k)
      /\ delivered' = <<[ptr |-> queue[k].ptr, ref |-> 1]>> \o delivered
      /\ cur' = [Idle EXCEPT !.busy = TRUE, !.todo = queue[k].to]
  BY <1>1, <1>5, FirstOpenFacts DEF vm_message_next
<1>7. queue[k] \in Queued /\ queue[k].ptr \in Ptr /\ queue[k].to \in SUBSET Task
  <2>1. queue[k] \in Queued
    BY <1>1, <1>6
  <2> QED BY <2>1 DEF Queued, AppMessage
<1>8. PICK p : p = queue[k].ptr
  OBVIOUS
<1>9. Scheduled'
  BY <1>1, <1>2, <1>3 DEF Scheduled
<1>10. cur' \in Deliveries /\ cur'.busy = TRUE /\ cur'.task = None
  BY <1>6, <1>7 DEF Idle, Deliveries
<1>11. /\ QueueOk(queue', now, latest)
       /\ \A i \in 1 .. Len(queue') : /\ \E j \in 1 .. Len(queue) : queue'[i].ptr = queue[j].ptr
                                      /\ queue'[i].ptr # p
  <2>1. LET r == RemoveAt(queue, k)
        IN  /\ Thinned(r, queue, Len(queue))
            /\ \A i \in 1 .. Len(r) : r[i].ptr # queue[k].ptr
    BY <1>1, <1>6, RemoveThins
  <2>2. Thinned(queue', queue, Len(queue)) /\ \A i \in 1 .. Len(queue') : queue'[i].ptr # p
    BY <1>6, <1>8, <2>1
  <2>3. /\ QueueOk(queue', now, latest)
        /\ \A i \in 1 .. Len(queue') : \E j \in 1 .. Len(queue) : queue'[i].ptr = queue[j].ptr
    BY <1>1, <2>2, ThinnedQueue
  <2> QED BY <2>2, <2>3
<1>12. DeliveredOk(delivered, held, FALSE) /\ \A i \in 1 .. Len(delivered) : delivered[i].ptr # p
  <2>1. ~cur.busy /\ cur.busy \in BOOLEAN
    BY <1>1, <1>2 DEF TakeSchedulerMessage, Stored, Deliveries
  <2>2. cur.busy = FALSE
    BY <2>1
  <2>3. DeliveredOk(delivered, held, FALSE)
    BY <1>1, <2>2 DEF Stored
  <2> QED BY <1>1, <1>6, <1>8, <2>3 DEF Stored, Separate
<1>13. /\ DeliveredOk(delivered', held, TRUE)
       /\ \A i \in 1 .. Len(delivered') :
            delivered'[i].ptr = p \/ \E j \in 1 .. Len(delivered) : delivered'[i].ptr = delivered[j].ptr
  <2>1. PICK r : r = <<[ptr |-> p, ref |-> 1]>> \o delivered
    OBVIOUS
  <2>2. p \in Ptr /\ Lacks(delivered, p)
    BY <1>7, <1>8, <1>12 DEF Lacks
  <2>3. held \in [Ptr -> Nat] /\ DeliveredOk(delivered, held, FALSE)
    BY <1>1, <1>12
  <2>4. DeliveredOk(r, held, TRUE) /\ WithinOr(r, delivered, p)
    BY <2>1, <2>2, <2>3, DeliverFacts
  <2>5. delivered' = r
    BY <1>6, <1>8, <2>1
  <2> QED BY <2>4, <2>5 DEF WithinOr
<1>14. Separate(queue', delivered')
  <2> SUFFICES ASSUME NEW i \in 1 .. Len(queue'), NEW j \in 1 .. Len(delivered')
               PROVE  queue'[i].ptr # delivered'[j].ptr
    BY DEF Separate
  <2>1. CASE delivered'[j].ptr = p
    BY <1>11, <2>1
  <2>2. CASE \E n \in 1 .. Len(delivered) : delivered'[j].ptr = delivered[n].ptr
    <3>1. PICK n \in 1 .. Len(delivered) : delivered'[j].ptr = delivered[n].ptr
      BY <2>2
    <3>2. PICK o \in 1 .. Len(queue) : queue'[i].ptr = queue[o].ptr
      BY <1>11
    <3> QED BY <1>1, <3>1, <3>2 DEF Stored, Separate
  <2> QED BY <1>13, <2>1, <2>2
<1>15. Stored'
  BY <1>1, <1>4, <1>10, <1>11, <1>13, <1>14 DEF Stored
<1> QED BY <1>4, <1>9, <1>10, <1>15 DEF MessagesInv

\* The delivery ends and the task is woken for the next message.
LEMMA EndKeeps == MessagesInv /\ DeliveryEnds => MessagesInv'
<1> SUFFICES ASSUME MessagesInv, DeliveryEnds PROVE MessagesInv'
  OBVIOUS
<1>1. /\ Stored /\ Scheduled /\ held \in [Ptr -> Nat] /\ cur.busy = TRUE
      /\ DeliveredOk(delivered, held, TRUE)
  <2>1. Stored /\ Scheduled /\ cur.busy /\ cur.busy \in BOOLEAN
    BY DEF MessagesInv, DeliveryEnds, Stored, Deliveries
  <2>2. cur.busy = TRUE
    BY <2>1
  <2> QED BY <2>1, <2>2 DEF Stored
<1>2. /\ now' = now /\ closed' = closed /\ system' = system /\ held' = held
      /\ latest' = latest /\ queue' = queue /\ cur' = Idle /\ vm_event_trigger
      /\ delivered' = app_message_release(delivered, delivered[1].ptr)
  BY DEF DeliveryEnds
<1>3. Scheduled' /\ sched' # << >>
  BY <1>1, <1>2, TriggerFacts
<1>4. cur' \in Deliveries /\ cur'.busy = FALSE /\ cur'.task = None
  BY <1>2 DEF Idle, Deliveries
<1>5. delivered \in Seq(Items) /\ delivered # << >>
  BY <1>1 DEF DeliveredOk
<1>6. 1 \in 1 .. Len(delivered) /\ held[delivered[1].ptr] \in Nat
  <2>1. 1 \in 1 .. Len(delivered)
    BY <1>5
  <2> QED BY <1>1, <1>5, <2>1, ItemFacts
<1>7. /\ DeliveredOk(delivered', held, FALSE)
      /\ \A i \in 1 .. Len(delivered') :
           \E j \in 1 .. Len(delivered) : delivered'[i].ptr = delivered[j].ptr
  <2>1. PICK b \in BOOLEAN : b = TRUE
    OBVIOUS
  <2>2. PICK s \in BOOLEAN : s = FALSE
    OBVIOUS
  <2>3. /\ DeliveredOk(delivered, held, b)
        /\ held[delivered[1].ptr] + Bonus(1, s) = held[delivered[1].ptr] + Bonus(1, b) - 1
    <3>1. DeliveredOk(delivered, held, b)
      BY <1>1, <2>1
    <3>2. Bonus(1, s) = 0 /\ Bonus(1, b) = 1
      BY <2>1, <2>2 DEF Bonus
    <3> QED BY <1>6, <3>1, <3>2
  <2>4. (1 # 1 => (s <=> b)) /\ (s => b)
    BY <2>2
  <2>5. LET r == app_message_release(delivered, delivered[1].ptr)
        IN  /\ DeliveredOk(r, held, s) /\ Len(r) <= Len(delivered)
            /\ \A i \in 1 .. Len(r) : \E j \in 1 .. Len(delivered) : r[i].ptr = delivered[j].ptr
    BY <1>1, <1>6, <2>3, <2>4, ReleaseFacts
  <2> QED BY <1>2, <2>2, <2>5
<1>8. Separate(queue, delivered')
  <2> SUFFICES ASSUME NEW i \in 1 .. Len(queue), NEW k \in 1 .. Len(delivered')
               PROVE  queue[i].ptr # delivered'[k].ptr
    BY DEF Separate
  <2>1. PICK j \in 1 .. Len(delivered) : delivered'[k].ptr = delivered[j].ptr
    BY <1>7
  <2> QED BY <1>1, <2>1 DEF Stored, Separate
<1>9. Stored'
  BY <1>1, <1>2, <1>4, <1>7, <1>8 DEF Stored
<1>10. Waking(queue', closed', timer', sched')
  BY <1>3 DEF Waking
<1> QED BY <1>2, <1>3, <1>9, <1>10 DEF MessagesInv

\* The handlers are called one after the other.
LEMMA CallsKeep ==
    ASSUME MessagesInv, HandlerReturns \/ \E t \in Task : CallHandler(t)
    PROVE  MessagesInv'
<1>1. /\ now' = now /\ queue' = queue /\ delivered' = delivered /\ closed' = closed
      /\ system' = system /\ held' = held /\ latest' = latest
      /\ sched' = sched /\ pending' = pending /\ timer' = timer /\ run_timer' = run_timer
  BY DEF HandlerReturns, CallHandler, clock
<1>2. Stored /\ Scheduled /\ cur \in Deliveries /\ cur.busy
  BY RunningFacts DEF MessagesInv, Stored, HandlerReturns, CallHandler
<1>3. cur' \in Deliveries /\ cur'.busy = cur.busy
  <2>1. CASE HandlerReturns
    BY <1>2, <2>1 DEF HandlerReturns, Deliveries
  <2>2. ASSUME NEW t \in Task, CallHandler(t)
        PROVE  cur' \in Deliveries /\ cur'.busy = cur.busy
    BY <1>2, <2>2 DEF CallHandler, Deliveries
  <2> QED BY <2>1, <2>2
<1>4. Stored'
  BY <1>1, <1>2, <1>3 DEF Stored
<1>5. Scheduled'
  BY <1>1, <1>2 DEF Scheduled
<1> QED BY <1>1, <1>2, <1>3, <1>4, <1>5 DEF MessagesInv

\* A message of the other processor comes in.
LEMMA SystemMessageKeeps ==
    ASSUME MessagesInv, NEW id \in SystemId, NEW dup \in BOOLEAN,
           trap_api_send_message_filtered(id, dup)
    PROVE  MessagesInv'
<1>1. /\ Stored /\ Scheduled /\ now \in 0 .. Wrap - 1 /\ QueueOk(queue, now, latest)
      /\ latest \in LatestTable /\ closed \subseteq Cond /\ system \in Task
  BY DEF MessagesInv, Stored, trap_api_send_message_filtered
<1>2. /\ now' = now /\ delivered' = delivered /\ cur' = cur /\ closed' = closed
      /\ system' = system /\ held' = held
  BY DEF trap_api_send_message_filtered
<1>3. PICK p \in FreePtr :
         LET m == [to |-> {system}, multi |-> FALSE, id |-> id, ptr |-> p,
                   cond |-> None, due |-> now, left |-> 0]
         IN  /\ IF dup \/ already(queue, m) = {}
                THEN send_message(m)
                ELSE queue' = Combined(queue, m) /\ UNCHANGED clock
             /\ latest' = LatestWith(m, dup)
  BY DEF trap_api_send_message_filtered
<1> DEFINE m == [to |-> {system}, multi |-> FALSE, id |-> id, ptr |-> p,
                 cond |-> None, due |-> now, left |-> 0]
<1>4. /\ IF dup \/ already(queue, m) = {}
         THEN send_message(m)
         ELSE queue' = Combined(queue, m) /\ UNCHANGED clock
      /\ latest' = LatestWith(m, dup)
  BY <1>3
<1>5. /\ p \in Ptr /\ \A i \in 1 .. Len(queue) : queue[i].ptr # p
      /\ \A i \in 1 .. Len(delivered) : delivered[i].ptr # p
  BY <1>1, FreeFacts
<1>6. /\ m.to = {system} /\ ~m.multi /\ m.id = id /\ m.ptr = p
      /\ m.left = 0 /\ m.due = now
  OBVIOUS
<1>7. m \in Queued
  <2>1. m \in AppMessage
    BY <1>1, <1>5 DEF AppMessage, Id
  <2> QED BY <1>6, <2>1 DEF Queued
<1> HIDE DEF m
<1>8. SystemMessage(m, system)
  BY <1>6, <1>7 DEF SystemMessage
<1>9. InTime(m, now)
  <2>1. PICK h \in Nat : Wrap = 2 * h /\ Wrap \div 2 = h /\ MaxAge \in Nat /\ MaxAge < h
    BY ClockFacts
  <2>2. now \in Int /\ m.due - now = m.left
    BY <1>1, <1>6, <2>1
  <2> QED BY <1>6, <2>1, <2>2 DEF InTime
<1>10. PICK open \in BOOLEAN : open <=> already(queue, m) # {} /\ (dup \/ latest[system] = None)
  OBVIOUS
<1>11. latest' \in LatestTable /\ latest' = Posted(latest, system, m.id, open)
  <2>1. latest' = Posted(latest, system, m.id, open)
    BY <1>4, <1>10 DEF LatestWith, Posted
  <2>2. CASE m.id \in ReplaceId
    BY <1>1, <2>1, <2>2, PostedFacts
  <2>3. CASE m.id \notin ReplaceId
    BY <1>1, <2>1, <2>3 DEF Posted
  <2> QED BY <2>1, <2>2, <2>3
<1>12. CASE ~ (dup \/ already(queue, m) = {})
  <2>1. PICK r : r = Combined(queue, m)
    OBVIOUS
  <2>2. queue' = r /\ sched' = sched /\ timer' = timer /\ pending' = pending
        /\ run_timer' = run_timer
    BY <1>4, <1>12, <2>1 DEF clock
  <2>3. /\ QueueOk(r, now, Posted(latest, system, m.id, open)) /\ Len(r) = Len(queue)
        /\ \A i \in 1 .. Len(queue) :
             r[i].ptr = queue[i].ptr /\ r[i].left = queue[i].left /\ r[i].cond = queue[i].cond
    BY <1>1, <1>8, <1>10, <1>12, <2>1, CombinedOk
  <2>4. QueueOk(queue', now', latest')
    BY <1>2, <1>11, <2>2, <2>3
  <2>5. \A i \in 1 .. Len(queue') :
           queue'[i].ptr = p \/ \E j \in 1 .. Len(queue) : queue'[i].ptr = queue[j].ptr
    BY <2>2, <2>3
  <2>6. Stored'
    BY <1>1, <1>2, <1>5, <1>11, <2>4, <2>5, QueueChanged
  <2>7. Scheduled'
    BY <1>1, <2>2 DEF Scheduled
  <2>8. Waking(queue, closed, timer, sched) => Waking(queue', closed', timer', sched')
    BY <1>2, <2>2, <2>3 DEF Waking, Timed
  <2> QED BY <1>1, <1>2, <2>6, <2>7, <2>8 DEF MessagesInv
<1>13. CASE dup \/ already(queue, m) = {}
  <2>1. PICK r : r = insert(queue, m)
    OBVIOUS
  <2>2. queue' = r /\ IF queue' = queue THEN UNCHANGED clock ELSE vm_event_trigger
    BY <1>4, <1>13, <2>1 DEF send_message
  <2>3. PICK l : l = Posted(latest, system, m.id, open)
    OBVIOUS
  <2>4. QueueOk(queue, now, l) /\ Addable(queue, m, now, l)
    <3>1. open \/ already(queue, m) = {}
      BY <1>10, <1>13
    <3> QED BY <1>1, <1>5, <1>6, <1>8, <1>9, <2>3, <3>1, PostedOk
  <2>5. /\ QueueOk(r, now, l)
        /\ \A i \in 1 .. Len(r) :
             r[i].ptr = m.ptr \/ \E j \in 1 .. Len(queue) : r[i].ptr = queue[j].ptr
    <3>1. now \in 0 .. Wrap - 1
      BY <1>1
    <3>2. LET s == insert(queue, m)
          IN  /\ QueueOk(s, now, l)
              /\ \A i \in 1 .. Len(s) :
                   s[i].ptr = m.ptr \/ \E j \in 1 .. Len(queue) : s[i].ptr = queue[j].ptr
      BY <2>4, <3>1, InsertOk
    <3> QED BY <2>1, <3>2
  <2>6. QueueOk(queue', now', latest')
    BY <1>2, <1>11, <2>2, <2>3, <2>5
  <2>7. \A i \in 1 .. Len(queue') :
           queue'[i].ptr = p \/ \E j \in 1 .. Len(queue) : queue'[i].ptr = queue[j].ptr
    BY <1>6, <2>2, <2>5
  <2>8. Stored'
    BY <1>1, <1>2, <1>5, <1>11, <2>6, <2>7, QueueChanged
  <2>9. CASE queue' = queue
    <3>1. sched' = sched /\ timer' = timer /\ pending' = pending /\ run_timer' = run_timer
      BY <2>2, <2>9 DEF clock
    <3>2. Scheduled'
      BY <1>1, <3>1 DEF Scheduled
    <3>3. Waking(queue, closed, timer, sched) => Waking(queue', closed', timer', sched')
      BY <1>2, <2>9, <3>1
    <3> QED BY <1>1, <1>2, <2>8, <3>2, <3>3 DEF MessagesInv
  <2>10. CASE queue' # queue
    <3>1. Scheduled' /\ sched' # << >>
      BY <1>1, <2>2, <2>10, TriggerFacts
    <3>2. Waking(queue', closed', timer', sched')
      BY <3>1 DEF Waking
    <3> QED BY <1>1, <1>2, <2>8, <3>1, <3>2 DEF MessagesInv
  <2> QED BY <2>9, <2>10
<1> QED BY <1>12, <1>13

\* A timer expires: the task will run.
LEMMA TimerKeeps ==
    ASSUME MessagesInv, NEW i \in TimerId, deliver_timed_message(i)
    PROVE  MessagesInv'
<1>1. /\ Stored /\ Scheduled /\ sched \in Seq(Wakes) /\ Len(sched) \in Nat
  BY DEF MessagesInv, Scheduled
<1>2. /\ now' = now /\ queue' = queue /\ delivered' = delivered /\ cur' = cur
      /\ closed' = closed /\ system' = system /\ held' = held /\ latest' = latest
      /\ pending' = pending /\ run_timer' = run_timer
      /\ timer' = [j \in DOMAIN timer \ {i} |-> timer[j]]
      /\ sched' = Append(sched, "run")
  BY DEF deliver_timed_message
<1>3. /\ sched' \in Seq(Wakes) /\ Len(sched') = Len(sched) + 1
      /\ \A j \in 1 .. Len(sched) : sched'[j] = sched[j]
  <2>1. "run" \in Wakes
    BY DEF Wakes
  <2> QED BY <1>1, <1>2, <2>1
<1>4. sched' # << >>
  BY <1>1, <1>3
<1>5. pending' => \E j \in 1 .. Len(sched') : sched'[j] = "event"
  <2> SUFFICES ASSUME pending' PROVE \E j \in 1 .. Len(sched') : sched'[j] = "event"
    OBVIOUS
  <2>1. PICK j \in 1 .. Len(sched) : sched[j] = "event"
    BY <1>1, <1>2 DEF Scheduled
  <2> QED BY <1>1, <1>3, <2>1
<1>6. DOMAIN timer' \subseteq TimerId /\ \A j \in DOMAIN timer' : timer'[j] \in Nat
  BY <1>1, <1>2 DEF Scheduled
<1>7. Scheduled'
  BY <1>1, <1>2, <1>3, <1>5, <1>6 DEF Scheduled
<1>8. Stored'
  BY <1>1, <1>2 DEF Stored
<1>9. Waking(queue', closed', timer', sched')
  BY <1>4 DEF Waking
<1> QED BY <1>2, <1>7, <1>8, <1>9 DEF MessagesInv

\* A millisecond passes, for the messages and for the timers.
LEMMA TickKeeps == MessagesInv /\ Tick => MessagesInv'
<1> SUFFICES ASSUME MessagesInv, Tick PROVE MessagesInv'
  OBVIOUS
<1>1. /\ Stored /\ Scheduled /\ now \in 0 .. Wrap - 1 /\ QueueOk(queue, now, latest)
      /\ queue \in Seq(Queued) /\ Len(queue) \in Nat /\ DOMAIN queue = 1 .. Len(queue)
  BY DEF MessagesInv, Stored, QueueOk
<1>2. /\ delivered' = delivered /\ cur' = cur /\ sched' = sched /\ pending' = pending
      /\ closed' = closed /\ system' = system /\ held' = held /\ latest' = latest
      /\ run_timer' = run_timer /\ now' = (now + 1) % Wrap
  BY DEF Tick
<1>3. PICK r : r = [i \in 1 .. Len(queue) |-> [queue[i] EXCEPT !.left = @ - 1]]
  OBVIOUS
<1>4. queue' = r
  BY <1>1, <1>3 DEF Tick
<1>5. ASSUME NEW i \in 1 .. Len(queue)
      PROVE  /\ r[i] \in Queued /\ r[i].left = queue[i].left - 1 /\ r[i].due = queue[i].due
             /\ r[i].to = queue[i].to /\ r[i].multi = queue[i].multi
             /\ r[i].id = queue[i].id /\ r[i].ptr = queue[i].ptr
             /\ r[i].cond = queue[i].cond /\ InTime(r[i], now') /\ queue[i].left \in Int
  <2> DEFINE old == queue[i]
             new == [old EXCEPT !.left = @ - 1]
  <2>1. old \in Queued /\ InTime(old, now)
    BY <1>1 DEF QueueOk
  <2>2. old \in AppMessage /\ old.to # {} /\ old.left \in Int
    BY <2>1 DEF Queued, AppMessage
  <2>3. new \in AppMessage /\ new.left = old.left - 1 /\ new.to = old.to
    BY <2>2 DEF AppMessage
  <2>4. /\ new.multi = old.multi /\ new.id = old.id /\ new.ptr = old.ptr
        /\ new.cond = old.cond /\ new.due = old.due
    BY <2>2 DEF AppMessage
  <2>5. r[i] = new
    BY <1>3
  <2>6. old.left > -MaxAge
    BY <1>1 DEF Tick, Elements
  <2> HIDE DEF old, new
  <2>7. InTime(new, (now + 1) % Wrap)
    BY <1>1, <2>1, <2>2, <2>3, <2>4, <2>6, TickInTime
  <2>8. new \in Queued
    BY <2>2, <2>3 DEF Queued
  <2> QED BY <1>2, <2>2, <2>3, <2>4, <2>5, <2>7, <2>8 DEF old
<1>6. r \in Seq(Queued) /\ Len(r) = Len(queue)
  <2>1. DOMAIN r = 1 .. Len(queue) /\ r = [i \in 1 .. Len(queue) |-> r[i]]
    BY <1>3
  <2>2. r \in [1 .. Len(queue) -> Queued]
    BY <1>5, <2>1
  <2> QED BY <1>1, <2>2
<1>7. Ordered(r)
  <2> SUFFICES ASSUME NEW i \in 1 .. Len(queue), NEW j \in 1 .. Len(queue), i < j
               PROVE  r[i].left <= r[j].left
    BY <1>6 DEF Ordered
  <2>1. queue[i].left <= queue[j].left
    BY <1>1 DEF QueueOk, Ordered
  <2> QED BY <1>5, <2>1
<1>8. Apart(r)
  BY <1>1, <1>5, <1>6 DEF QueueOk, Apart
<1>9. Newest(r, latest)
  <2>1. Newest(queue, latest)
    BY <1>1 DEF QueueOk
  <2>2. ASSUME NEW i \in 1 .. Len(r), r[i].id \in ReplaceId
        PROVE  Told(r[i], latest)
    <3>1. i \in 1 .. Len(queue) /\ queue[i].id = r[i].id
      BY <1>5, <1>6
    <3>2. Told(queue[i], latest)
      BY <2>1, <2>2, <3>1 DEF Newest
    <3> QED BY <1>5, <3>1, <3>2 DEF Told
  <2>3. ASSUME NEW i \in 1 .. Len(r), NEW j \in 1 .. Len(r), Rivals(r[i], r[j], latest)
        PROVE  i = j
    <3>1. /\ i \in 1 .. Len(queue) /\ queue[i].id = r[i].id /\ queue[i].to = r[i].to
          /\ j \in 1 .. Len(queue) /\ queue[j].id = r[j].id /\ queue[j].to = r[j].to
      BY <1>5, <1>6
    <3>2. Rivals(queue[i], queue[j], latest)
      BY <2>3, <3>1 DEF Rivals
    <3> QED BY <2>1, <3>1, <3>2 DEF Newest
  <2> QED BY <2>2, <2>3 DEF Newest
<1>10. QueueOk(r, now', latest)
  BY <1>5, <1>6, <1>7, <1>8, <1>9 DEF QueueOk
<1>11. now' \in 0 .. Wrap - 1
  <2>1. PICK h \in Nat : Wrap = 2 * h /\ MaxAge \in Nat /\ MaxAge < h
    BY ClockFacts
  <2>2. Wrap \in Nat /\ Wrap > 0 /\ now + 1 \in Int
    BY <1>1, <2>1
  <2> QED BY <1>2, <2>2
<1>12. Separate(r, delivered)
  BY <1>1, <1>5, <1>6 DEF Stored, Separate
<1>13. Stored'
  BY <1>1, <1>2, <1>4, <1>10, <1>11, <1>12 DEF Stored
<1>14. /\ DOMAIN timer' = DOMAIN timer
       /\ \A i \in DOMAIN timer : timer'[i] = IF timer[i] = 0 THEN 0 ELSE timer[i] - 1
       /\ \A i \in DOMAIN timer : timer[i] \in Nat
  BY <1>1 DEF Tick, Scheduled
<1>15. Scheduled'
  BY <1>1, <1>2, <1>14 DEF Scheduled
<1>16. ASSUME Waking(queue, closed, timer, sched)
       PROVE  Waking(queue', closed', timer', sched')
  <2> SUFFICES ASSUME sched = << >>, NEW i \in 1 .. Len(queue), r[i].cond \notin closed
               PROVE  Timed(r[i], timer')
    BY <1>2, <1>4, <1>6 DEF Waking
  <2>1. queue[i].cond \notin closed
    BY <1>5
  <2>2. Timed(queue[i], timer)
    BY <1>16, <2>1 DEF Waking
  <2>3. PICK j \in DOMAIN timer : timer[j] <= 0 \/ timer[j] <= queue[i].left
    BY <2>2 DEF Timed
  <2>4. timer'[j] <= 0 \/ timer'[j] <= r[i].left
    <3>1. queue[i].left \in Int /\ r[i].left = queue[i].left - 1
      BY <1>5
    <3> QED BY <1>14, <2>3, <3>1
  <2> QED BY <1>14, <2>4 DEF Timed
<1> QED BY <1>2, <1>13, <1>15, <1>16 DEF MessagesInv

\* The invariant holds whatever happens.
LEMMA MessagesNext == MessagesInv /\ [Next]_vars => MessagesInv'
<1> SUFFICES ASSUME MessagesInv, [Next]_vars PROVE MessagesInv'
  OBVIOUS
<1>1. CASE Handler
  BY <1>1, HandlerKeeps
<1>2. CASE trap_api_sched_msg_handler
  BY <1>2, WaitKeeps, NextKeeps, EndKeeps, CallsKeep DEF trap_api_sched_msg_handler
<1>3. ASSUME NEW id \in SystemId, NEW dup \in BOOLEAN, trap_api_send_message_filtered(id, dup)
      PROVE  MessagesInv'
  BY <1>3, SystemMessageKeeps
<1>4. CASE TimerExpires
  BY <1>4, TimerKeeps DEF TimerExpires
<1>5. CASE Tick
  BY <1>5, TickKeeps
<1>6. CASE UNCHANGED vars
  <2>1. /\ now' = now /\ queue' = queue /\ delivered' = delivered /\ cur' = cur
        /\ closed' = closed /\ system' = system /\ held' = held /\ latest' = latest
        /\ pending' = pending /\ run_timer' = run_timer /\ timer' = timer /\ sched' = sched
    BY <1>6 DEF vars
  <2>2. Stored' /\ Scheduled'
    BY <2>1 DEF MessagesInv, Stored, Scheduled
  <2> QED BY <2>1, <2>2 DEF MessagesInv
<1> QED BY <1>1, <1>2, <1>3, <1>4, <1>5, <1>6 DEF Next

\* Every state of the message queue satisfies the invariant.
THEOREM MessagesInvariant == Spec => []MessagesInv
  BY MessagesInit, MessagesNext, PTL DEF Spec

-----------------------------------------------------------------------------
(* What follows *)

\* The elements of a sequence.
LEMMA ElementFacts ==
    ASSUME NEW S, NEW s \in Seq(S), NEW x \in Elements(s)
    PROVE  x \in S /\ \E i \in 1 .. Len(s) : x = s[i]
  BY DEF Elements

\* The invariant has the type invariant in it.
LEMMA MessagesTyped == MessagesInv => TypeOK
<1> SUFFICES ASSUME MessagesInv PROVE TypeOK
  OBVIOUS
<1>1. /\ Stored /\ Scheduled /\ queue \in Seq(Queued) /\ delivered \in Seq(Items)
      /\ sched \in Seq(Wakes)
  BY DEF MessagesInv, Stored, QueueOk, DeliveredOk, Scheduled
<1>2. ASSUME NEW m \in Elements(queue) PROVE m \in AppMessage /\ m.left >= -MaxAge
  <2>1. m \in Queued
    BY <1>1, ElementFacts
  <2>2. PICK i \in 1 .. Len(queue) : m = queue[i]
    BY <1>1, ElementFacts
  <2>3. InTime(m, now)
    BY <1>1, <2>2 DEF Stored, QueueOk
  <2> QED BY <2>1, <2>3 DEF Queued, InTime
<1>3. ASSUME NEW d \in Elements(delivered) PROVE d.ptr \in Ptr /\ d.ref \in Nat \ {0}
  <2>1. d \in Items
    BY <1>1, ElementFacts
  <2> QED BY <2>1 DEF Items
<1>4. ASSUME NEW s \in Elements(sched) PROVE s \in {"run", "event"}
  <2>1. s \in Wakes
    BY <1>1, ElementFacts
  <2> QED BY <2>1 DEF Wakes
<1>5. cur.todo \subseteq Task /\ cur.task \in Task \cup {None}
  BY <1>1 DEF Stored, Deliveries
<1>6. /\ now \in 0 .. Wrap - 1 /\ held \in [Ptr -> Nat]
      /\ latest \in [Task -> ReplaceId \cup {None}]
  BY <1>1 DEF Stored, LatestTable
<1>7. /\ pending \in BOOLEAN /\ DOMAIN timer \subseteq TimerId
      /\ run_timer \in TimerId \cup {None}
  BY <1>1 DEF Scheduled
<1>8. closed \subseteq Cond /\ system \in Task \cup {None}
  BY DEF MessagesInv
<1> QED BY <1>2, <1>3, <1>4, <1>5, <1>6, <1>7, <1>8 DEF TypeOK

\* The message at the head of those that can be delivered.
LEMMA HeadIsTimed ==
    ASSUME MessagesInv, ~cur.busy, FirstOpen(queue) # 0, sched = << >>
    PROVE  \E i \in DOMAIN timer :
              timer[i] <= IF queue[FirstOpen(queue)].left > 0
                          THEN queue[FirstOpen(queue)].left ELSE 0
<1>1. /\ queue \in Seq(Queued) /\ Waking(queue, closed, timer, sched)
      /\ \A i \in DOMAIN timer : timer[i] \in Nat
  BY DEF MessagesInv, Stored, QueueOk, Scheduled
<1>2. PICK k : k = FirstOpen(queue)
  OBVIOUS
<1>3. k \in 1 .. Len(queue) /\ queue[k].cond \notin closed
  BY <1>1, <1>2, FirstOpenFacts
<1>4. Timed(queue[k], timer)
  BY <1>1, <1>3 DEF Waking
<1>5. PICK i \in DOMAIN timer : timer[i] <= 0 \/ timer[i] <= queue[k].left
  BY <1>4 DEF Timed
<1>6. queue[k] \in Queued
  BY <1>1, <1>3
<1>7. queue[k].left \in Int
  BY <1>6 DEF Queued, AppMessage
<1>8. timer[i] <= IF queue[k].left > 0 THEN queue[k].left ELSE 0
  BY <1>1, <1>5, <1>7
<1> QED BY <1>2, <1>8

\* A message that nothing blocks is never forgotten: between two deliveries
\* the scheduler holds a message for the task, or a timer expires in time.
THEOREM MessagesNoLostWakeup == Spec => []NoLostWakeup
<1>1. MessagesInv => NoLostWakeup
  BY MessagesTyped, HeadIsTimed DEF NoLostWakeup
<1> QED BY <1>1, MessagesInvariant, PTL

\* A payload stays on the list of delivered messages until it has been freed
\* as often as the recipients of the message retained it: its references are
\* those who hold it and the delivery.
THEOREM MessagesRetained == Spec => []RetainedStaysDelivered
<1>1. ASSUME MessagesInv PROVE RetainedStaysDelivered
  <2>1. /\ delivered \in Seq(Items) /\ DOMAIN delivered = 1 .. Len(delivered)
        /\ DeliveredOk(delivered, held, cur.busy)
    BY <1>1 DEF MessagesInv, Stored, DeliveredOk
  <2>2. ASSUME NEW p \in Ptr, held[p] > 0
        PROVE  \E d \in Elements(delivered) : d.ptr = p
    <3>1. PICK i \in 1 .. Len(delivered) : delivered[i].ptr = p
      BY <2>1, <2>2 DEF DeliveredOk
    <3> QED BY <2>1, <3>1 DEF Elements
  <2>3. ASSUME NEW i \in DOMAIN delivered
        PROVE  delivered[i].ref = held[delivered[i].ptr] + IF i = 1 /\ cur.busy THEN 1 ELSE 0
    BY <2>1 DEF DeliveredOk, Bonus
  <2> QED BY <2>2, <2>3 DEF RetainedStaysDelivered
<1> QED BY <1>1, MessagesInvariant, PTL

\* A task has at most one of the system messages that replace each other in
\* its queue, and it is the latest that was posted to it, until the other
\* processor lets a duplicate in and again when the duplicates have gone.
THEOREM MessagesLatest == Spec => []LatestSystemMessage
<1>1. ASSUME MessagesInv PROVE LatestSystemMessage
  <2>1. DOMAIN queue = 1 .. Len(queue) /\ Newest(queue, latest)
    BY <1>1 DEF MessagesInv, Stored, QueueOk
  <2> SUFFICES ASSUME NEW i \in 1 .. Len(queue), queue[i].id \in ReplaceId,
                      NEW t \in queue[i].to, latest[t] # None
               PROVE  /\ latest[t] = queue[i].id
                      /\ \A j \in 1 .. Len(queue) : replaces(queue[i], queue[j]) => i = j
    BY <2>1 DEF LatestSystemMessage
  <2>2. queue[i].to = {t} /\ latest[t] \in {None, queue[i].id}
    BY <2>1 DEF Newest, Told
  <2>3. ASSUME NEW j \in 1 .. Len(queue), replaces(queue[i], queue[j]) PROVE i = j
    <3>1. Rivals(queue[i], queue[j], latest)
      BY <2>2, <2>3 DEF replaces, Rivals
    <3> QED BY <2>1, <3>1 DEF Newest
  <2> QED BY <2>2, <2>3
<1> QED BY <1>1, MessagesInvariant, PTL

\* A release never makes the list longer.
LEMMA ReleaseShrinks ==
    ASSUME NEW list \in Seq(Items), Apart(list), NEW k \in 1 .. Len(list)
    PROVE  ~(Len(app_message_release(list, list[k].ptr)) > Len(list))
<1>1. Len(list) \in Nat /\ PlaceOf(list, list[k].ptr) = k
  BY PlaceFacts
<1>2. PICK r : r = app_message_release(list, list[k].ptr)
  OBVIOUS
<1>3. r = IF list[k].ref = 1 THEN RemoveAt(list, k) ELSE [list EXCEPT ![k].ref = @ - 1]
  BY <1>1, <1>2 DEF app_message_release, app_message_destroy
<1>4. CASE list[k].ref = 1
  <2>1. r = RemoveAt(list, k)
    BY <1>3, <1>4
  <2>2. Len(r) = Len(list) - 1
    BY <2>1, RemoveAtFacts
  <2> QED BY <1>1, <1>2, <2>2
<1>5. CASE list[k].ref # 1
  <2>1. r = [list EXCEPT ![k].ref = @ - 1]
    BY <1>3, <1>5
  <2>2. Len(r) = Len(list)
    BY <2>1
  <2> QED BY <1>1, <1>2, <2>2
<1> QED BY <1>4, <1>5

\* Only the scheduler's handler adds to the list of delivered messages.
LEMMA OthersDeliverNothing ==
    ASSUME MessagesInv, [Next]_vars, ~vm_message_next
    PROVE  ~(Len(delivered') > Len(delivered))
<1>1. /\ Stored /\ delivered \in Seq(Items) /\ Apart(delivered) /\ Len(delivered) \in Nat
      /\ held \in [Ptr -> Nat]
  BY DEF MessagesInv, Stored, DeliveredOk
<1>2. CASE delivered' = delivered
  BY <1>1, <1>2
<1>3. CASE MessageRetain
  <2>1. cur.busy = TRUE /\ DeliveredOk(delivered, held, cur.busy)
    BY <1>1, <1>3, RunningFacts DEF MessageRetain, Stored
  <2>2. DeliveredOk(delivered, held, TRUE)
    BY <2>1
  <2>3. Len(delivered') = Len(delivered)
    BY <1>1, <1>3, <2>2, RetainFacts DEF MessageRetain
  <2> QED BY <1>1, <2>3
<1>4. ASSUME NEW p \in Ptr, MessageFree(p) PROVE ~(Len(delivered') > Len(delivered))
  <2>1. held[p] > 0 /\ delivered' = app_message_release(delivered, p)
    BY <1>4 DEF MessageFree
  <2>2. PICK k \in 1 .. Len(delivered) : delivered[k].ptr = p
    BY <1>1, <2>1 DEF Stored, DeliveredOk
  <2> QED BY <1>1, <2>1, <2>2, ReleaseShrinks
<1>5. CASE DeliveryEnds
  <2>1. cur.busy /\ delivered' = app_message_release(delivered, delivered[1].ptr)
    BY <1>5 DEF DeliveryEnds
  <2>2. delivered # << >>
    BY <1>1, <2>1 DEF Stored, DeliveredOk
  <2>3. 1 \in 1 .. Len(delivered)
    BY <1>1, <2>2
  <2> QED BY <1>1, <2>1, <2>3, ReleaseShrinks
<1>6. \/ delivered' = delivered \/ MessageRetain \/ DeliveryEnds
      \/ \E p \in Ptr : MessageFree(p)
  BY DEF Next, vars, Handler, MessageSendLater, MessageSendConditionally, CancelFirst,
         CancelAll, MessageFlushTask, MessageSystemTask, SetCondition,
         trap_api_sched_msg_handler, WaitForMessage, CallHandler, HandlerReturns,
         trap_api_send_message_filtered, TimerExpires, deliver_timed_message, Tick
<1> QED BY <1>1, <1>2, <1>3, <1>4, <1>5, <1>6

\* A message is taken for delivery when it is due in truth, and no message
\* that is due earlier could be delivered instead, even when the clock wraps
\* between the two.
THEOREM MessagesNeverEarly == Spec => NeverEarly
<1> DEFINE Taken(i) ==
      Len(delivered') > Len(delivered) /\ delivered'[1].ptr = queue[i].ptr
        => /\ queue[i].left <= 0
           /\ \A j \in DOMAIN queue :
                 queue[j].cond \notin closed => queue[i].left <= queue[j].left
<1>1. ASSUME MessagesInv, [Next]_vars PROVE \A i \in DOMAIN queue : Taken(i)
  <2> SUFFICES ASSUME vm_message_next, NEW i \in DOMAIN queue,
                      delivered'[1].ptr = queue[i].ptr
               PROVE  /\ queue[i].left <= 0
                      /\ \A j \in DOMAIN queue :
                            queue[j].cond \notin closed => queue[i].left <= queue[j].left
    BY <1>1, OthersDeliverNothing
  <2>1. /\ queue \in Seq(Queued) /\ DOMAIN queue = 1 .. Len(queue) /\ Apart(queue)
        /\ Ordered(queue) /\ now \in 0 .. Wrap - 1
        /\ \A j \in 1 .. Len(queue) : InTime(queue[j], now)
    BY <1>1 DEF MessagesInv, Stored, QueueOk
  <2>2. PICK k : k = FirstOpen(queue)
    OBVIOUS
  <2>3. /\ k # 0 /\ VM_DIFF(queue[k].due, now) <= 0
        /\ delivered' = <<[ptr |-> queue[k].ptr, ref |-> 1]>> \o delivered
    BY <2>2 DEF vm_message_next
  <2>4. /\ k \in 1 .. Len(queue)
        /\ \A j \in 1 .. Len(queue) : queue[j].cond \notin closed => k <= j
    BY <2>1, <2>2, <2>3, FirstOpenFacts
  <2>5. delivered \in Seq(Items)
    BY <1>1 DEF MessagesInv, Stored, DeliveredOk
  <2>6. ASSUME NEW j \in 1 .. Len(queue)
        PROVE  queue[j] \in AppMessage /\ queue[j].ptr \in Ptr /\ queue[j].left \in Int
    <3>1. queue[j] \in Queued
      BY <2>1
    <3> QED BY <3>1 DEF Queued, AppMessage
  <2>7. delivered'[1].ptr = queue[k].ptr
    <3>1. PICK p \in Ptr : p = queue[k].ptr
      BY <2>4, <2>6
    <3>2. [ptr |-> p, ref |-> 1] \in Items /\ [ptr |-> p, ref |-> 1].ptr = p
      BY DEF Items
    <3>3. PICK d \in Items : d = [ptr |-> p, ref |-> 1]
      BY <3>2
    <3>4. (<<d>> \o delivered)[1] = d
      BY <2>5
    <3> QED BY <2>3, <3>1, <3>2, <3>3, <3>4
  <2>8. i = k
    BY <2>1, <2>4, <2>7 DEF Apart
  <2>9. queue[k].left <= 0
    <3>1. VM_DIFF(queue[k].due, now) = queue[k].left
      BY <2>1, <2>4, <2>6, DueFacts
    <3> QED BY <2>3, <3>1
  <2>10. ASSUME NEW j \in 1 .. Len(queue), queue[j].cond \notin closed
         PROVE  queue[k].left <= queue[j].left
    <3>1. k <= j
      BY <2>4, <2>10
    <3>2. CASE k = j
      BY <2>6, <3>2
    <3>3. CASE k < j
      BY <2>1, <2>4, <3>3 DEF Ordered
    <3> QED BY <2>4, <3>1, <3>2, <3>3
  <2> QED BY <2>1, <2>8, <2>9, <2>10
<1>2. MessagesInv /\ [Next]_vars => [\A i \in DOMAIN queue : Taken(i)]_vars
  BY <1>1
<1>3. Spec => [][\A i \in DOMAIN queue : Taken(i)]_vars
  <2> HIDE DEF Taken
  <2> QED BY <1>2, MessagesInvariant, PTL DEF Spec
<1> QED BY <1>3 DEF NeverEarly

=============================================================================
