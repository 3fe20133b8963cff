------------------------ MODULE MetricsEndpoint_proofs -------------------------
(***************************************************************************)
(* Proofs about ReplayBuffer and MetricsEndpoint for any capacity and any  *)
(* events.                                                                 *)
(***************************************************************************)
EXTENDS MetricsEndpoint, SequenceTheorems, Ordering_proofs

USE ConstantsAssumption

\* Appending makes a sequence of the set again, one longer.
LEMMA Appended ==
  ASSUME NEW s \in Seq(Events), NEW e \in Events
  PROVE  Append(s, e) \in Seq(Events) /\ Len(Append(s, e)) = Len(s) + 1
  OBVIOUS

LEMMA RecordKeeps == ASSUME TypeOK, NEW event \in Events, Record(event) PROVE TypeOK'
<1> USE DEF TypeOK
<1>1. log' \in Seq(Events) /\ UNCHANGED capacity
  BY Appended DEF Record
<1>2. CASE Len(events) = capacity
  <2>1. Tail(events) \in Seq(Events) /\ Len(Tail(events)) = capacity - 1
    BY <1>2
  <2>2. events' = Append(Tail(events), event)
    BY <1>2 DEF Record
  <2> QED BY <1>1, <2>1, <2>2, Appended
<1>3. CASE Len(events) # capacity
  <2>1. events' = Append(events, event)
    BY <1>3 DEF Record
  <2> QED BY <1>1, <1>3, <2>1, Appended
<1> QED BY <1>2, <1>3

\* Only recording changes the buffer: the handler's steps do not.
LEMMA HandlerReads == (Ask \/ Handle) => UNCHANGED buffer
  BY DEF Ask, Handle, Summarise, CountRecorded, Answer, buffer

\* The buffer never outgrows its capacity, whatever capacity was asked for.
THEOREM TypeCorrect == ServerSpec => []TypeOK
<1>1. Start => TypeOK
  BY DEF Start, Init, TypeOK
<1>2. TypeOK /\ [Step]_vars => TypeOK'
  <2> SUFFICES ASSUME TypeOK, [Step]_vars PROVE TypeOK'
    OBVIOUS
  <2>1. ASSUME UNCHANGED buffer PROVE TypeOK'
    BY <2>1 DEF TypeOK, buffer
  <2> QED BY <2>1, HandlerReads, RecordKeeps DEF Step, Recording, vars
<1> QED BY <1>1, <1>2, PTL DEF ServerSpec

-----------------------------------------------------------------------------
(* What the buffer keeps *)

\* The deque is the end of the log: all of it, or its last capacity events.
Kept ==
  /\ Len(events) <= Len(log)
  /\ Len(events) < capacity => Len(events) = Len(log)
  /\ \A i \in 1 .. Len(events) : events[i] = log[Len(log) - Len(events) + i]

LEMMA RecordKeepsTheEnd == ASSUME TypeOK, Kept, NEW event \in Events, Record(event) PROVE Kept'
<1> USE DEF TypeOK
<1> DEFINE n == Len(log)
           k == Len(events)
<1>1. /\ log' = Append(log, event) /\ capacity' = capacity
      /\ Len(log') = n + 1 /\ log'[n + 1] = event
      /\ \A i \in 1 .. n : log'[i] = log[i]
  BY DEF Record
<1>2. n \in Nat /\ k \in Nat /\ k <= n /\ \A i \in 1 .. k : events[i] = log[n - k + i]
  BY DEF Kept
<1>3. CASE k = capacity
  <2>1. /\ Tail(events) \in Seq(Events) /\ Len(Tail(events)) = k - 1
        /\ \A i \in 1 .. k - 1 : Tail(events)[i] = events[i + 1]
    BY <1>3
  <2>2. events' = Append(Tail(events), event)
    BY <1>3 DEF Record
  <2>3. /\ Len(events') = k /\ events'[k] = event
        /\ \A i \in 1 .. k - 1 : events'[i] = events[i + 1]
    BY <1>3, <2>1, <2>2
  <2> HIDE DEF n, k
  <2>4. ASSUME NEW i \in 1 .. k PROVE events'[i] = log'[n + 1 - k + i]
    <3>1. CASE i = k
      <4>1. n + 1 - k + i = n + 1
        BY <1>2, <3>1
      <4> QED BY <1>1, <2>3, <3>1, <4>1
    <3>2. CASE i \in 1 .. k - 1
      <4>1. i + 1 \in 1 .. k /\ n - k + (i + 1) \in 1 .. n /\ n - k + (i + 1) = n + 1 - k + i
        BY <1>2, <3>2
      <4> QED BY <1>1, <1>2, <2>3, <3>2, <4>1
    <3> QED BY <1>2, <3>1, <3>2
  <2>5. Len(events') <= Len(log') /\ ~ (Len(events') < capacity')
    BY <1>1, <1>2, <1>3, <2>3
  <2>6. \A i \in 1 .. Len(events') : events'[i] = log'[Len(log') - Len(events') + i]
    <3>1. Len(log') - Len(events') = n + 1 - k
      BY <1>1, <1>2, <2>3
    <3>2. Len(events') = k
      BY <2>3
    <3>3. \A i \in 1 .. k : events'[i] = log'[n + 1 - k + i]
      BY <2>4
    <3> QED BY <3>1, <3>2, <3>3
  <2> QED BY <2>5, <2>6 DEF Kept
<1>4. CASE k # capacity
  <2>1. /\ Len(events') = k + 1 /\ events'[k + 1] = event
        /\ \A i \in 1 .. k : events'[i] = events[i]
    BY <1>4 DEF Record
  <2>2. k = n
    BY <1>4 DEF Kept
  <2> HIDE DEF n, k
  <2>3. ASSUME NEW i \in 1 .. k + 1 PROVE events'[i] = log'[i]
    <3>1. CASE i = k + 1
      BY <1>1, <2>1, <2>2, <3>1
    <3>2. CASE i \in 1 .. k
      BY <1>1, <1>2, <2>1, <2>2, <3>2
    <3> QED BY <1>2, <3>1, <3>2
  <2> QED BY <1>1, <1>2, <2>1, <2>2, <2>3 DEF Kept
<1> QED BY <1>3, <1>4

LEMMA KeptInv == ServerSpec => [](TypeOK /\ Kept)
<1>1. Start => Kept
  BY DEF Start, Init, Kept
<1>2. TypeOK /\ Kept /\ [Step]_vars => Kept'
  <2> SUFFICES ASSUME TypeOK, Kept, [Step]_vars PROVE Kept'
    OBVIOUS
  <2>1. ASSUME UNCHANGED buffer PROVE Kept'
    BY <2>1 DEF Kept, buffer
  <2> QED BY <2>1, HandlerReads, RecordKeepsTheEnd DEF Step, Recording, vars
<1> QED BY <1>1, <1>2, TypeCorrect, PTL DEF ServerSpec

\* Across evictions the buffer holds exactly the newest events, in the order they
\* were recorded: what the queries of buffer.rs select from.
THEOREM TheNewestAreKept == ServerSpec => []Kept
<1> QED BY KeptInv, PTL
-----------------------------------------------------------------------------
(* Sums *)

\* g holds the running totals of the first n numbers of w.
Sums(g, w, n) == g = [i \in 0 .. n |-> IF i = 0 THEN 0 ELSE g[i - 1] + w[i]]

LEMMA SumsAre ==
  ASSUME NEW g, NEW w, NEW n \in Nat, Sums(g, w, n)
  PROVE  g[0] = 0 /\ \A i \in 1 .. n : g[i] = g[i - 1] + w[i]
  BY DEF Sums

LEMMA SumsExist ==
  ASSUME NEW n \in Nat, NEW w, \A i \in 1 .. n : w[i] \in Int
  PROVE  \E g \in [0 .. n -> Int] : Sums(g, w, n)
<1> DEFINE S == {k \in 0 .. n : \E g \in [0 .. k -> Int] : Sums(g, w, k)}
<1>1. 0 \in S
  <2> DEFINE g == [i \in 0 .. 0 |-> 0]
  <2>1. g \in [0 .. 0 -> Int] /\ Sums(g, w, 0)
    BY DEF Sums
  <2> QED BY <2>1
<1>2. ASSUME NEW k \in 0 .. n - 1, k \in S PROVE k + 1 \in S
  <2>1. PICK g \in [0 .. k -> Int] : Sums(g, w, k)
    BY <1>2
  <2> DEFINE h == [i \in 0 .. k + 1 |-> IF i = k + 1 THEN g[k] + w[k + 1] ELSE g[i]]
  <2>2. h \in [0 .. k + 1 -> Int]
    BY <2>1
  <2>3. g[0] = 0 /\ \A i \in 1 .. k : g[i] = g[i - 1] + w[i]
    <3> HIDE DEF h, S
    <3> QED BY <2>1 DEF Sums
  <2>4. h[0] = 0 /\ \A i \in 1 .. k + 1 : h[i] = h[i - 1] + w[i]
    BY <2>3
  <2> HIDE DEF h
  <2>5. Sums(h, w, k + 1)
    BY <2>2, <2>4 DEF Sums
  <2> QED BY <2>2, <2>5
<1> HIDE DEF S
<1>3. 0 .. n \subseteq S
  BY <1>1, <1>2, UpTo
<1>4. n \in 0 .. n
  OBVIOUS
<1> QED BY <1>3, <1>4 DEF S

LEMMA SumsAreUnique ==
  ASSUME NEW n \in Nat, NEW w, NEW g, NEW h, Sums(g, w, n), Sums(h, w, n)
  PROVE  g[n] = h[n]
<1> DEFINE S == {k \in 0 .. n : g[k] = h[k]}
<1>1. 0 \in S
  BY SumsAre
<1>2. ASSUME NEW k \in 0 .. n - 1, k \in S PROVE k + 1 \in S
  <2>1. g[k + 1] = g[k] + w[k + 1] /\ h[k + 1] = h[k] + w[k + 1]
    BY SumsAre
  <2> QED BY <1>2, <2>1
<1> HIDE DEF S
<1>3. 0 .. n \subseteq S
  BY <1>1, <1>2, UpTo
<1>4. n \in 0 .. n
  OBVIOUS
<1> QED BY <1>3, <1>4 DEF S

\* Whatever adds up like the pass over the deque is what the pass returns.
LEMMA TotalIs ==
  ASSUME NEW w, NEW n \in Nat, Len(w) = n, NEW g, Sums(g, w, n)
  PROVE  Total(w) = g[n]
<1> DEFINE h == CHOOSE h : Sums(h, w, n)
<1>1. Sums(h, w, n)
  OBVIOUS
<1>2. Total(w) = h[n]
  BY DEF Total, Sums
<1> HIDE DEF h
<1> QED BY <1>1, <1>2, SumsAreUnique

LEMMA RunningTotalIs ==
  ASSUME NEW value \in [Events -> Int], log \in Seq(Events)
  PROVE  /\ RunningTotal(value) \in [0 .. Len(log) -> Int]
         /\ \A i \in 1 .. Len(log) :
              RunningTotal(value)[i] = RunningTotal(value)[i - 1] + value[log[i]]
<1> DEFINE n == Len(log)
           w == [i \in 1 .. n |-> value[log[i]]]
           h == CHOOSE h : h = [i \in 0 .. n |-> IF i = 0 THEN 0 ELSE h[i - 1] + value[log[i]]]
<1>1. n \in Nat /\ \A i \in 1 .. n : w[i] \in Int /\ w[i] = value[log[i]]
  OBVIOUS
<1> HIDE DEF w
<1>2. PICK g \in [0 .. n -> Int] :
        Sums(g, w, n) /\ g[0] = 0 /\ \A i \in 1 .. n : g[i] = g[i - 1] + w[i]
  <2>1. n \in Nat
    BY <1>1
  <2> HIDE DEF n
  <2>2. PICK g \in [0 .. n -> Int] : Sums(g, w, n)
    BY <1>1, SumsExist
  <2>3. g[0] = 0 /\ \A i \in 1 .. n : g[i] = g[i - 1] + w[i]
    BY <2>1, <2>2 DEF Sums
  <2> QED BY <2>2, <2>3
<1> DEFINE F(f) == [i \in 0 .. n |-> IF i = 0 THEN 0 ELSE f[i - 1] + value[log[i]]]
<1>3. ASSUME NEW f PROVE Sums(f, w, n) <=> f = F(f)
  <2>1. \A i \in 0 .. n : i # 0 => i \in 1 .. n
    BY <1>1
  <2>2. \A i \in 0 .. n : (IF i = 0 THEN 0 ELSE f[i - 1] + w[i])
                            = (IF i = 0 THEN 0 ELSE f[i - 1] + value[log[i]])
    BY <1>1, <2>1
  <2>3. [i \in 0 .. n |-> IF i = 0 THEN 0 ELSE f[i - 1] + w[i]] = F(f)
    BY <2>2
  <2> QED BY <2>3 DEF Sums
<1>4. h = [i \in 0 .. n |-> IF i = 0 THEN 0 ELSE h[i - 1] + value[log[i]]]
  <2>1. g = F(g)
    BY <1>2, <1>3
  <2> QED BY <2>1
<1>5. RunningTotal(value) = h
  BY DEF RunningTotal
<1> HIDE DEF h
<1>6. h[0] = 0 /\ \A i \in 1 .. n : h[i] = h[i - 1] + w[i]
  <2>1. \A i \in 0 .. n : h[i] = IF i = 0 THEN 0 ELSE h[i - 1] + value[log[i]]
    BY <1>4
  <2>2. 0 \in 0 .. n /\ \A i \in 1 .. n : i \in 0 .. n /\ i # 0 /\ w[i] = value[log[i]]
    BY <1>1
  <2> QED BY <2>1, <2>2
<1>7. Sums(h, w, n)
  BY <1>3, <1>4
<1>8. ASSUME NEW k \in 0 .. n PROVE h[k] = g[k]
  <2> DEFINE S == {i \in 0 .. n : h[i] = g[i]}
  <2>1. 0 \in S
    BY <1>1, <1>2, <1>6
  <2>2. ASSUME NEW i \in 0 .. n - 1, i \in S PROVE i + 1 \in S
    <3>1. i + 1 \in 1 .. n /\ (i + 1) - 1 = i
      BY <1>1
    <3>2. h[i + 1] = h[(i + 1) - 1] + w[i + 1]
      BY <1>6, <3>1
    <3>3. g[i + 1] = g[(i + 1) - 1] + w[i + 1]
      BY <1>2, <3>1
    <3> QED BY <2>2, <3>1, <3>2, <3>3
  <2> HIDE DEF S
  <2>3. k \in S
    BY <1>1, <2>1, <2>2, UpTo
  <2> QED BY <2>3 DEF S
<1>9. h \in [0 .. n -> Int]
  BY <1>2, <1>4, <1>8
<1> QED BY <1>1, <1>5, <1>6, <1>9

LEMMA SumsIf ==
  ASSUME NEW n \in Nat, NEW w, NEW g, g = [i \in 0 .. n |-> g[i]],
         g[0] = 0, \A i \in 1 .. n : g[i] = g[i - 1] + w[i]
  PROVE  Sums(g, w, n)
<1>1. \A i \in 0 .. n : i = 0 \/ i \in 1 .. n
  OBVIOUS
<1>2. \A i \in 0 .. n : g[i] = IF i = 0 THEN 0 ELSE g[i - 1] + w[i]
  BY <1>1
<1>3. [i \in 0 .. n |-> g[i]] = [i \in 0 .. n |-> IF i = 0 THEN 0 ELSE g[i - 1] + w[i]]
  BY <1>2
<1> QED BY <1>3 DEF Sums

-----------------------------------------------------------------------------
(* What the buffer held after n events *)

Before(n) == IF n <= capacity THEN 0 ELSE n - capacity
Held(n) == SubSeq(log, Before(n) + 1, n)

LEMMA HeldIs ==
  ASSUME TypeOK, NEW n \in 0 .. Len(log)
  PROVE  /\ Before(n) \in 0 .. n
         /\ Held(n) \in Seq(Events) /\ Len(Held(n)) = n - Before(n)
         /\ \A i \in 1 .. n - Before(n) : Held(n)[i] = log[Before(n) + i]
         /\ HeldAfter(n) = Before(n) + 1 .. n
         /\ Cardinality(HeldAfter(n)) = n - Before(n)
<1> DEFINE b == Before(n)
<1>1. n \in Nat /\ capacity \in Nat \ {0} /\ log \in Seq(Events) /\ Len(log) \in Nat
  BY DEF TypeOK
<1>2. b \in 0 .. n /\ b \in Nat
  BY <1>1 DEF Before
<1>3. HeldAfter(n) = b + 1 .. n
  <2>1. Newest(0 + 1 .. n, capacity) = (IF capacity <= n - 0 THEN n - capacity ELSE 0) + 1 .. n
    BY <1>1, NewestOfInterval
  <2>2. (IF capacity <= n - 0 THEN n - capacity ELSE 0) = b /\ 0 + 1 = 1
    BY <1>1 DEF Before
  <2> QED BY <2>1, <2>2 DEF HeldAfter
<1> HIDE DEF b
<1>4. Cardinality(b + 1 .. n) = n - b
  <2>1. b + 1 \in Int /\ n \in Int
    BY <1>1, <1>2
  <2>2. Cardinality(b + 1 .. n) = IF b + 1 > n THEN 0 ELSE n - (b + 1) + 1
    BY <2>1, FS_Interval
  <2> QED BY <1>1, <1>2, <2>2
<1>5. \A i \in b + 1 .. n : i \in 1 .. Len(log)
  BY <1>1, <1>2
<1>6. /\ SubSeq(log, b + 1, n) \in Seq(Events) /\ Len(SubSeq(log, b + 1, n)) = n - b
      /\ \A i \in 1 .. n - b : SubSeq(log, b + 1, n)[i] = log[b + i]
  BY <1>1, <1>2, <1>5
<1> QED BY <1>2, <1>3, <1>4, <1>6 DEF Held, b

\* A counter of the summary counts the events of its outcome among those held.
LEMMA CountIs ==
  ASSUME TypeOK, NEW n \in 0 .. Len(log), NEW o
  PROVE  Count(Held(n), o) = Cardinality({i \in HeldAfter(n) : log[i].outcome = o})
<1> DEFINE b == Before(n)
           k == n - b
           w == [i \in 1 .. Len(Held(n)) |-> IF Held(n)[i].outcome = o THEN 1 ELSE 0]
           M(i) == {j \in b + 1 .. b + i : log[j].outcome = o}
           g == [i \in 0 .. k |-> Cardinality(M(i))]
<1>1. /\ b \in Nat /\ k \in Nat /\ Len(Held(n)) = k /\ HeldAfter(n) = b + 1 .. n
      /\ \A i \in 1 .. k : Held(n)[i] = log[b + i]
  BY HeldIs
<1>2. Len(w) = k /\ \A i \in 1 .. k : w[i] = IF log[b + i].outcome = o THEN 1 ELSE 0
  BY <1>1
<1>3. Count(Held(n), o) = Total(w)
  BY DEF Count
<1>4. b + k = n
  BY <1>1
<1> HIDE DEF b, k, w
<1>5. \A i \in 0 .. k : IsFiniteSet(M(i)) /\ Cardinality(M(i)) \in Nat
  <2> SUFFICES ASSUME NEW i \in 0 .. k PROVE IsFiniteSet(M(i)) /\ Cardinality(M(i)) \in Nat
    OBVIOUS
  <2>1. IsFiniteSet(b + 1 .. b + i)
    BY <1>1, FS_Interval
  <2> QED BY <2>1, FS_Subset, FS_CardinalityType
<1>6. g[0] = 0
  <2>1. M(0) = {}
    BY <1>1
  <2>2. 0 \in 0 .. k
    BY <1>1
  <2>3. g[0] = Cardinality(M(0))
    BY <2>2
  <2> QED BY <2>1, <2>3, FS_EmptySet
<1>7. ASSUME NEW i \in 1 .. k PROVE g[i] = g[i - 1] + w[i]
  <2>1. i - 1 \in 0 .. k /\ i \in 0 .. k /\ IsFiniteSet(M(i - 1))
    <3>1. i - 1 \in 0 .. k /\ i \in 0 .. k
      BY <1>1
    <3> QED BY <1>5, <3>1, Zenon
  <2>2. b + i \notin M(i - 1)
    BY <1>1
  <2>3. g[i] = Cardinality(M(i)) /\ g[i - 1] = Cardinality(M(i - 1))
    BY <2>1
  <2>4. Cardinality(M(i - 1)) \in Nat
    BY <1>5, <2>1
  <2>5. \A j : j \in b + 1 .. b + i <=> j \in b + 1 .. b + (i - 1) \/ j = b + i
    BY <1>1
  <2>6. CASE log[b + i].outcome = o
    <3>1. M(i) = M(i - 1) \cup {b + i}
      BY <2>5, <2>6
    <3>2. Cardinality(M(i)) = Cardinality(M(i - 1)) + 1
      BY <2>1, <2>2, <3>1, FS_AddElement
    <3> QED BY <1>2, <2>6, <2>3, <3>2
  <2>7. CASE log[b + i].outcome # o
    <3>1. M(i) = M(i - 1)
      BY <2>5, <2>7
    <3>2. w[i] = 0
      BY <1>2, <2>7
    <3> HIDE DEF M, g
    <3> QED BY <2>3, <2>4, <3>1, <3>2
  <2> QED BY <2>6, <2>7
<1>8. g = [i \in 0 .. k |-> g[i]] /\ g[k] = Cardinality(M(k))
  BY <1>1
<1> HIDE DEF g
<1>9. Sums(g, w, k)
  BY <1>1, <1>6, <1>7, <1>8, SumsIf
<1>10. Total(w) = g[k]
  BY <1>1, <1>2, <1>9, TotalIs
<1>11. M(k) = {i \in HeldAfter(n) : log[i].outcome = o}
  BY <1>1, <1>4
<1> QED BY <1>3, <1>8, <1>10, <1>11

\* A sum of the summary is the difference of two running totals over the log.
LEMMA SumIs ==
  ASSUME TypeOK, NEW n \in 0 .. Len(log), NEW value \in [Events -> Int]
  PROVE  Total([i \in 1 .. Len(Held(n)) |-> value[Held(n)[i]]])
           = RunningTotal(value)[n] - RunningTotal(value)[Before(n)]
<1> DEFINE b == Before(n)
           k == n - b
           w == [i \in 1 .. Len(Held(n)) |-> value[Held(n)[i]]]
           r == RunningTotal(value)
           g == [i \in 0 .. k |-> r[b + i] - r[b]]
<1>1. /\ b \in Nat /\ k \in Nat /\ Len(Held(n)) = k /\ b + k = n /\ n <= Len(log)
      /\ \A i \in 1 .. k : Held(n)[i] = log[b + i]
  BY HeldIs DEF TypeOK
<1>2. Len(w) = k /\ \A i \in 1 .. k : w[i] = value[log[b + i]]
  BY <1>1
<1>3. r \in [0 .. Len(log) -> Int] /\ \A i \in 1 .. Len(log) : r[i] = r[i - 1] + value[log[i]]
  BY RunningTotalIs DEF TypeOK
<1>4. Len(log) \in Nat
  BY DEF TypeOK
<1> HIDE DEF b, k, w, r
<1>5. \A i \in 0 .. k : b + i \in 0 .. Len(log) /\ r[b + i] \in Int
  <2>1. \A i \in 0 .. k : b + i \in 0 .. Len(log)
    BY <1>1, <1>4
  <2> QED BY <1>3, <2>1
<1>6. r[b] \in Int /\ g[0] = 0
  <2>1. 0 \in 0 .. k /\ b + 0 = b
    BY <1>1
  <2>2. r[b] \in Int
    BY <1>5, <2>1
  <2> QED BY <2>1, <2>2
<1>7. ASSUME NEW i \in 1 .. k PROVE g[i] = g[i - 1] + w[i]
  <2>1. i \in 0 .. k /\ i - 1 \in 0 .. k /\ b + i \in 1 .. Len(log) /\ b + (i - 1) = (b + i) - 1
    BY <1>1, <1>4
  <2>2. r[b + i] = r[b + (i - 1)] + w[i]
    BY <1>2, <1>3, <2>1
  <2>3. g[i] = r[b + i] - r[b] /\ g[i - 1] = r[b + (i - 1)] - r[b]
    BY <2>1
  <2>4. r[b + (i - 1)] \in Int /\ r[b + i] \in Int
    BY <1>5, <2>1
  <2>5. w[i] \in Int
    <3>1. log[b + i] \in Events
      BY <2>1 DEF TypeOK
    <3> QED BY <1>2, <3>1
  <2> HIDE DEF g
  <2> QED BY <1>6, <2>2, <2>3, <2>4, <2>5
<1>8. g = [i \in 0 .. k |-> g[i]] /\ g[k] = r[n] - r[b]
  BY <1>1
<1> HIDE DEF g
<1>9. Sums(g, w, k)
  BY <1>1, <1>6, <1>7, <1>8, SumsIf
<1>10. Total(w) = g[k]
  BY <1>1, <1>2, <1>9, TotalIs
<1> QED BY <1>8, <1>10 DEF w, r, b
-----------------------------------------------------------------------------
(* What an answer holds *)

\* The two reads of a request: the buffer does not shrink between them.
ReadsInOrder ==
  /\ handler = "summed" => summary.total \in Nat /\ summary.total <= Len(events)
  /\ handler \in {"counted", "answered"} /\ summary # None =>
       summary.total <= recorded /\ recorded <= capacity

LEMMA ReadsInOrderInv == ServerSpec => []ReadsInOrder
<1>1. Start => ReadsInOrder
  BY DEF Start, ReadsInOrder
<1>2. TypeOK /\ Kept /\ ReadsInOrder /\ [Step]_vars => ReadsInOrder'
  <2> SUFFICES ASSUME TypeOK, ReadsInOrder, [Step]_vars PROVE ReadsInOrder'
    OBVIOUS
  <2>1. CASE Ask
    BY <2>1 DEF Ask, ReadsInOrder
  <2>2. CASE Summarise
    <3>1. Summarised(events).total = Len(events) /\ Len(events) \in Nat
      BY DEF Summarised, TypeOK
    <3> QED BY <2>2, <3>1 DEF Summarise, ReadsInOrder, buffer
  <2>3. CASE CountRecorded
    BY <2>3 DEF CountRecorded, ReadsInOrder, buffer, TypeOK
  <2>4. CASE Answer
    BY <2>4 DEF Answer, ReadsInOrder, buffer
  <2>5. ASSUME NEW event \in Events, Recording(event) PROVE ReadsInOrder'
    <3>1. Len(events') \in Nat /\ Len(events) \in Nat /\ Len(events) <= Len(events')
      <4>1. CASE Len(events) = capacity
        <5>1. Tail(events) \in Seq(Events) /\ Len(Tail(events)) = Len(events) - 1
          BY <4>1 DEF TypeOK
        <5> QED BY <2>5, <4>1, <5>1, Appended DEF Recording, Record, TypeOK
      <4>2. CASE Len(events) # capacity
        BY <2>5, <4>2, Appended DEF Recording, Record, TypeOK
      <4> QED BY <4>1, <4>2
    <3>2. UNCHANGED <<handler, summary, recorded, capacity>>
      BY <2>5 DEF Recording, request, Record
    <3> QED BY <3>1, <3>2 DEF ReadsInOrder
  <2>6. CASE UNCHANGED vars
    BY <2>6 DEF vars, request, buffer, ReadsInOrder
  <2> QED BY <2>1, <2>2, <2>3, <2>4, <2>5, <2>6 DEF Step, Handle
<1> QED BY <1>1, <1>2, KeptInv, PTL DEF ServerSpec

\* Although the pipeline records between the two reads, an answer never counts
\* more events than it says are recorded, nor more of those than fit (lib.rs, 95).
THEOREM CountsAreOrdered ==
  ServerSpec => [](Summed => summary.total <= recorded /\ recorded <= capacity)
<1>1. ReadsInOrder => (Summed => summary.total <= recorded /\ recorded <= capacity)
  BY DEF ReadsInOrder, Summed
<1> QED BY <1>1, ReadsInOrderInv, PTL
-----------------------------------------------------------------------------
(* What an answer says *)

\* What is summed up is what the buffer held at a moment since the question, and
\* what is counted what it held then or later.
OfItsMoments ==
  /\ since \in 0 .. Len(log)
  /\ handler \in {"summed", "counted", "answered"} /\ summary # None =>
       \E n, m \in since .. Len(log) :
         /\ n <= m /\ summary = Summarised(Held(n))
         /\ handler # "summed" => recorded = Len(Held(m))

\* The deque is what the buffer held after all that is recorded so far.
LEMMA EventsAreHeld == ASSUME TypeOK, Kept PROVE events = Held(Len(log))
<1> DEFINE n == Len(log)
           b == Before(n)
<1>1. /\ n \in Nat /\ Len(events) \in Nat /\ capacity \in Nat \ {0}
      /\ events \in Seq(Events) /\ Len(events) <= capacity /\ Len(events) <= n
      /\ Len(events) < capacity => Len(events) = n
      /\ \A i \in 1 .. Len(events) : events[i] = log[n - Len(events) + i]
  BY DEF TypeOK, Kept
<1>2. Len(events) = n - b
  <2>1. b = IF n <= capacity THEN 0 ELSE n - capacity
    BY DEF Before
  <2> HIDE DEF n, b
  <2> QED BY <1>1, <2>1
<1>3. n \in 0 .. Len(log)
  BY <1>1
<1>4. /\ b \in Nat /\ b <= n /\ Held(n) \in Seq(Events) /\ Len(Held(n)) = n - b
      /\ \A i \in 1 .. n - b : Held(n)[i] = log[b + i]
  BY <1>1, <1>3, HeldIs
<1> HIDE DEF n, b
<1>5. n - Len(events) = b
  BY <1>1, <1>2, <1>4
<1>6. \A i \in 1 .. n - b : events[i] = Held(n)[i]
  BY <1>1, <1>2, <1>4, <1>5
<1>7. events = Held(n)
  BY <1>1, <1>2, <1>4, <1>6
<1> QED BY <1>7 DEF n

\* What was held after n events stays what it was when more are recorded.
LEMMA HeldStays ==
  ASSUME TypeOK, NEW event \in Events, Record(event), NEW n \in 0 .. Len(log)
  PROVE  Held(n)' = Held(n)
<1>1. log \in Seq(Events) /\ log' = Append(log, event) /\ capacity' = capacity
  BY DEF TypeOK, Record
<1>2. n \in Nat /\ Before(n) \in 0 .. n /\ Before(n)' = Before(n)
  BY <1>1, HeldIs DEF TypeOK, Before
<1> DEFINE a == Before(n)
<1>3. \A i \in 1 .. n : i \in 1 .. Len(log) /\ i \in 1 .. Len(log') /\ log'[i] = log[i]
  BY <1>1
<1> HIDE DEF a
<1>4. a \in Nat /\ \A i \in 1 .. n - a : a + i \in 1 .. n
  BY <1>2 DEF a
<1>5. /\ SubSeq(log, a + 1, n) \in Seq(Events) /\ Len(SubSeq(log, a + 1, n)) = n - a
      /\ \A i \in 1 .. n - a : SubSeq(log, a + 1, n)[i] = log[a + i]
  BY <1>1, <1>2, <1>3, <1>4 DEF a
<1>6. /\ SubSeq(log', a + 1, n) \in Seq(Events) /\ Len(SubSeq(log', a + 1, n)) = n - a
      /\ \A i \in 1 .. n - a : SubSeq(log', a + 1, n)[i] = log'[a + i]
  <2>1. log' \in Seq(Events)
    BY <1>1
  <2> QED BY <1>2, <1>3, <1>4, <2>1 DEF a
<1> DEFINE s == SubSeq(log', a + 1, n)
           t == SubSeq(log, a + 1, n)
<1>7. s = t
  <2>1. s \in Seq(Events) /\ t \in Seq(Events) /\ Len(s) = n - a /\ Len(t) = n - a
    BY <1>5, <1>6
  <2>2. ASSUME NEW i \in 1 .. n - a PROVE s[i] = t[i]
    <3>1. s[i] = log'[a + i] /\ t[i] = log[a + i]
      BY <1>5, <1>6
    <3> HIDE DEF s, t
    <3> QED BY <1>3, <1>4, <3>1
  <2> HIDE DEF s, t
  <2> QED BY <2>1, <2>2, SeqEqual
<1>8. Held(n)' = SubSeq(log', Before(n)' + 1, n)
  BY DEF Held
<1> QED BY <1>2, <1>7, <1>8 DEF Held, a

LEMMA OfItsMomentsStep ==
  ASSUME TypeOK, Kept, OfItsMoments, [Step]_vars
  PROVE  OfItsMoments'
<1>1. Len(log) \in Nat /\ since \in 0 .. Len(log) /\ since \in Nat
  BY DEF TypeOK, OfItsMoments
<1>2. CASE Ask
  BY <1>1, <1>2 DEF Ask, OfItsMoments, buffer
<1>3. CASE Summarise
  <2>1. /\ UNCHANGED <<capacity, log, since>> /\ handler = "asked"
        /\ IF observ THEN summary' = Summarised(events) /\ handler' = "summed"
                     ELSE summary' = None
    BY <1>3 DEF Summarise, buffer
  <2>2. Summarised(events) = Summarised(Held(Len(log)))
    BY EventsAreHeld
  <2>3. Held(Len(log))' = Held(Len(log))
    BY <2>1 DEF Held, Before
  <2>4. Len(log) \in since .. Len(log)
    BY <1>1
  <2> QED BY <1>1, <2>1, <2>2, <2>4 DEF OfItsMoments, Held, Before
<1>4. CASE CountRecorded
  <2>1. /\ UNCHANGED <<capacity, log, since, summary>> /\ handler = "summed"
        /\ recorded' = Len(events)
    BY <1>4 DEF CountRecorded, buffer
  <2>2. recorded' = Len(Held(Len(log)))
    BY <2>1, EventsAreHeld
  <2>3. ASSUME NEW n \in since .. Len(log), summary = Summarised(Held(n))
        PROVE  \E k, m \in since' .. Len(log') :
                 /\ k <= m /\ summary' = Summarised(Held(k))'
                 /\ handler' # "summed" => recorded' = Len(Held(m))'
    <3>1. n <= Len(log) /\ n \in since' .. Len(log') /\ Len(log) \in since' .. Len(log')
      BY <1>1, <2>1
    <3>2. Held(n)' = Held(n) /\ Held(Len(log))' = Held(Len(log))
      BY <2>1 DEF Held, Before
    <3>3. Summarised(Held(n))' = Summarised(Held(n)')
      OBVIOUS
    <3>4. summary' = Summarised(Held(n))' /\ recorded' = Len(Held(Len(log)))'
      BY <2>1, <2>2, <2>3, <3>2, <3>3
    <3> QED BY <2>1, <3>1, <3>4
  <2> QED BY <1>1, <2>1, <2>3 DEF OfItsMoments
<1>5. CASE Answer
  BY <1>5 DEF Answer, OfItsMoments, buffer, Held, Before
<1>6. ASSUME NEW event \in Events, Recording(event) PROVE OfItsMoments'
  <2>1. Record(event) /\ UNCHANGED <<handler, summary, recorded, since>>
    BY <1>6 DEF Recording, request
  <2>2. Len(log') = Len(log) + 1
    BY <2>1, Appended DEF Record, TypeOK
  <2>3. since' \in 0 .. Len(log')
    BY <1>1, <2>1, <2>2
  <2>4. ASSUME NEW n \in since .. Len(log), NEW m \in since .. Len(log), n <= m,
               summary = Summarised(Held(n)), handler # "summed" => recorded = Len(Held(m))
        PROVE  \E k, l \in since' .. Len(log') :
                 /\ k <= l /\ summary' = Summarised(Held(k))'
                 /\ handler' # "summed" => recorded' = Len(Held(l))'
    <3>1. /\ n \in 0 .. Len(log) /\ n \in since' .. Len(log')
          /\ m \in 0 .. Len(log) /\ m \in since' .. Len(log')
      BY <1>1, <2>1, <2>2
    <3>2. Held(n)' = Held(n) /\ Held(m)' = Held(m)
      BY <2>1, <3>1, HeldStays
    <3>3. summary' = Summarised(Held(n)') /\ (handler' # "summed" => recorded' = Len(Held(m)'))
      BY <2>1, <2>4, <3>2
    <3> QED BY <2>4, <3>1, <3>3
  <2> QED BY <2>1, <2>3, <2>4 DEF OfItsMoments
<1>7. CASE UNCHANGED vars
  BY <1>7 DEF vars, request, buffer, OfItsMoments, Held, Before
<1> QED BY <1>2, <1>3, <1>4, <1>5, <1>6, <1>7 DEF Step, Handle

LEMMA OfItsMomentsInv == ServerSpec => []OfItsMoments
<1>1. Start => OfItsMoments
  BY DEF Start, Init, OfItsMoments
<1>2. TypeOK /\ Kept /\ OfItsMoments /\ [Step]_vars => OfItsMoments'
  BY OfItsMomentsStep
<1> QED BY <1>1, <1>2, KeptInv, PTL DEF ServerSpec

\* A summary of what was held after n events has the numbers of those events.
LEMMA MomentSumsUp ==
  ASSUME TypeOK, NEW n \in 0 .. Len(log), summary = Summarised(Held(n))
  PROVE  SumsUp(n)
<1>1. summary = Summarised(Held(n))
  OBVIOUS
<1>2. n \in 0 .. Len(log)
  OBVIOUS
<1> DEFINE held == HeldAfter(n)
           before == n - Cardinality(held)
           profits == [e \in Events |-> IF e.outcome = "Success" THEN e.profit ELSE 0]
           latencies == [e \in Events |-> e.latency_ms]
           profit == RunningTotal(profits)
           latency == RunningTotal(latencies)
<1>3. /\ Held(n) \in Seq(Events) /\ Len(Held(n)) = Cardinality(held)
      /\ before = Before(n) /\ Cardinality(held) \in Nat
      /\ held = {} => Cardinality(held) = 0
      /\ held # {} => Cardinality(held) # 0
  <2>1. /\ Before(n) \in 0 .. n /\ Len(Held(n)) = n - Before(n)
        /\ Cardinality(HeldAfter(n)) = n - Before(n)
        /\ Held(n) \in Seq(Events) /\ HeldAfter(n) = Before(n) + 1 .. n
    BY <1>2, HeldIs
  <2>2. n \in Nat
    BY <1>2
  <2>3. HeldAfter(n) = {} => n - Before(n) = 0
    <3>1. Before(n) < n => n \in Before(n) + 1 .. n
      BY <2>1, <2>2
    <3> QED BY <2>1, <2>2, <3>1
  <2>4. n - Before(n) = 0 => HeldAfter(n) = {}
    BY <2>1, <2>2
  <2> QED BY <2>1, <2>2, <2>3, <2>4
<1>4. profits \in [Events -> Int] /\ latencies \in [Events -> Int]
  BY DEF Event
<1> HIDE DEF profits, latencies
<1>5. Realized(Held(n)) = profit[n] - profit[before]
  <2>1. \A i \in 1 .. Len(Held(n)) : Held(n)[i] \in Events
    BY <1>3
  <2>2. [i \in 1 .. Len(Held(n)) |-> IF Held(n)[i].outcome = "Success" THEN Held(n)[i].profit ELSE 0]
          = [i \in 1 .. Len(Held(n)) |-> profits[Held(n)[i]]]
    BY <2>1 DEF profits
  <2> QED BY <1>2, <1>3, <1>4, <2>2, SumIs DEF Realized
<1>6. Latency(Held(n)) = latency[n] - latency[before]
  <2>1. \A i \in 1 .. Len(Held(n)) : Held(n)[i] \in Events
    BY <1>3
  <2>2. [i \in 1 .. Len(Held(n)) |-> Held(n)[i].latency_ms]
          = [i \in 1 .. Len(Held(n)) |-> latencies[Held(n)[i]]]
    BY <2>1 DEF latencies
  <2> QED BY <1>2, <1>3, <1>4, <2>2, SumIs DEF Latency
<1>7. \A o : Count(Held(n), o) = Cardinality({i \in held : log[i].outcome = o})
  BY <1>2, CountIs
<1>8. held = {} => \A o : Count(Held(n), o) = 0
  <2>1. held = {} => \A o : {i \in held : log[i].outcome = o} = {}
    OBVIOUS
  <2> QED BY <1>7, <2>1, FS_EmptySet
<1> HIDE DEF held, before, profit, latency
<1>9. /\ summary.total = Cardinality(held)
      /\ summary.sim_passed = Count(Held(n), "SimPassed")
      /\ summary.sim_failed = Count(Held(n), "SimFailed")
      /\ summary.success = Count(Held(n), "Success")
      /\ summary.reverted = Count(Held(n), "Reverted")
      /\ summary.gas_rejected = Count(Held(n), "GateRejected")
      /\ summary.realized = Realized(Held(n))
      /\ summary.mean_latency_ms = Quotient(Latency(Held(n)), Cardinality(held))
  BY <1>1, <1>3 DEF Summarised
<1>10. held # {} => summary.mean_latency_ms = <<latency[n] - latency[before], Cardinality(held)>>
  BY <1>3, <1>6, <1>9 DEF Quotient
<1>11. held = {} => success_rate(summary)[1] = 0 /\ summary.mean_latency_ms[1] = 0
  BY <1>3, <1>8, <1>9 DEF Quotient, success_rate
<1> QED BY <1>1, <1>5, <1>7, <1>9, <1>10, <1>11
        DEF SumsUp, held, before, profit, latency, profits, latencies

\* Although recording goes on while a request is handled, its numbers are those of
\* two moments of it at most: counts, realized profit and mean latency of exactly the
\* events the buffer held at the first, and the number of those it held at the second.
THEOREM AnswersAreOfTheirMoments == ServerSpec => []AnswerOfItsMoments
<1>1. TypeOK /\ OfItsMoments => AnswerOfItsMoments
  <2> SUFFICES ASSUME TypeOK, OfItsMoments, Summed
               PROVE  \E n, m \in since .. Len(log) :
                        n <= m /\ SumsUp(n) /\ recorded = Cardinality(HeldAfter(m))
    BY DEF AnswerOfItsMoments
  <2>1. PICK n \in since .. Len(log), m \in since .. Len(log) :
          n <= m /\ summary = Summarised(Held(n)) /\ recorded = Len(Held(m))
    BY DEF Summed, OfItsMoments
  <2>2. n \in 0 .. Len(log) /\ m \in 0 .. Len(log)
    BY <2>1 DEF OfItsMoments, TypeOK
  <2>3. SumsUp(n)
    BY <2>1, <2>2, MomentSumsUp
  <2>4. Cardinality(HeldAfter(m)) = Len(Held(m))
    BY <2>2, HeldIs
  <2> QED BY <2>1, <2>3, <2>4
<1> QED BY <1>1, TypeCorrect, OfItsMomentsInv, PTL

LEMMA DisjointUnion ==
  ASSUME NEW A, NEW B, IsFiniteSet(A), IsFiniteSet(B), A \cap B = {}
  PROVE  /\ IsFiniteSet(A \cup B) /\ Cardinality(A) \in Nat
         /\ Cardinality(A \cup B) = Cardinality(A) + Cardinality(B)
<1>1. /\ IsFiniteSet(A \cup B)
      /\ Cardinality(A \cup B) = Cardinality(A) + Cardinality(B) - Cardinality(A \cap B)
  BY FS_Union
<1>2. Cardinality(A) \in Nat /\ Cardinality(B) \in Nat /\ Cardinality(A \cap B) = 0
  BY FS_CardinalityType, FS_EmptySet
<1> QED BY <1>1, <1>2

\* An event is classified once, so what is classified is no more than what is held.
LEMMA ClassifiedOnce ==
  ASSUME TypeOK, NEW n \in 0 .. Len(log)
  PROVE  /\ Count(Held(n), "SimPassed") + Count(Held(n), "SimFailed")
              + Count(Held(n), "Success") + Count(Held(n), "Reverted")
              + Count(Held(n), "GateRejected") <= Len(Held(n))
         /\ Count(Held(n), "Success") \in Nat /\ Count(Held(n), "Success") <= Len(Held(n))
<1> DEFINE H == HeldAfter(n)
           With(o) == {i \in H : log[i].outcome = o}
           A == With("SimPassed")
           B == With("SimFailed")
           C == With("Success")
           D == With("Reverted")
           E == With("GateRejected")
<1>1. IsFiniteSet(H) /\ Cardinality(H) = Len(Held(n))
  <2>1. H = Before(n) + 1 .. n /\ Cardinality(H) = Len(Held(n)) /\ Before(n) + 1 \in Int /\ n \in Int
    BY HeldIs
  <2> QED BY <2>1, FS_Interval
<1>2. \A o : With(o) \in SUBSET H
  OBVIOUS
<1>3. \A o : IsFiniteSet(With(o)) /\ Cardinality(With(o)) \in Nat
  BY <1>1, <1>2, FS_Subset, FS_CardinalityType
<1>4. \A o, p : o # p => With(o) \cap With(p) = {}
  OBVIOUS
<1>5. \A o : Count(Held(n), o) = Cardinality(With(o))
  BY CountIs
<1>6. /\ A \cap B = {} /\ (A \cup B) \cap C = {} /\ (A \cup B \cup C) \cap D = {}
      /\ (A \cup B \cup C \cup D) \cap E = {}
  BY <1>4
<1>7. /\ IsFiniteSet(A) /\ IsFiniteSet(B) /\ IsFiniteSet(C) /\ IsFiniteSet(D) /\ IsFiniteSet(E)
      /\ A \cup B \cup C \cup D \cup E \in SUBSET H
  BY <1>2, <1>3
<1> HIDE DEF A, B, C, D, E
<1>8. IsFiniteSet(A \cup B) /\ Cardinality(A \cup B) = Cardinality(A) + Cardinality(B)
  BY <1>6, <1>7, DisjointUnion
<1>9. /\ IsFiniteSet(A \cup B \cup C)
      /\ Cardinality(A \cup B \cup C) = Cardinality(A \cup B) + Cardinality(C)
  BY <1>6, <1>7, <1>8, DisjointUnion
<1>10. /\ IsFiniteSet(A \cup B \cup C \cup D)
       /\ Cardinality(A \cup B \cup C \cup D) = Cardinality(A \cup B \cup C) + Cardinality(D)
  BY <1>6, <1>7, <1>9, DisjointUnion
<1>11. Cardinality(A \cup B \cup C \cup D \cup E)
         = Cardinality(A \cup B \cup C \cup D) + Cardinality(E)
  BY <1>6, <1>7, <1>10, DisjointUnion
<1>12. Cardinality(A \cup B \cup C \cup D \cup E) <= Cardinality(H)
  BY <1>1, <1>7, FS_Subset
<1>13. Cardinality(A) + Cardinality(B) + Cardinality(C) + Cardinality(D) + Cardinality(E)
         <= Cardinality(H)
  BY <1>8, <1>9, <1>10, <1>11, <1>12
<1>14. Cardinality(C) \in Nat /\ Cardinality(C) <= Cardinality(H)
  BY <1>1, <1>2, <1>3, FS_Subset DEF C
<1> QED BY <1>1, <1>5, <1>13, <1>14 DEF A, B, C, D, E

LEMMA MomentAddsUp == ASSUME TypeOK, OfItsMoments, ReadsInOrder PROVE AnswerAddsUp
<1> SUFFICES ASSUME Summed PROVE AnswerAddsUp
  BY DEF AnswerAddsUp
<1>1. PICK n \in since .. Len(log) : summary = Summarised(Held(n))
  BY DEF Summed, OfItsMoments
<1>2. n \in 0 .. Len(log)
  BY <1>1 DEF OfItsMoments, TypeOK
<1> DEFINE s == Held(n)
<1>3. Len(s) \in Nat
  BY <1>2, HeldIs DEF TypeOK
<1>4. /\ Count(s, "SimPassed") + Count(s, "SimFailed") + Count(s, "Success")
           + Count(s, "Reverted") + Count(s, "GateRejected") <= Len(s)
      /\ Count(s, "Success") \in Nat /\ Count(s, "Success") <= Len(s)
  BY <1>2, ClassifiedOnce
<1>5. /\ summary.total = Len(s) /\ summary.success = Count(s, "Success")
      /\ summary.sim_passed = Count(s, "SimPassed") /\ summary.sim_failed = Count(s, "SimFailed")
      /\ summary.reverted = Count(s, "Reverted") /\ summary.gas_rejected = Count(s, "GateRejected")
  BY <1>1 DEF Summarised
<1> HIDE DEF s
<1>6. success_rate(summary)[1] <= success_rate(summary)[2]
  <2>1. CASE Len(s) = 0
    BY <1>5, <2>1 DEF success_rate, Quotient
  <2>2. CASE Len(s) # 0
    BY <1>4, <1>5, <2>2 DEF success_rate, Quotient
  <2> QED BY <2>1, <2>2
<1>7. summary.total <= recorded /\ recorded <= capacity
  BY DEF ReadsInOrder, Summed
<1> QED BY <1>4, <1>5, <1>6, <1>7 DEF AnswerAddsUp

\* Whatever is recorded between the two reads of a request, its answer adds up: for
\* any capacity and any events.
THEOREM AnswersAddUp == ServerSpec => []AnswerAddsUp
<1>1. TypeOK /\ OfItsMoments /\ ReadsInOrder => AnswerAddsUp
  BY MomentAddsUp
<1> QED BY <1>1, TypeCorrect, OfItsMomentsInv, ReadsInOrderInv, PTL
-----------------------------------------------------------------------------
(* What the queries return *)

\* A pass over the deque from its newest event, and what it returns.
Pass(h, s, wanted, limit) ==
  h = [n \in 0 .. Len(s) |->
         IF n = 0 THEN <<>>
         ELSE IF s[Len(s) - n + 1] \in wanted /\ Len(h[n - 1]) < limit
                THEN <<s[Len(s) - n + 1]>> \o h[n - 1] ELSE h[n - 1]]

LEMMA HitsIs ==
  ASSUME NEW s, NEW k \in Nat, Len(s) = k, NEW wanted, NEW limit, NEW g,
         Pass(g, s, wanted, limit)
  PROVE  Hits(s, wanted, limit) = g[k]
<1> DEFINE h == CHOOSE h : Pass(h, s, wanted, limit)
           S == {n \in 0 .. k : h[n] = g[n]}
<1>1. Pass(h, s, wanted, limit)
  OBVIOUS
<1>2. Hits(s, wanted, limit) = h[k]
  BY DEF Hits, Pass
<1> HIDE DEF h
<1>3. ASSUME NEW f, Pass(f, s, wanted, limit)
      PROVE  /\ f[0] = <<>>
             /\ \A n \in 0 .. k - 1 :
                  f[n + 1] = IF s[k - (n + 1) + 1] \in wanted /\ Len(f[n]) < limit
                               THEN <<s[k - (n + 1) + 1]>> \o f[n] ELSE f[n]
  <2>1. \A n \in 0 .. k : f[n] = IF n = 0 THEN <<>>
                                 ELSE IF s[k - n + 1] \in wanted /\ Len(f[n - 1]) < limit
                                        THEN <<s[k - n + 1]>> \o f[n - 1] ELSE f[n - 1]
    BY <1>3 DEF Pass
  <2>2. f[0] = <<>>
    <3>1. 0 \in 0 .. k
      OBVIOUS
    <3> QED BY <2>1, <3>1
  <2>3. ASSUME NEW n \in 0 .. k - 1
        PROVE  f[n + 1] = IF s[k - (n + 1) + 1] \in wanted /\ Len(f[n]) < limit
                            THEN <<s[k - (n + 1) + 1]>> \o f[n] ELSE f[n]
    <3>1. n + 1 \in 0 .. k /\ n + 1 # 0 /\ (n + 1) - 1 = n
      OBVIOUS
    <3> QED BY <2>1, <3>1
  <2> QED BY <2>2, <2>3
<1>4. 0 \in S
  BY <1>1, <1>3
<1>5. ASSUME NEW n \in 0 .. k - 1, n \in S PROVE n + 1 \in S
  <2>1. n + 1 \in 0 .. k /\ h[n] = g[n]
    BY <1>5
  <2>2. h[n + 1] = IF s[k - (n + 1) + 1] \in wanted /\ Len(h[n]) < limit
                     THEN <<s[k - (n + 1) + 1]>> \o h[n] ELSE h[n]
    BY <1>1, <1>3
  <2>3. g[n + 1] = IF s[k - (n + 1) + 1] \in wanted /\ Len(g[n]) < limit
                     THEN <<s[k - (n + 1) + 1]>> \o g[n] ELSE g[n]
    BY <1>3
  <2> QED BY <2>1, <2>2, <2>3
<1> HIDE DEF S
<1>6. 0 .. k \subseteq S
  BY <1>4, <1>5, UpTo
<1>7. k \in 0 .. k
  OBVIOUS
<1>8. h[k] = g[k]
  BY <1>6, <1>7 DEF S
<1> QED BY <1>2, <1>8

LEMMA WindowIs ==
  ASSUME TypeOK, Kept
  PROVE  LET m == Len(log) - Len(events)
         IN  m \in Nat /\ Window = m + 1 .. Len(log)
<1> DEFINE n == Len(log)
           m == n - Len(events)
<1>1. n \in 0 .. Len(log) /\ n \in Nat /\ log \in Seq(Events)
  BY DEF TypeOK
<1>2. events = Held(n)
  BY EventsAreHeld
<1>3. Before(n) = m /\ m \in Nat /\ HeldAfter(n) = Before(n) + 1 .. n
  <2>1. Len(events) = n - Before(n) /\ Before(n) \in 0 .. n /\ HeldAfter(n) = Before(n) + 1 .. n
    BY <1>1, <1>2, HeldIs
  <2> QED BY <1>1, <2>1
<1>4. Window = HeldAfter(n)
  BY <1>1 DEF Window, HeldAfter
<1> QED BY <1>3, <1>4

LEMMA RecordedIs ==
  ASSUME log \in Seq(Events), NEW I \in SUBSET (1 .. Len(log)), IsFiniteSet(I)
  PROVE  /\ Recorded(I) \in Seq(Events) /\ Len(Recorded(I)) = Cardinality(I)
         /\ Cardinality(I) \in Nat
         /\ \A n \in 1 .. Cardinality(I) : Recorded(I)[n] = log[Nth(I, n)]
<1>1. Cardinality(I) \in Nat
  BY FS_CardinalityType
<1>2. I \in SUBSET Nat
  OBVIOUS
<1>3. ASSUME NEW n \in 1 .. Cardinality(I) PROVE log[Nth(I, n)] \in Events
  <2>1. Nth(I, n) \in I
    BY <1>2, RankOfNth
  <2>2. Nth(I, n) \in 1 .. Len(log)
    BY <2>1
  <2> QED BY <2>2
<1> QED BY <1>1, <1>3 DEF Recorded

\* An event before all others comes first.
LEMMA RecordedBefore ==
  ASSUME log \in Seq(Events), NEW I \in SUBSET (1 .. Len(log)), IsFiniteSet(I),
         NEW m \in 1 .. Len(log), \A i \in I : m < i
  PROVE  Recorded(I \cup {m}) = <<log[m]>> \o Recorded(I)
<1> DEFINE J == I \cup {m}
           k == Cardinality(I)
<1>1. I \in SUBSET Nat /\ m \in Nat /\ J \in SUBSET (1 .. Len(log)) /\ log[m] \in Events
  OBVIOUS
<1>2. /\ IsFiniteSet(J) /\ Cardinality(J) = k + 1 /\ Nth(J, 1) = m
      /\ \A n \in 1 .. k : Nth(J, n + 1) = Nth(I, n)
  BY <1>1, NthWithSmallest
<1>3. /\ Recorded(I) \in Seq(Events) /\ Len(Recorded(I)) = k /\ k \in Nat
      /\ \A n \in 1 .. k : Recorded(I)[n] = log[Nth(I, n)]
  BY RecordedIs
<1>4. /\ Recorded(J) \in Seq(Events) /\ Len(Recorded(J)) = k + 1
      /\ \A n \in 1 .. k + 1 : Recorded(J)[n] = log[Nth(J, n)]
  BY <1>1, <1>2, RecordedIs
<1> DEFINE t == <<log[m]>> \o Recorded(I)
<1>5. /\ t \in Seq(Events) /\ Len(t) = k + 1 /\ t[1] = log[m]
      /\ \A n \in 1 .. k : t[n + 1] = Recorded(I)[n]
  BY <1>1, <1>3
<1> HIDE DEF J, k, t
<1>6. ASSUME NEW n \in 1 .. k + 1 PROVE t[n] = Recorded(J)[n]
  <2>1. CASE n = 1
    BY <1>2, <1>4, <1>5, <2>1
  <2>2. CASE n # 1
    <3>1. n - 1 \in 1 .. k /\ (n - 1) + 1 = n
      BY <1>3, <2>2
    <3>2. t[n] = Recorded(I)[n - 1] /\ Nth(J, n) = Nth(I, n - 1)
      BY <1>2, <1>5, <3>1
    <3> QED BY <1>3, <1>4, <3>1, <3>2
  <2> QED BY <2>1, <2>2
<1>7. t = Recorded(J)
  BY <1>3, <1>4, <1>5, <1>6
<1> QED BY <1>7 DEF t, J

\* The pass finds the newest matching events of those the buffer still has.
LEMMA HitsAreNewest ==
  ASSUME TypeOK, Kept, NEW wanted, NEW limit \in Nat
  PROVE  Hits(events, wanted, limit) = Recorded(Newest({i \in Window : log[i] \in wanted}, limit))
<1> DEFINE L == Len(log)
           k == Len(events)
           M(n) == {i \in L - n + 1 .. L : log[i] \in wanted}
           g == [n \in 0 .. k |-> Recorded(Newest(M(n), limit))]
<1>1. /\ log \in Seq(Events) /\ L \in Nat /\ k \in Nat /\ k <= L
      /\ \A i \in 1 .. k : events[i] = log[L - k + i]
  BY DEF TypeOK, Kept
<1>2. Window = L - k + 1 .. L
  BY WindowIs
<1> HIDE DEF L, k
<1>3. ASSUME NEW n \in 0 .. k
      PROVE  M(n) \in SUBSET (1 .. L) /\ M(n) \in SUBSET Nat /\ IsFiniteSet(M(n))
  <2>1. L - n + 1 .. L \in SUBSET (1 .. L) /\ M(n) \in SUBSET (L - n + 1 .. L)
    BY <1>1
  <2>2. IsFiniteSet(1 .. L)
    BY <1>1, FS_Interval
  <2>3. M(n) \in SUBSET (1 .. L)
    BY <2>1
  <2>4. 1 .. L \in SUBSET Nat
    OBVIOUS
  <2> HIDE DEF M
  <2>5. IsFiniteSet(M(n))
    BY <2>2, <2>3, FS_Subset
  <2> QED BY <2>3, <2>4, <2>5
<1>4. ASSUME NEW n \in 0 .. k
      PROVE  /\ Newest(M(n), limit) \in SUBSET (1 .. L) /\ IsFiniteSet(Newest(M(n), limit))
             /\ Len(Recorded(Newest(M(n), limit))) = Cardinality(Newest(M(n), limit))
  <2>1. Newest(M(n), limit) \in SUBSET M(n) /\ IsFiniteSet(Newest(M(n), limit))
    BY <1>3, NewestType
  <2>2. Newest(M(n), limit) \in SUBSET (1 .. L)
    BY <1>3, <2>1
  <2> QED BY <1>1, <2>1, <2>2, RecordedIs DEF L
<1>5. Recorded(Newest(M(0), limit)) = <<>>
  <2>1. M(0) = {}
    BY <1>1
  <2>2. Newest(M(0), limit) = {}
    BY <2>1 DEF Newest
  <2>3. Recorded({}) \in Seq(Events) /\ Len(Recorded({})) = 0
    <3>1. IsFiniteSet({}) /\ Cardinality({}) = 0 /\ {} \in SUBSET (1 .. Len(log))
      BY FS_EmptySet
    <3> QED BY <1>1, <3>1, RecordedIs
  <2>4. Recorded({}) = <<>>
    BY <2>3
  <2> QED BY <2>2, <2>4
<1>6. ASSUME NEW n \in 1 .. k
      PROVE  LET e == events[k - n + 1]
                 newer == Recorded(Newest(M(n - 1), limit))
             IN  Recorded(Newest(M(n), limit)) =
                   IF e \in wanted /\ Len(newer) < limit THEN <<e>> \o newer ELSE newer
  <2> DEFINE i == L - n + 1
             I == M(n - 1)
             newer == Recorded(Newest(I, limit))
  <2>1. i \in 1 .. L /\ events[k - n + 1] = log[i] /\ n - 1 \in 0 .. k /\ n \in 0 .. k
    <3>1. k - n + 1 \in 1 .. k /\ L - k + (k - n + 1) = L - n + 1
      BY <1>1
    <3> QED BY <1>1, <3>1
  <2>2. \A j : j \in L - n + 1 .. L <=> j \in L - (n - 1) + 1 .. L \/ j = i
    BY <1>1
  <2>3. I \in SUBSET Nat /\ I \in SUBSET (1 .. L) /\ IsFiniteSet(I)
    BY <1>3, <2>1
  <2>4. \A j \in I : i < j
    BY <1>1
  <2>5. /\ Newest(I, limit) \in SUBSET I /\ IsFiniteSet(Newest(I, limit))
        /\ Newest(I, limit) \in SUBSET (1 .. L)
        /\ Len(newer) = Cardinality(Newest(I, limit))
    BY <1>4, <2>1, <2>3, NewestType
  <2>6. CASE log[i] \notin wanted
    <3>1. M(n) = I
      BY <2>2, <2>6
    <3> QED BY <2>1, <2>6, <3>1
  <2>7. CASE log[i] \in wanted
    <3>1. M(n) = I \cup {i}
      BY <2>2, <2>7
    <3> HIDE DEF I, i
    <3>2. Newest(M(n), limit) =
            IF Cardinality(I) < limit THEN Newest(I, limit) \cup {i} ELSE Newest(I, limit)
      <4>1. i \in Nat
        BY <2>1
      <4>2. I \in SUBSET Nat /\ IsFiniteSet(I)
        BY <2>3
      <4> HIDE DEF M, g, newer
      <4>3. Newest(I \cup {i}, limit) =
              IF Cardinality(I) < limit THEN Newest(I, limit) \cup {i} ELSE Newest(I, limit)
        BY <2>4, <4>1, <4>2, NewestWithSmallest
      <4> QED BY <3>1, <4>3
    <3>3. Cardinality(I) < limit <=> Cardinality(Newest(I, limit)) < limit
      BY <2>3, NewestType
    <3>4. Recorded(Newest(I, limit) \cup {i}) = <<log[i]>> \o newer
      <4>1. \A j \in Newest(I, limit) : i < j
        BY <2>4, <2>5
      <4>2. i \in 1 .. Len(log) /\ Newest(I, limit) \in SUBSET (1 .. Len(log))
        BY <2>1, <2>5 DEF L
      <4> QED BY <1>1, <2>5, <4>1, <4>2, RecordedBefore
    <3> HIDE DEF newer, M
    <3>5. Recorded(Newest(M(n), limit)) =
            IF Len(newer) < limit THEN <<log[i]>> \o newer ELSE newer
      BY <2>5, <3>2, <3>3, <3>4 DEF newer
    <3> QED BY <2>1, <2>7, <3>5 DEF newer, I
  <2> QED BY <2>6, <2>7
<1> HIDE DEF M
<1>7. Pass(g, events, wanted, limit)
  <2>1. ASSUME NEW n \in 0 .. k
        PROVE  g[n] = IF n = 0 THEN <<>>
                      ELSE IF events[k - n + 1] \in wanted /\ Len(g[n - 1]) < limit
                             THEN <<events[k - n + 1]>> \o g[n - 1] ELSE g[n - 1]
    <3>1. CASE n = 0
      BY <1>5, <3>1
    <3>2. CASE n # 0
      <4>1. n \in 1 .. k /\ n - 1 \in 0 .. k
        BY <1>1, <3>2
      <4>2. g[n] = Recorded(Newest(M(n), limit)) /\ g[n - 1] = Recorded(Newest(M(n - 1), limit))
        BY <4>1
      <4> QED BY <1>6, <3>2, <4>1, <4>2
    <3> QED BY <3>1, <3>2
  <2>2. g = [n \in 0 .. k |-> g[n]]
    OBVIOUS
  <2> HIDE DEF g
  <2>3. g = [n \in 0 .. k |-> IF n = 0 THEN <<>>
               ELSE IF events[k - n + 1] \in wanted /\ Len(g[n - 1]) < limit
                      THEN <<events[k - n + 1]>> \o g[n - 1] ELSE g[n - 1]]
    BY <2>1, <2>2
  <2> QED BY <2>3 DEF Pass, k
<1>8. Hits(events, wanted, limit) = g[k]
  <2> HIDE DEF g
  <2>1. Len(events) = k
    BY DEF k
  <2> QED BY <1>1, <1>7, <2>1, HitsIs
<1>9. g[k] = Recorded(Newest(M(k), limit))
  BY <1>1
<1>10. M(k) = {i \in Window : log[i] \in wanted}
  BY <1>2 DEF M
<1> QED BY <1>8, <1>9, <1>10

LEMMA LastAreNewest ==
  ASSUME TypeOK, Kept, NEW n \in Nat
  PROVE  LastN(events, n) = Recorded(Newest(Window, n))
<1> DEFINE L == Len(log)
           k == Len(events)
           m == L - k
           a == IF n <= k THEN L - n ELSE m
           I == a + 1 .. L
<1>1. /\ log \in Seq(Events) /\ L \in Nat /\ k \in Nat /\ k <= L /\ events \in Seq(Events)
      /\ \A i \in 1 .. k : events[i] = log[L - k + i]
  BY DEF TypeOK, Kept
<1>2. Window = m + 1 .. L /\ m \in Nat /\ m <= L /\ L - m = k
  BY <1>1, WindowIs
<1> HIDE DEF L, k
<1>3. Newest(Window, n) = I
  <2> HIDE DEF m
  <2>1. Newest(m + 1 .. L, n) = (IF n <= L - m THEN L - n ELSE m) + 1 .. L
    BY <1>1, <1>2, NewestOfInterval
  <2> QED BY <1>2, <2>1
<1>4. a \in Nat /\ a <= L /\ a >= m
  BY <1>1
<1>5. /\ I \in SUBSET (1 .. L) /\ IsFiniteSet(I) /\ Cardinality(I) = L - a
      /\ \A i \in 1 .. L - a : Nth(I, i) = a + i
  <2> HIDE DEF a
  <2>1. IsFiniteSet(I) /\ Cardinality(I) = IF a + 1 > L THEN 0 ELSE L - (a + 1) + 1
    BY <1>1, <1>4, FS_Interval
  <2>2. \A i \in 1 .. L - a : Nth(I, i) = a + i
    BY <1>1, <1>4, NthOfInterval
  <2>3. I \in SUBSET (1 .. L)
    BY <1>1, <1>4
  <2> HIDE DEF I
  <2> QED BY <1>1, <1>4, <2>1, <2>2, <2>3
<1> HIDE DEF I
<1>6. /\ Recorded(I) \in Seq(Events) /\ Len(Recorded(I)) = L - a
      /\ \A i \in 1 .. L - a : Recorded(I)[i] = log[a + i]
  <2>1. /\ Recorded(I) \in Seq(Events) /\ Len(Recorded(I)) = Cardinality(I)
        /\ \A i \in 1 .. Cardinality(I) : Recorded(I)[i] = log[Nth(I, i)]
    BY <1>1, <1>5, RecordedIs DEF L
  <2> HIDE DEF a
  <2> QED BY <1>5, <2>1
<1>7. LastN(events, n) = Recorded(I)
  <2>1. CASE k <= n
    <3>1. LastN(events, n) = events
      BY <2>1 DEF LastN, k
    <3>2. L - a = k /\ a = m
      BY <1>1, <2>1
    <3>3. ASSUME NEW i \in 1 .. k PROVE Recorded(I)[i] = events[i]
      <4> DEFINE p == a + i
      <4>1. Recorded(I)[i] = log[p]
        BY <1>6, <3>2
      <4>2. p = L - k + i
        BY <3>2
      <4> HIDE DEF a, p
      <4>3. events[i] = log[L - k + i]
        BY <1>1
      <4> QED BY <4>1, <4>2, <4>3
    <3>4. Len(events) = k
      BY DEF k
    <3>5. Len(Recorded(I)) = k /\ Recorded(I) \in Seq(Events)
      BY <1>6, <3>2
    <3>6. events = Recorded(I)
      BY <1>1, <3>3, <3>4, <3>5, SeqEqual
    <3> QED BY <3>1, <3>6
  <2>2. CASE ~ (k <= n)
    <3>1. LastN(events, n) = SubSeq(events, k - n + 1, k)
      BY <2>2 DEF LastN, k
    <3>2. a = L - n /\ L - a = n
      BY <1>1, <2>2
    <3>3. /\ SubSeq(events, k - n + 1, k) \in Seq(Events) /\ Len(SubSeq(events, k - n + 1, k)) = n
          /\ \A i \in 1 .. n : SubSeq(events, k - n + 1, k)[i] = events[k - n + i]
      <4>1. Len(events) = k
        BY DEF k
      <4>2. k - n \in Nat /\ k - (k - n) = n
        BY <1>1, <2>2
      <4>3. \A i \in 1 .. n : (k - n) + i \in 1 .. k /\ k - n + 1 - 1 + i = k - n + i
        BY <1>1, <2>2
      <4> QED BY <1>1, <4>1, <4>2, <4>3
    <3>4. ASSUME NEW i \in 1 .. n PROVE events[k - n + i] = log[a + i]
      <4>1. k - n + i \in 1 .. k /\ L - k + (k - n + i) = (L - n) + i
        BY <1>1, <2>2
      <4> QED BY <1>1, <3>2, <4>1
    <3>5. /\ Len(Recorded(I)) = n /\ Recorded(I) \in Seq(Events)
          /\ \A i \in 1 .. n : Recorded(I)[i] = log[a + i]
      BY <1>6, <3>2
    <3> DEFINE q == SubSeq(events, k - n + 1, k)
    <3> HIDE DEF a, q
    <3>6. \A i \in 1 .. n : q[i] = Recorded(I)[i]
      BY <3>3, <3>4, <3>5 DEF q
    <3>7. Len(q) = n /\ q \in Seq(Events)
      BY <3>3 DEF q
    <3>8. q = Recorded(I)
      BY <3>5, <3>6, <3>7, SeqEqual
    <3> QED BY <3>1, <3>8 DEF q
  <2> QED BY <2>1, <2>2
<1> QED BY <1>3, <1>7

\* Across evictions and for any capacity, any events and any limit, a query returns
\* the newest matching events among the last capacity ones ever recorded, in the
\* order they were recorded.
THEOREM QueriesAreExact == ServerSpec => []QueriesExact
<1>1. TypeOK /\ Kept => QueriesExact
  <2> SUFFICES ASSUME TypeOK, Kept, NEW n \in 0 .. capacity + 1
               PROVE  /\ LastN(events, n) = Recorded(Newest(Window, n))
                      /\ \A o \in Outcomes :
                           ByOutcome(events, o, n) =
                             Recorded(Newest({i \in Window : log[i].outcome = o}, n))
                      /\ \A b \in Spellings :
                           ByBorrower(events, b, n) =
                             Recorded(Newest({i \in Window : /\ log[i].borrower # Unset
                                                             /\ Lower[log[i].borrower] = Lower[b]}, n))
    BY DEF QueriesExact
  <2>1. n \in Nat /\ \A i \in Window : log[i] \in Events
    BY DEF TypeOK, Window, Newest
  <2>2. ASSUME NEW o \in Outcomes
        PROVE  ByOutcome(events, o, n) = Recorded(Newest({i \in Window : log[i].outcome = o}, n))
    <3> DEFINE wanted == {e \in Events : e.outcome = o}
    <3>1. {i \in Window : log[i] \in wanted} = {i \in Window : log[i].outcome = o}
      BY <2>1
    <3>2. Hits(events, wanted, n) = Recorded(Newest({i \in Window : log[i] \in wanted}, n))
      BY <2>1, HitsAreNewest
    <3> QED BY <3>1, <3>2 DEF ByOutcome
  <2>3. ASSUME NEW b \in Spellings
        PROVE  ByBorrower(events, b, n) =
                 Recorded(Newest({i \in Window : /\ log[i].borrower # Unset
                                                 /\ Lower[log[i].borrower] = Lower[b]}, n))
    <3> DEFINE wanted == {e \in Events : e.borrower # Unset /\ Lower[e.borrower] = Lower[b]}
    <3>1. {i \in Window : log[i] \in wanted} =
            {i \in Window : log[i].borrower # Unset /\ Lower[log[i].borrower] = Lower[b]}
      BY <2>1
    <3>2. Hits(events, wanted, n) = Recorded(Newest({i \in Window : log[i] \in wanted}, n))
      BY <2>1, HitsAreNewest
    <3> QED BY <3>1, <3>2 DEF ByBorrower
  <2> QED BY <2>1, <2>2, <2>3, LastAreNewest
<1> QED BY <1>1, KeptInv, PTL
=============================================================================
