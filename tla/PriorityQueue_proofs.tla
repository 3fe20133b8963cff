------------------------- MODULE PriorityQueue_proofs --------------------------
(***************************************************************************)
(* Proofs about PriorityQueue for any items, priorities and capacity.      *)
(***************************************************************************)
EXTENDS PriorityQueue, Sequences, Ordering_proofs

USE ConstantsAssumption

\* The numbers in the queue are below the counter, so the next one is new.
Numbered == \A e \in heap : e.seq < seq

IInv == TypeOK /\ Numbered

LEMMA InitInv == Init => IInv
  BY FS_EmptySet DEF Init, IInv, TypeOK, Numbered

LEMMA TryPushKeeps ==
  ASSUME IInv, NEW item \in Items, NEW priority \in Priorities, TryPush(item, priority)
  PROVE  IInv'
<1> USE DEF IInv, TypeOK
<1>1. CASE Cardinality(heap) >= Capacity
  <2>1. UNCHANGED <<heap, seq>> /\ result' = <<"full">>
    BY <1>1 DEF TryPush
  <2> QED BY <2>1 DEF Numbered
<1>2. CASE ~ (Cardinality(heap) >= Capacity)
  <2> DEFINE e == [priority |-> priority, seq |-> seq, item |-> item]
  <2>1. heap' = heap \cup {e} /\ seq' = seq + 1 /\ result' = <<"ok">>
    BY <1>2 DEF TryPush
  <2>2. e \in Entry /\ e.seq = seq
    BY DEF Entry
  <2> HIDE DEF e
  <2>3. e \notin heap
    BY <2>2 DEF Numbered, Entry
  <2>4. IsFiniteSet(heap') /\ Cardinality(heap') <= Capacity
    <3>1. IsFiniteSet(heap') /\ Cardinality(heap') = Cardinality(heap) + 1
      BY <2>1, <2>3, FS_AddElement
    <3> QED BY <1>2, <3>1, FS_CardinalityType
  <2>5. heap' \subseteq Entry /\ seq' \in Nat
    BY <2>1, <2>2
  <2>6. \A f \in heap : f.seq \in Nat /\ f.seq < seq
    BY DEF Numbered, Entry
  <2>7. Numbered'
    BY <2>1, <2>2, <2>6 DEF Numbered
  <2>8. \A f, g \in heap' : f.seq = g.seq => f = g
    BY <2>1, <2>2, <2>6
  <2> QED BY <2>1, <2>4, <2>5, <2>7, <2>8
<1> QED BY <1>1, <1>2

LEMMA PopKeeps == ASSUME IInv, Pop PROVE IInv'
<1> USE DEF IInv, TypeOK
<1>1. CASE heap = {}
  BY <1>1 DEF Pop, Numbered
<1>2. CASE heap # {}
  <2>1. PICK e \in heap : /\ heap' = heap \ {e} /\ UNCHANGED seq
                          /\ result' = <<"some", [priority |-> e.priority, item |-> e.item]>>
    BY <1>2 DEF Pop
  <2>2. [priority |-> e.priority, item |-> e.item] \in Task
    BY DEF Entry, Task
  <2>3. IsFiniteSet(heap') /\ Cardinality(heap') <= Capacity
    <3>1. IsFiniteSet(heap') /\ Cardinality(heap') = Cardinality(heap) - 1
      BY <2>1, FS_RemoveElement
    <3> QED BY <3>1, FS_CardinalityType
  <2>4. heap' \subseteq Entry /\ Numbered' /\ \A f, g \in heap' : f.seq = g.seq => f = g
    BY <2>1 DEF Numbered
  <2> QED BY <2>1, <2>2, <2>3, <2>4
<1> QED BY <1>1, <1>2

LEMMA StepInv == IInv /\ [Next]_vars => IInv'
<1> SUFFICES ASSUME IInv, [Next]_vars PROVE IInv'
  OBVIOUS
<1>1. CASE UNCHANGED vars
  BY <1>1 DEF vars, IInv, TypeOK, Numbered
<1> QED BY <1>1, TryPushKeeps, PopKeeps DEF Next

\* However offers and takes follow each other, the queue holds at most Capacity
\* entries and no number twice: what try_push adds is later than all that wait.
THEOREM TypeCorrect == Spec => []TypeOK
<1>1. IInv => TypeOK
  BY DEF IInv
<1> QED BY InitInv, StepInv, <1>1, PTL DEF Spec
-----------------------------------------------------------------------------
(* The queue serves like a line *)

\* Heaps as they occur, the numbers in them and the entry with the n-th number.
Heap(h) == h \subseteq Entry /\ IsFiniteSet(h) /\ \A e, f \in h : e.seq = f.seq => e = f
Numbers(h) == {f.seq : f \in h}
At(h, n) == CHOOSE e \in h : e.seq = Nth(Numbers(h), n)
TaskOf(e) == [priority |-> e.priority, item |-> e.item]

LEMMA HeapNumbers ==
  ASSUME NEW h, Heap(h)
  PROVE  /\ Numbers(h) \in SUBSET Nat /\ IsFiniteSet(Numbers(h))
         /\ Cardinality(Numbers(h)) = Cardinality(h) /\ Cardinality(h) \in Nat
<1> DEFINE f == [e \in h |-> e.seq]
<1>1. Numbers(h) \in SUBSET Nat
  BY DEF Numbers, Heap, Entry
<1>2. f \in [h -> Numbers(h)]
  BY DEF Numbers
<1>3. \A e, g \in h : f[e] = f[g] => e = g
  BY DEF Heap
<1>4. \A n \in Numbers(h) : \E e \in h : f[e] = n
  BY DEF Numbers
<1> HIDE DEF f
<1>5. f \in Bijection(h, Numbers(h))
  BY <1>2, <1>3, <1>4 DEF Bijection, Injection, Surjection, IsInjective
<1>6. ExistsBijection(h, Numbers(h)) /\ IsFiniteSet(h)
  BY <1>5 DEF ExistsBijection, Heap
<1> QED BY <1>1, <1>6, FS_Bijection, FS_CardinalityType

LEMMA AtIsThere ==
  ASSUME NEW h, Heap(h), NEW n \in 1 .. Cardinality(h)
  PROVE  At(h, n) \in h /\ At(h, n).seq = Nth(Numbers(h), n)
<1>1. Nth(Numbers(h), n) \in Numbers(h)
  BY HeapNumbers, RankOfNth
<1>2. \E e \in h : e.seq = Nth(Numbers(h), n)
  BY <1>1 DEF Numbers
<1> QED BY <1>2 DEF At

LEMMA AtIsUnique ==
  ASSUME NEW h, Heap(h), NEW n, NEW e \in h, e.seq = Nth(Numbers(h), n)
  PROVE  At(h, n) = e
<1>1. At(h, n) \in h /\ At(h, n).seq = e.seq
  BY DEF At
<1> QED BY <1>1 DEF Heap

LEMMA LineIsSequence ==
  ASSUME NEW h, Heap(h)
  PROVE  /\ Line(h) = [n \in 1 .. Cardinality(h) |-> TaskOf(At(h, n))]
         /\ Line(h) \in Seq(Task) /\ Len(Line(h)) = Cardinality(h)
         /\ \A n \in 1 .. Cardinality(h) : Line(h)[n] = TaskOf(At(h, n))
<1>1. Line(h) = [n \in 1 .. Cardinality(h) |-> TaskOf(At(h, n))]
  BY DEF Line, At, TaskOf, Numbers
<1>2. \A n \in 1 .. Cardinality(h) : TaskOf(At(h, n)) \in Task
  BY AtIsThere DEF TaskOf, Task, Heap, Entry
<1>3. Cardinality(h) \in Nat
  BY HeapNumbers
<1> QED BY <1>1, <1>2, <1>3

\* A new entry, numbered above all others, joins the end of the line.
LEMMA LineGrows ==
  ASSUME NEW h, Heap(h), NEW e \in Entry, \A f \in h : f.seq < e.seq
  PROVE  Heap(h \cup {e}) /\ Line(h \cup {e}) = Append(Line(h), TaskOf(e))
<1> DEFINE g == h \cup {e}
           N == Numbers(h)
           k == Cardinality(h)
<1>1. e \notin h /\ e.seq \in Nat /\ \A f \in h : f.seq \in Nat
  BY DEF Heap, Entry
<1>2. Heap(g)
  BY <1>1, FS_AddElement DEF Heap
<1>3. N \in SUBSET Nat /\ IsFiniteSet(N) /\ Cardinality(N) = k /\ k \in Nat
  BY HeapNumbers
<1>4. Numbers(g) = N \cup {e.seq} /\ \A i \in N : i < e.seq
  BY DEF Numbers
<1>5. /\ Nth(Numbers(g), k + 1) = e.seq
      /\ \A n \in 1 .. k : Nth(Numbers(g), n) = Nth(N, n)
  <2> HIDE DEF N, k
  <2>1. /\ Nth(N \cup {e.seq}, Cardinality(N) + 1) = e.seq
        /\ \A n \in 1 .. Cardinality(N) : Nth(N \cup {e.seq}, n) = Nth(N, n)
    BY <1>1, <1>3, <1>4, NthWithLargest
  <2> QED BY <1>3, <1>4, <2>1
<1>6. Cardinality(g) = k + 1
  BY <1>1, FS_AddElement DEF Heap
<1>7. At(g, k + 1) = e
  BY <1>2, <1>5, AtIsUnique
<1>8. ASSUME NEW n \in 1 .. k PROVE At(g, n) = At(h, n)
  <2>1. At(h, n) \in g /\ At(h, n).seq = Nth(Numbers(g), n)
    BY <1>5, AtIsThere
  <2> QED BY <1>2, <2>1, AtIsUnique
<1>9. /\ Line(g) \in Seq(Task) /\ Len(Line(g)) = k + 1
      /\ \A n \in 1 .. k + 1 : Line(g)[n] = TaskOf(At(g, n))
  BY <1>2, <1>6, LineIsSequence
<1>10. /\ Line(h) \in Seq(Task) /\ Len(Line(h)) = k
       /\ \A n \in 1 .. k : Line(h)[n] = TaskOf(At(h, n))
  BY LineIsSequence
<1> HIDE DEF g, k
<1>11. Line(g) = Append(Line(h), TaskOf(e))
  <2>1. TaskOf(e) \in Task
    BY DEF TaskOf, Task, Entry
  <2>2. Append(Line(h), TaskOf(e)) \in Seq(Task) /\ Len(Append(Line(h), TaskOf(e))) = k + 1
    BY <1>10, <2>1
  <2>3. \A n \in 1 .. k + 1 : Append(Line(h), TaskOf(e))[n] = Line(g)[n]
    BY <1>3, <1>7, <1>8, <1>9, <1>10, <2>1
  <2> QED BY <1>9, <2>2, <2>3
<1> QED BY <1>2, <1>11 DEF g

\* Whoever leaves, the others keep their order.
LEMMA LineShrinks ==
  ASSUME NEW h, Heap(h), NEW e \in h
  PROVE  LET r == Rank(Numbers(h), e.seq)
         IN  /\ r \in 1 .. Cardinality(h) /\ At(h, r) = e
             /\ Line(h \ {e}) = Queue!RemoveAt(Line(h), r)
<1> DEFINE g == h \ {e}
           N == Numbers(h)
           k == Cardinality(h)
           r == Rank(N, e.seq)
<1>1. Heap(g)
  BY FS_RemoveElement DEF Heap
<1>2. N \in SUBSET Nat /\ IsFiniteSet(N) /\ Cardinality(N) = k /\ k \in Nat /\ e.seq \in N
  BY HeapNumbers DEF Numbers
<1>3. Numbers(g) = N \ {e.seq}
  BY DEF Numbers, Heap
<1>4. Cardinality(g) = k - 1
  BY FS_RemoveElement DEF Heap
<1>5. r \in 1 .. k /\ Nth(N, r) = e.seq
  BY <1>2, RankType, NthOfRank
<1>6. At(h, r) = e
  BY <1>5, AtIsUnique
<1>7. \A n \in 1 .. k - 1 :
        Nth(Numbers(g), n) = IF n < r THEN Nth(N, n) ELSE Nth(N, n + 1)
  BY <1>2, <1>3, NthWithout
<1>8. ASSUME NEW n \in 1 .. k - 1
      PROVE  At(g, n) = IF n < r THEN At(h, n) ELSE At(h, n + 1)
  <2>1. At(g, n) \in g /\ At(g, n).seq = Nth(Numbers(g), n)
    BY <1>1, <1>4, AtIsThere
  <2>2. At(g, n) \in h /\ At(g, n).seq = IF n < r THEN Nth(N, n) ELSE Nth(N, n + 1)
    BY <1>7, <2>1
  <2> HIDE DEF g, N, r
  <2>3. CASE n < r
    BY <2>2, <2>3, AtIsUnique DEF N
  <2>4. CASE ~ (n < r)
    BY <2>2, <2>4, AtIsUnique DEF N
  <2> QED BY <2>3, <2>4
<1>9. /\ Line(g) \in Seq(Task) /\ Len(Line(g)) = k - 1
      /\ \A n \in 1 .. k - 1 : Line(g)[n] = TaskOf(At(g, n))
  BY <1>1, <1>4, LineIsSequence
<1>10. /\ Line(h) \in Seq(Task) /\ Len(Line(h)) = k
       /\ \A n \in 1 .. k : Line(h)[n] = TaskOf(At(h, n))
  BY LineIsSequence
<1> HIDE DEF g, k, r
<1>11. Line(g) = Queue!RemoveAt(Line(h), r)
  <2> DEFINE s == SubSeq(Line(h), 1, r - 1)
             t == SubSeq(Line(h), r + 1, k)
  <2>1. /\ s \in Seq(Task) /\ Len(s) = r - 1
        /\ \A n \in 1 .. r - 1 : s[n] = Line(h)[n]
    BY <1>2, <1>5, <1>10
  <2>2. /\ t \in Seq(Task) /\ Len(t) = k - r
        /\ \A n \in 1 .. k - r : t[n] = Line(h)[r + n]
    BY <1>2, <1>5, <1>10
  <2>3. Queue!RemoveAt(Line(h), r) = s \o t
    BY <1>10 DEF Queue!RemoveAt
  <2> HIDE DEF s, t
  <2>4. /\ s \o t \in Seq(Task) /\ Len(s \o t) = k - 1
        /\ \A n \in 1 .. k - 1 : (s \o t)[n] = IF n <= r - 1 THEN s[n] ELSE t[n - (r - 1)]
    <3>1. s \o t \in Seq(Task) /\ Len(s \o t) = Len(s) + Len(t)
      BY <2>1, <2>2
    <3>2. \A n \in 1 .. Len(s) + Len(t) :
            (s \o t)[n] = IF n <= Len(s) THEN s[n] ELSE t[n - Len(s)]
      BY <2>1, <2>2
    <3>3. Len(s) + Len(t) = k - 1
      BY <1>2, <1>5, <2>1, <2>2
    <3> QED BY <2>1, <3>1, <3>2, <3>3
  <2>5. ASSUME NEW n \in 1 .. k - 1 PROVE (s \o t)[n] = Line(g)[n]
    <3>1. CASE n < r
      <4>1. (s \o t)[n] = s[n] /\ n \in 1 .. k /\ n \in 1 .. r - 1
        BY <1>2, <1>5, <2>4, <3>1
      <4> QED BY <1>8, <1>9, <1>10, <2>1, <3>1, <4>1
    <3>2. CASE ~ (n < r)
      <4>1. (s \o t)[n] = t[n - (r - 1)] /\ n + 1 \in 1 .. k /\ n - (r - 1) \in 1 .. k - r
        BY <1>2, <1>5, <2>4, <3>2
      <4>2. r + (n - (r - 1)) = n + 1
        BY <1>5
      <4>3. t[n - (r - 1)] = Line(h)[n + 1]
        BY <2>2, <4>1, <4>2
      <4> QED BY <1>8, <1>9, <1>10, <3>2, <4>1, <4>3
    <3> QED BY <3>1, <3>2
  <2> QED BY <1>9, <2>3, <2>4, <2>5
<1> QED BY <1>5, <1>6, <1>11 DEF g, k, r

LEMMA HeapInv == ASSUME IInv PROVE Heap(heap) /\ Cardinality(heap) \in Nat
  BY FS_CardinalityType DEF IInv, TypeOK, Heap

LEMMA OffersJoin ==
  ASSUME IInv, NEW item \in Items, NEW priority \in Priorities, TryPush(item, priority)
  PROVE  Queue!Next
<1>1. Heap(heap) /\ Len(Line(heap)) = Cardinality(heap) /\ Cardinality(heap) \in Nat
  BY HeapInv, LineIsSequence
<1>2. CASE Cardinality(heap) >= Capacity
  <2>1. Queue!Refuse
    BY <1>1, <1>2 DEF TryPush, Queue!Refuse
  <2> QED BY <2>1 DEF Queue!Next
<1>3. CASE ~ (Cardinality(heap) >= Capacity)
  <2> DEFINE e == [priority |-> priority, seq |-> seq, item |-> item]
  <2>1. heap' = heap \cup {e} /\ result' = <<"ok">>
    BY <1>3 DEF TryPush
  <2>2. e \in Entry /\ \A f \in heap : f.seq < e.seq
    BY DEF IInv, TypeOK, Numbered, Entry
  <2>3. TaskOf(e) = [priority |-> priority, item |-> item] /\ TaskOf(e) \in Task
    BY DEF TaskOf, Task
  <2> HIDE DEF e
  <2>4. Line(heap') = Append(Line(heap), TaskOf(e))
    BY <1>1, <2>1, <2>2, LineGrows
  <2>5. Len(Line(heap)) < Capacity
    BY <1>1, <1>3
  <2>6. Queue!Accept(TaskOf(e))
    BY <2>1, <2>4, <2>5 DEF Queue!Accept
  <2> QED BY <2>3, <2>6 DEF Queue!Next
<1> QED BY <1>2, <1>3

LEMMA TakesServe == ASSUME IInv, Pop PROVE Queue!Next
<1>1. Heap(heap) /\ Len(Line(heap)) = Cardinality(heap) /\ Cardinality(heap) \in Nat
  BY HeapInv, LineIsSequence
<1>2. CASE heap = {}
  <2>1. Line(heap) = <<>>
    <3>1. Line(heap) \in Seq(Task) /\ Len(Line(heap)) = 0
      BY <1>1, <1>2, FS_EmptySet, LineIsSequence
    <3> QED BY <3>1
  <2>2. Queue!NothingToTake
    BY <1>2, <2>1 DEF Pop, Queue!NothingToTake
  <2> QED BY <2>2 DEF Queue!Next
<1>3. CASE heap # {}
  <2>1. PICK e \in heap : /\ \A f \in heap \ {e} : Above(e, f)
                          /\ heap' = heap \ {e}
                          /\ result' = <<"some", TaskOf(e)>>
    BY <1>3 DEF Pop, TaskOf
  <2> DEFINE N == Numbers(heap)
             r == Rank(N, e.seq)
  <2>2. /\ r \in 1 .. Cardinality(heap) /\ At(heap, r) = e
        /\ Line(heap') = Queue!RemoveAt(Line(heap), r)
    BY <1>1, <2>1, LineShrinks
  <2> HIDE DEF r
  <2>3. \A n \in 1 .. Cardinality(heap) :
          /\ At(heap, n) \in heap /\ At(heap, n).seq = Nth(N, n)
          /\ Line(heap)[n] = TaskOf(At(heap, n))
    BY <1>1, AtIsThere, LineIsSequence
  <2>4. Line(heap) \in Seq(Task) /\ DOMAIN Line(heap) = 1 .. Cardinality(heap)
    BY <1>1, LineIsSequence
  <2>5. Line(heap)[r] = TaskOf(e)
    BY <2>2, <2>3
  <2>6. \A f \in heap : f.priority \in Int /\ f.seq \in Int
    <3>1. heap \subseteq Entry
      BY <1>1 DEF Heap
    <3>2. \A f \in Entry : f.priority \in 0 .. 255 /\ f.seq \in Nat
      BY DEF Entry
    <3> QED BY <3>1, <3>2
  <2>7. ASSUME NEW n \in 1 .. Cardinality(heap)
        PROVE  /\ At(heap, n).priority <= e.priority
               /\ n < r => At(heap, n).priority < e.priority
    <3>1. CASE At(heap, n) = e
      <4>1. n = r
        <5>1. n = Rank(N, Nth(N, n))
          BY <1>1, HeapNumbers, RankOfNth
        <5> QED BY <2>3, <3>1, <5>1 DEF r
      <4> QED BY <2>2, <2>6, <3>1, <4>1
    <3>2. CASE At(heap, n) # e
      <4>1. Above(e, At(heap, n))
        BY <2>1, <2>3, <3>2
      <4>2. At(heap, n) \in heap
        BY <2>3
      <4>3. ASSUME n < r, At(heap, n).priority = e.priority PROVE FALSE
        <5>1. e.seq < Nth(N, n)
          BY <2>3, <4>1, <4>3, <2>6 DEF Above
        <5>2. e.seq \in N /\ Nth(N, n) \in N /\ Rank(N, Nth(N, n)) = n
          BY <1>1, HeapNumbers, RankOfNth DEF Numbers
        <5>3. r < n
          BY <1>1, <5>1, <5>2, HeapNumbers, RankGrows DEF r
        <5> QED BY <2>2, <4>3, <5>3
      <4> QED BY <2>6, <4>1, <4>2, <4>3 DEF Above
    <3> QED BY <3>1, <3>2
  <2>8. Queue!Served(r)
    <3>1. ASSUME NEW n \in 1 .. Cardinality(heap)
          PROVE  Line(heap)[n].priority = At(heap, n).priority
      <4>1. Line(heap)[n] = TaskOf(At(heap, n))
        BY <2>3
      <4> QED BY <4>1 DEF TaskOf
    <3>2. Line(heap)[r].priority = e.priority
      BY <2>5 DEF TaskOf
    <3>3. \A n \in 1 .. r - 1 : n \in 1 .. Cardinality(heap) /\ n < r
      BY <1>1, <2>2
    <3> QED BY <2>4, <2>7, <3>1, <3>2, <3>3 DEF Queue!Served
  <2>9. Queue!Take(r)
    BY <2>1, <2>2, <2>5, <2>8 DEF Queue!Take
  <2> QED BY <2>2, <2>4, <2>9 DEF Queue!Next
<1> QED BY <1>2, <1>3

\* What waits is a line in order of arrival, for any capacity: an accepted offer
\* joins its end, a refused one changes nothing, and pop takes the first of those
\* with the highest priority, although the heap itself keeps no order.
THEOREM ImplementsLine == Spec => ServesInOrder
<1>1. Init => Queue!Init
  <2> SUFFICES ASSUME Init PROVE Queue!Init
    OBVIOUS
  <2>1. Heap(heap) /\ Cardinality(heap) = 0
    BY FS_EmptySet DEF Init, Heap
  <2>2. Line(heap) \in Seq(Task) /\ Len(Line(heap)) = 0
    BY <2>1, LineIsSequence
  <2> QED BY <2>2 DEF Init, Queue!Init
<1>2. IInv /\ [Next]_vars => [Queue!Next]_<<Line(heap), result>>
  <2> SUFFICES ASSUME IInv, [Next]_vars PROVE [Queue!Next]_<<Line(heap), result>>
    OBVIOUS
  <2>1. CASE UNCHANGED vars
    BY <2>1 DEF vars
  <2> QED BY <2>1, OffersJoin, TakesServe DEF Next
<1>3. Spec => []IInv
  BY InitInv, StepInv, PTL DEF Spec
<1> QED BY <1>1, <1>2, <1>3, PTL DEF Spec, ServesInOrder, Queue!Spec
=============================================================================
