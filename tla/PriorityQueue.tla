----------------------------- MODULE PriorityQueue -----------------------------
(***************************************************************************)
(* The bounded priority queue of crates/workers/src/priority_queue.rs: a   *)
(* heap of entries numbered by a counter, behind one mutex.  Each call     *)
(* holds the lock from end to end, so each is one step; the tasks that     *)
(* call it are the environment.  The heap itself is the standard           *)
(* library's: pop removes an entry that Ord puts above all others.         *)
(***************************************************************************)
EXTENDS Integers, FiniteSets, Ordering

CONSTANTS Items,        \* what is queued
          Priorities,   \* priorities in use, of 0 .. 255
          Capacity,     \* argument of PriorityQueue::new
          MaxSeq        \* bound: entries ever accepted (the counter has 64 bits)

ASSUME ConstantsAssumption ==
  /\ Priorities \subseteq 0 .. 255
  /\ Capacity \in Nat /\ MaxSeq \in Nat

VARIABLES heap,      \* inner: the entries
          seq,       \* seq
          result     \* what the last call returned

vars == <<heap, seq, result>>

Entry == [priority : Priorities, seq : Nat, item : Items]

Init == heap = {} /\ seq = 0 /\ result = <<"none">>

\* Seeded bug: ties are broken by seq.cmp(&other.seq).
AboveLifo(e, f) ==
  e.priority > f.priority \/ (e.priority = f.priority /\ e.seq > f.seq)

\* Ord::cmp is Greater: higher priority, or earlier with the same one.
Above(e, f) ==
  e.priority > f.priority \/ (e.priority = f.priority /\ e.seq < f.seq)

\* Seeded bug: entries are numbered by the length of the queue.
TryPushByLength(item, priority) ==
  /\ seq < MaxSeq
  /\ IF Cardinality(heap) >= Capacity
       THEN result' = <<"full">> /\ UNCHANGED <<heap, seq>>
       ELSE /\ heap' = heap \cup {[priority |-> priority, seq |-> Cardinality(heap), item |-> item]}
            /\ seq' = seq + 1
            /\ result' = <<"ok">>

TryPush(item, priority) ==
  /\ seq < MaxSeq
  /\ IF Cardinality(heap) >= Capacity
       THEN result' = <<"full">> /\ UNCHANGED <<heap, seq>>
       ELSE /\ heap' = heap \cup {[priority |-> priority, seq |-> seq, item |-> item]}
            /\ seq' = seq + 1
            /\ result' = <<"ok">>

Pop ==
  /\ IF heap = {}
       THEN result' = <<"none">> /\ UNCHANGED heap
       ELSE \E e \in heap : /\ \A f \in heap \ {e} : Above(e, f)
                            /\ heap' = heap \ {e}
                            /\ result' = <<"some", [priority |-> e.priority, item |-> e.item]>>
  /\ UNCHANGED seq

Next == Pop \/ \E item \in Items, priority \in Priorities : TryPush(item, priority)

Spec == Init /\ [][Next]_vars
-----------------------------------------------------------------------------
(* Properties *)

Task == [priority : Priorities, item : Items]

\* Entries are well formed, at most Capacity of them ("Returns Err when at
\* capacity", try_push), and no two of them have the same number.
TypeOK ==
  /\ heap \subseteq Entry
  /\ seq \in Nat
  /\ result \in {<<"none">>, <<"ok">>, <<"full">>} \/ \E t \in Task : result = <<"some", t>>
  /\ IsFiniteSet(heap) /\ Cardinality(heap) <= Capacity
  /\ \A e, f \in heap : e.seq = f.seq => e = f

\* What waits in a heap, in the order of the entries' numbers.
Line(h) ==
  [n \in 1 .. Cardinality(h) |->
     LET e == CHOOSE e \in h : e.seq = Nth({f.seq : f \in h}, n)
     IN  [priority |-> e.priority, item |-> e.item]]

\* "Ordering: priority DESC, insertion order ASC within the same priority"
\* (priority_queue.rs, header): calls return what a line of waiting tasks would
\* return, however accepted and refused offers and takes follow each other.
Queue == INSTANCE StableQueue WITH Tasks <- Task, line <- Line(heap), outcome <- result
ServesInOrder == Queue!Spec
=============================================================================
