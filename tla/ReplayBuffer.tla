----------------------------- MODULE ReplayBuffer -----------------------------
(***************************************************************************)
(* The ring buffer of execution events (crates/observability/src/          *)
(* buffer.rs), its queries and its summary.  Each call holds the lock from *)
(* end to end.  A floating-point quotient is a pair <<dividend, divisor>>; *)
(* its rounding is left out.                                               *)
(***************************************************************************)
EXTENDS Integers, Sequences, Ordering

CONSTANTS Requested,    \* arguments ReplayBuffer::new may be given
          Events,       \* what the pipeline may record
          Lower,        \* Lower[s]: borrower string s in lower case
          Unset,        \* a missing borrower (None)
          MaxRecorded   \* bound: events ever recorded

Outcomes == {"Pending", "SimPassed", "SimFailed", "GateRejected", "Broadcast",
             "Success", "Reverted", "Error"}
Spellings == DOMAIN Lower
Event == [outcome : Outcomes, borrower : Spellings \cup {Unset}, profit : Int,
          latency_ms : Nat]

ASSUME ConstantsAssumption ==
  /\ Requested \subseteq Nat /\ MaxRecorded \in Nat
  /\ Events \subseteq Event
  /\ Unset \notin Spellings
  /\ \A s \in Spellings : Lower[s] \in Spellings /\ Lower[Lower[s]] = Lower[s]

VARIABLES capacity,   \* the field, fixed by new
          events,     \* the deque, oldest first
          log         \* history: everything recorded so far

buffer == <<capacity, events, log>>

\* What one pass over the deque adds up.
Total(w) ==
  LET sum[n \in 0 .. Len(w)] == IF n = 0 THEN 0 ELSE sum[n - 1] + w[n]
  IN  sum[Len(w)]

Count(s, outcome) == Total([n \in 1 .. Len(s) |-> IF s[n].outcome = outcome THEN 1 ELSE 0])

Quotient(a, total) == IF total = 0 THEN <<0, 1>> ELSE <<a, total>>

\* Seeded bug: the profit of every event counts.
RealizedOfAll(s) == Total([n \in 1 .. Len(s) |-> s[n].profit])

\* Only successes add to the realized profit; a missing profit is a 0 here.
Realized(s) ==
  Total([n \in 1 .. Len(s) |-> IF s[n].outcome = "Success" THEN s[n].profit ELSE 0])

Latency(s) == Total([n \in 1 .. Len(s) |-> s[n].latency_ms])

\* The summary; its success_rate is computed from it on demand (summary.rs).
Summarised(s) ==
  [total |-> Len(s), realized |-> Realized(s),
   sim_passed |-> Count(s, "SimPassed"), sim_failed |-> Count(s, "SimFailed"),
   success |-> Count(s, "Success"), reverted |-> Count(s, "Reverted"),
   gas_rejected |-> Count(s, "GateRejected"),
   mean_latency_ms |-> Quotient(Latency(s), Len(s))]

success_rate(summary) == Quotient(summary.success, summary.total)

\* "Zero capacity is normalised to 1."
Init == /\ \E r \in Requested : capacity = IF r = 0 THEN 1 ELSE r
        /\ events = <<>> /\ log = <<>>

-----------------------------------------------------------------------------
(* Recording *)

\* Seeded bugs: the deque grows to one more than its capacity; it is emptied
\* when it is full.
RecordOver(event) ==
  /\ Len(log) < MaxRecorded
  /\ events' = IF Len(events) > capacity THEN Append(Tail(events), event)
                                         ELSE Append(events, event)
  /\ log' = Append(log, event)
  /\ UNCHANGED capacity

RecordClears(event) ==
  /\ Len(log) < MaxRecorded
  /\ events' = IF Len(events) = capacity THEN <<event>> ELSE Append(events, event)
  /\ log' = Append(log, event)
  /\ UNCHANGED capacity

\* record: the oldest event makes room when the deque is full.
Record(event) ==
  /\ Len(log) < MaxRecorded
  /\ events' = IF Len(events) = capacity THEN Append(Tail(events), event)
                                         ELSE Append(events, event)
  /\ log' = Append(log, event)
  /\ UNCHANGED capacity

-----------------------------------------------------------------------------
(* Queries, each under the lock *)

LastN(s, n) == IF Len(s) <= n THEN s ELSE SubSeq(s, Len(s) - n + 1, Len(s))

\* Seeded bug: without rev() the oldest hits are taken, not the newest.
HitsOldest(s, wanted, limit) ==
  LET hits[n \in 0 .. Len(s)] ==
        IF n = 0 THEN <<>>
        ELSE LET older == hits[n - 1]
             IN  IF s[n] \in wanted /\ Len(older) < limit THEN Append(older, s[n]) ELSE older
  IN  hits[Len(s)]

\* rev, filter, take, reverse: hits[n] are those among the n newest events, in
\* chronological order; wanted is the set of the events that match.
Hits(s, wanted, limit) ==
  LET hits[n \in 0 .. Len(s)] ==
        IF n = 0 THEN <<>>
        ELSE LET e == s[Len(s) - n + 1]
                 newer == hits[n - 1]
             IN  IF e \in wanted /\ Len(newer) < limit THEN <<e>> \o newer ELSE newer
  IN  hits[Len(s)]

ByOutcome(s, outcome, limit) == Hits(s, {e \in Events : e.outcome = outcome}, limit)

\* Case-insensitive; an event without a borrower matches nobody.
ByBorrower(s, borrower, limit) ==
  Hits(s, {e \in Events : e.borrower # Unset /\ Lower[e.borrower] = Lower[borrower]}, limit)

Next == \E event \in Events : Record(event)

Spec == Init /\ [][Next]_buffer
-----------------------------------------------------------------------------
(* Properties *)

\* The deque and the log hold events, and the deque never outgrows its capacity.
TypeOK ==
  /\ capacity \in Nat \ {0}
  /\ events \in Seq(Events) /\ Len(events) <= capacity
  /\ log \in Seq(Events)

\* The events at positions I of the log, in the order they were recorded.
Recorded(I) == [n \in 1 .. Cardinality(I) |-> log[Nth(I, n)]]
Window == Newest(DOMAIN log, capacity)

\* "Last n events in chronological order", "most-recent events matching ..., up
\* to limit. Output is chronological." (buffer.rs, 43-84): every query returns
\* the newest matching events among the last capacity ones ever recorded.
QueriesExact ==
  \A n \in 0 .. capacity + 1 :
    /\ LastN(events, n) = Recorded(Newest(Window, n))
    /\ \A o \in Outcomes :
         ByOutcome(events, o, n) = Recorded(Newest({i \in Window : log[i].outcome = o}, n))
    /\ \A b \in Spellings :
         ByBorrower(events, b, n) =
           Recorded(Newest({i \in Window : /\ log[i].borrower # Unset
                                           /\ Lower[log[i].borrower] = Lower[b]}, n))
=============================================================================
