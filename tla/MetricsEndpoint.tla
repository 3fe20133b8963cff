---------------------------- MODULE MetricsEndpoint ----------------------------
(***************************************************************************)
(* GET /metrics of crates/api/src/lib.rs, beside the pipeline that records *)
(* into the ReplayBuffer: the handler takes the buffer's lock twice, then  *)
(* asks the RPC pool for the state of its endpoints, which it passes on    *)
(* and which is left out.  Handlers only read, so one of them is enough.   *)
(***************************************************************************)
EXTENDS ReplayBuffer

CONSTANT None         \* no summary

VARIABLES
  observ,     \* AppState.observ is Some: fixed when the server starts
  handler,    \* "idle", "asked", "summed", "counted", "answered"
  summary,    \* what summary() returned to the handler, None without a buffer
  recorded,   \* "events_recorded" of its answer
  since       \* history: events recorded before it was asked

request == <<handler, summary, recorded, since>>
vars == <<buffer, observ, request>>

Start == /\ Init
         /\ observ \in BOOLEAN
         /\ handler = "idle" /\ summary = None /\ recorded = 0 /\ since = 0

-----------------------------------------------------------------------------

Ask ==
  /\ handler \in {"idle", "answered"}
  /\ handler' = "asked" /\ since' = Len(log)
  /\ UNCHANGED <<buffer, observ, summary, recorded>>

\* Seeded bug: without a buffer the request is refused.
SummariseRefuses ==
  /\ handler = "asked"
  /\ IF observ THEN handler' = "summed" /\ summary' = Summarised(events)
               ELSE handler' = "idle" /\ UNCHANGED summary
  /\ UNCHANGED <<buffer, observ, recorded, since>>

\* buf.summary(), or an unavailable block.
Summarise ==
  /\ handler = "asked"
  /\ IF observ THEN handler' = "summed" /\ summary' = Summarised(events)
               ELSE handler' = "counted" /\ summary' = None
  /\ UNCHANGED <<buffer, observ, recorded, since>>

\* buf.len()
CountRecorded ==
  /\ handler = "summed"
  /\ handler' = "counted" /\ recorded' = Len(events)
  /\ UNCHANGED <<buffer, observ, summary, since>>

\* pool.status() or an unavailable block, and the answer is complete.
Answer ==
  /\ handler = "counted"
  /\ handler' = "answered"
  /\ UNCHANGED <<buffer, observ, summary, recorded, since>>

Handle == Summarise \/ CountRecorded \/ Answer

Recording(event) == Record(event) /\ UNCHANGED <<observ, request>>

Step == Ask \/ Handle \/ \E event \in Events : Recording(event)

ServerSpec == Start /\ [][Step]_vars /\ WF_vars(Handle)
-----------------------------------------------------------------------------
(* Properties *)

Summed == handler = "answered" /\ summary # None

\* An answer adds up although its two reads of the buffer are taken at different
\* moments: no more events are classified than counted, no more counted than
\* recorded, no more recorded than fit (lib.rs, 95-108).
AnswerAddsUp ==
  Summed =>
    /\ summary.sim_passed + summary.sim_failed + summary.success + summary.reverted
         + summary.gas_rejected <= summary.total
    /\ success_rate(summary)[1] <= success_rate(summary)[2]
    /\ summary.total <= recorded
    /\ recorded <= capacity

\* The numbers of an answer mix at most two moments of the request, in this order:
\* the summary is of what the buffer held after n events, and "events_recorded" is
\* how many it held after m, n <= m (lib.rs, 95-97; buffer.rs, 86-119).  A sum over
\* what was held is the running total over the log after n events less that before
\* those held.
HeldAfter(n) == Newest(1 .. n, capacity)
RunningTotal(value) ==
  LET sum[n \in 0 .. Len(log)] == IF n = 0 THEN 0 ELSE sum[n - 1] + value[log[n]]
  IN  sum
SumsUp(n) ==
  LET held == HeldAfter(n)
      before == n - Cardinality(held)
      With(outcome) == Cardinality({i \in held : log[i].outcome = outcome})
      profit == RunningTotal([e \in Events |-> IF e.outcome = "Success" THEN e.profit ELSE 0])
      latency == RunningTotal([e \in Events |-> e.latency_ms])
  IN  /\ summary.total = Cardinality(held)
      /\ summary.sim_passed = With("SimPassed") /\ summary.sim_failed = With("SimFailed")
      /\ summary.success = With("Success") /\ summary.reverted = With("Reverted")
      /\ summary.gas_rejected = With("GateRejected")
      /\ summary.realized = profit[n] - profit[before]
      /\ held # {} => summary.mean_latency_ms =
           <<latency[n] - latency[before], Cardinality(held)>>
      /\ held = {} => success_rate(summary)[1] = 0 /\ summary.mean_latency_ms[1] = 0
AnswerOfItsMoments ==
  Summed => \E n, m \in since .. Len(log) :
    n <= m /\ SumsUp(n) /\ recorded = Cardinality(HeldAfter(m))

\* "/metrics returns a partial block during early boot rather than refusing the
\* request" (lib.rs, 28-29): every request is answered, with or without a buffer,
\* however fast the pipeline records.
EveryRequestAnswered == handler = "asked" ~> handler = "answered"
=============================================================================
