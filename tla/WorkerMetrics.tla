----------------------------- MODULE WorkerMetrics -----------------------------
(***************************************************************************)
(* The averages of crates/workers/src/metrics.rs, beside the queue whose   *)
(* waits and runs they measure: each sits behind a mutex of its own, and   *)
(* snapshot() takes one after the other while workers observe.  Numbers    *)
(* are exact; floating-point rounding is left out.                         *)
(***************************************************************************)
EXTENDS PriorityQueue

CONSTANTS Samples,     \* milliseconds a worker may observe
          MaxSamples   \* bound: samples of each kind (the counter has 64 bits)

Kinds == {"wait", "run"}

ASSUME SamplesAssumption == Samples \subseteq Nat /\ MaxSamples \in Nat

VARIABLES
  accum,      \* accum[k]: wait_ms or run_ms; the average is value / unit
  snapshot,   \* averages a snapshot read so far, <<>> between snapshots
  observed    \* history: observed[k] are the samples of the kind

metrics == <<accum, snapshot, observed>>

MetricsInit == /\ accum = [k \in Kinds |-> [value |-> 0, unit |-> 1, samples |-> 0]]
               /\ snapshot = <<>>
               /\ observed = [k \in Kinds |-> {}]

\* Seeded bug: the first sample is averaged with the initial 0.
AveragedAlways(a, x) ==
  [value |-> a.unit * x + 9 * a.value, unit |-> 10 * a.unit, samples |-> a.samples + 1]

\* AvgAccum::observe: a tenth of the sample and nine tenths of the average.
Averaged(a, x) ==
  [value |-> IF a.samples = 0 THEN 10 * a.unit * x ELSE a.unit * x + 9 * a.value,
   unit |-> 10 * a.unit, samples |-> a.samples + 1]

\* observe_wait, observe_run
Observe(k, x) ==
  /\ accum[k].samples < MaxSamples
  /\ accum' = [accum EXCEPT ![k] = Averaged(@, x)]
  /\ observed' = [observed EXCEPT ![k] = @ \cup {x}]
  /\ UNCHANGED snapshot

\* The two locked reads of snapshot(), the wait first.
SnapshotWait ==
  /\ DOMAIN snapshot # {"wait"}
  /\ snapshot' = [k \in {"wait"} |-> accum[k]]
  /\ UNCHANGED <<accum, observed>>

SnapshotRun ==
  /\ DOMAIN snapshot = {"wait"}
  /\ snapshot' = [k \in Kinds |-> IF k = "run" THEN accum[k] ELSE snapshot[k]]
  /\ UNCHANGED <<accum, observed>>

WorkersInit == Init /\ MetricsInit

WorkersNext ==
  \/ Next /\ UNCHANGED metrics
  \/ /\ SnapshotWait \/ SnapshotRun \/ \E k \in Kinds, x \in Samples : Observe(k, x)
     /\ UNCHANGED vars

WorkersSpec == WorkersInit /\ [][WorkersNext]_<<vars, metrics>>
-----------------------------------------------------------------------------
(* Properties *)

\* An average lies among the samples of its kind, and so does the one a snapshot
\* publishes, whatever is observed between its reads: never dragged down by the
\* initial zero, never that of the other kind, 0 only before the first sample.
Among(a, S) ==
  IF a.samples = 0 THEN a.value = 0
  ELSE \E low, high \in S : low * a.unit <= a.value /\ a.value <= high * a.unit
AveragesAmongSamples ==
  /\ \A k \in Kinds : Among(accum[k], observed[k])
  /\ \A k \in DOMAIN snapshot : Among(snapshot[k], observed[k])
=============================================================================
