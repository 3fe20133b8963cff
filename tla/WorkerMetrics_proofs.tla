-------------------------- MODULE WorkerMetrics_proofs -------------------------
(***************************************************************************)
(* Proofs about WorkerMetrics for any samples, in any order and of any     *)
(* number, and about the queue beside it.                                  *)
(***************************************************************************)
EXTENDS WorkerMetrics, PriorityQueue_proofs

USE SamplesAssumption

\* An average of natural numbers, in parts that are natural numbers too.
Average == [value : Nat, unit : Nat \ {0}, samples : Nat]

Average0 == [value |-> 0, unit |-> 1, samples |-> 0]

Sound ==
  /\ accum \in [Kinds -> Average]
  /\ observed \in [Kinds -> SUBSET Samples]
  /\ snapshot = <<>> \/ DOMAIN snapshot \subseteq Kinds
  /\ \A k \in DOMAIN snapshot : snapshot[k] \in Average

MetricsInv == Sound /\ AveragesAmongSamples

\* Numbers in order stay so when they are multiplied by a natural number.
LEMMA Scaled ==
  ASSUME NEW a \in Nat, NEW b \in Nat, NEW u \in Nat, a <= b
  PROVE  a * u <= b * u
<1>1. (b - a) * u >= 0
  OBVIOUS
<1>2. (b - a) * u = b * u - a * u
  OBVIOUS
<1>3. a * u \in Int /\ b * u \in Int
  OBVIOUS
<1> QED BY <1>1, <1>2, <1>3

\* A tenth and nine tenths of numbers between two bounds are between them.
LEMMA Between ==
  ASSUME NEW low \in Nat, NEW high \in Nat, NEW x \in Nat, NEW u \in Nat, NEW v \in Nat,
         low <= x, x <= high, low * u <= v, v <= high * u
  PROVE  /\ low * (10 * u) <= u * x + 9 * v
         /\ u * x + 9 * v <= high * (10 * u)
<1>1. low * u <= x * u /\ x * u <= high * u
  BY Scaled
<1>2. /\ low * (10 * u) = 10 * (low * u) /\ high * (10 * u) = 10 * (high * u)
      /\ u * x = x * u
  OBVIOUS
<1>3. low * u \in Int /\ high * u \in Int /\ x * u \in Int
  OBVIOUS
<1> QED BY <1>1, <1>2, <1>3

LEMMA AveragedAmong ==
  ASSUME NEW a \in Average, NEW S \in SUBSET Samples, NEW x \in Samples, Among(a, S)
  PROVE  Averaged(a, x) \in Average /\ Among(Averaged(a, x), S \cup {x})
<1> DEFINE u == a.unit
           v == a.value
<1>1. u \in Nat \ {0} /\ v \in Nat /\ a.samples \in Nat /\ x \in Nat
  BY DEF Average
<1>2. /\ Averaged(a, x).unit = 10 * u
      /\ Averaged(a, x).samples = a.samples + 1
      /\ Averaged(a, x).value = IF a.samples = 0 THEN 10 * u * x ELSE u * x + 9 * v
  BY DEF Averaged
<1>3. Averaged(a, x) \in Average
  <2>1. 10 * u \in Nat \ {0} /\ 10 * u * x \in Nat /\ u * x + 9 * v \in Nat
    <3>1. \A m, n \in Nat : m * n \in Nat
      OBVIOUS
    <3> QED BY <1>1, <3>1
  <2> QED BY <1>1, <2>1 DEF Averaged, Average
<1>4. SUFFICES \E low, high \in S \cup {x} :
                 /\ low * (10 * u) <= Averaged(a, x).value
                 /\ Averaged(a, x).value <= high * (10 * u)
  BY <1>1, <1>2, <1>3 DEF Among
<1> HIDE DEF u, v
<1>5. CASE a.samples = 0
  <2>1. Averaged(a, x).value = x * (10 * u)
    BY <1>1, <1>2, <1>5
  <2> QED BY <1>1, <2>1
<1>6. CASE a.samples # 0
  <2>1. PICK low \in S, high \in S : low * u <= v /\ v <= high * u
    BY <1>6 DEF Among, u, v
  <2>2. low \in Nat /\ high \in Nat
    OBVIOUS
  <2> DEFINE lo == IF low <= x THEN low ELSE x
             hi == IF x <= high THEN high ELSE x
  <2>3. lo \in Nat /\ hi \in Nat /\ lo <= x /\ x <= hi /\ lo <= low /\ high <= hi
    BY <1>1, <2>2
  <2>4. lo \in S \cup {x} /\ hi \in S \cup {x}
    OBVIOUS
  <2> HIDE DEF lo, hi
  <2>5. lo * u <= low * u /\ high * u <= hi * u
    BY <1>1, <2>2, <2>3, Scaled
  <2>6. lo * u <= v /\ v <= hi * u
    <3>1. lo * u \in Int /\ low * u \in Int /\ high * u \in Int /\ hi * u \in Int
      BY <1>1, <2>2, <2>3
    <3> QED BY <1>1, <2>1, <2>5, <3>1
  <2>7. lo * (10 * u) <= u * x + 9 * v /\ u * x + 9 * v <= hi * (10 * u)
    BY <1>1, <2>3, <2>6, Between
  <2> QED BY <1>2, <1>6, <2>4, <2>7
<1> QED BY <1>5, <1>6

\* More samples make no average leave their range.
LEMMA AmongMore ==
  ASSUME NEW a, NEW S, NEW T, S \subseteq T, Among(a, S)
  PROVE  Among(a, T)
  BY DEF Among

LEMMA ObserveKeeps ==
  ASSUME MetricsInv, NEW k \in Kinds, NEW x \in Samples, Observe(k, x)
  PROVE  MetricsInv'
<1>1. /\ accum' = [accum EXCEPT ![k] = Averaged(accum[k], x)]
      /\ observed' = [observed EXCEPT ![k] = observed[k] \cup {x}]
      /\ snapshot' = snapshot
  BY DEF Observe
<1>2. accum[k] \in Average /\ observed[k] \in SUBSET Samples /\ Among(accum[k], observed[k])
  BY DEF MetricsInv, Sound, AveragesAmongSamples
<1>3. Averaged(accum[k], x) \in Average /\ Among(Averaged(accum[k], x), observed[k] \cup {x})
  BY <1>2, AveragedAmong
<1>4. Sound'
  BY <1>1, <1>3 DEF MetricsInv, Sound
<1>5. \A j \in Kinds : observed[j] \subseteq observed'[j]
  BY <1>1 DEF MetricsInv, Sound
<1>6. ASSUME NEW j \in Kinds PROVE Among(accum'[j], observed'[j])
  <2>1. CASE j = k
    <3>1. accum'[j] = Averaged(accum[k], x) /\ observed'[j] = observed[k] \cup {x}
      BY <1>1, <2>1 DEF MetricsInv, Sound
    <3> QED BY <1>3, <3>1
  <2>2. CASE j # k
    <3>1. accum'[j] = accum[j] /\ observed'[j] = observed[j]
      BY <1>1, <2>2 DEF MetricsInv, Sound
    <3> QED BY <3>1 DEF MetricsInv, AveragesAmongSamples
  <2> QED BY <2>1, <2>2
<1>7. ASSUME NEW j \in DOMAIN snapshot PROVE Among(snapshot[j], observed'[j])
  <2>1. j \in Kinds
    BY DEF MetricsInv, Sound
  <2> QED BY <1>5, <2>1, AmongMore DEF MetricsInv, AveragesAmongSamples
<1> QED BY <1>1, <1>4, <1>6, <1>7 DEF MetricsInv, AveragesAmongSamples

LEMMA SnapshotKeeps == ASSUME MetricsInv, SnapshotWait \/ SnapshotRun PROVE MetricsInv'
<1>1. /\ accum' = accum /\ observed' = observed
      /\ DOMAIN snapshot' \subseteq Kinds
      /\ \A k \in DOMAIN snapshot' : \/ snapshot'[k] = accum[k]
                                     \/ k \in DOMAIN snapshot /\ snapshot'[k] = snapshot[k]
  <2>1. CASE SnapshotWait
    <3>1. accum' = accum /\ observed' = observed /\ snapshot' = [k \in {"wait"} |-> accum[k]]
      BY <2>1 DEF SnapshotWait
    <3>2. DOMAIN snapshot' = {"wait"} /\ snapshot'["wait"] = accum["wait"]
      BY <3>1
    <3>3. DOMAIN snapshot' \subseteq Kinds
      BY <3>2 DEF Kinds
    <3>4. \A k \in DOMAIN snapshot' : snapshot'[k] = accum[k]
      BY <3>2
    <3> QED BY <3>1, <3>3, <3>4
  <2>2. CASE SnapshotRun
    <3>1. /\ accum' = accum /\ observed' = observed /\ DOMAIN snapshot = {"wait"}
          /\ snapshot' = [k \in Kinds |-> IF k = "run" THEN accum[k] ELSE snapshot[k]]
      BY <2>2 DEF SnapshotRun
    <3>2. /\ DOMAIN snapshot' = Kinds
          /\ \A k \in Kinds : snapshot'[k] = IF k = "run" THEN accum[k] ELSE snapshot[k]
      BY <3>1
    <3>3. \A k \in Kinds : k = "run" \/ k \in DOMAIN snapshot
      BY <3>1 DEF Kinds
    <3>4. ASSUME NEW k \in Kinds
          PROVE  \/ snapshot'[k] = accum[k]
                 \/ k \in DOMAIN snapshot /\ snapshot'[k] = snapshot[k]
      <4>1. CASE k = "run"
        BY <3>2, <4>1
      <4>2. CASE k # "run"
        BY <3>2, <3>3, <4>2
      <4> QED BY <4>1, <4>2
    <3> QED BY <3>1, <3>2, <3>4
  <2> QED BY <2>1, <2>2
<1>2. Sound'
  BY <1>1 DEF MetricsInv, Sound
<1>3. AveragesAmongSamples'
  BY <1>1 DEF MetricsInv, AveragesAmongSamples
<1> QED BY <1>2, <1>3 DEF MetricsInv

LEMMA MetricsInitInv == MetricsInit => MetricsInv
<1> SUFFICES ASSUME MetricsInit PROVE MetricsInv
  OBVIOUS
<1>1. Sound
  BY DEF MetricsInit, Sound, Average
<1>2. AveragesAmongSamples
  BY DEF MetricsInit, AveragesAmongSamples, Among
<1> QED BY <1>1, <1>2 DEF MetricsInv

\* However many samples arrive in whatever order, and whatever is observed between
\* the two reads of a snapshot, an average lies among the samples of its kind.
THEOREM AveragesStayAmongSamples == WorkersSpec => []AveragesAmongSamples
<1>1. WorkersInit => MetricsInv
  BY MetricsInitInv DEF WorkersInit
<1>2. MetricsInv /\ [WorkersNext]_<<vars, metrics>> => MetricsInv'
  <2> SUFFICES ASSUME MetricsInv, [WorkersNext]_<<vars, metrics>> PROVE MetricsInv'
    OBVIOUS
  <2>1. CASE UNCHANGED metrics
    BY <2>1 DEF metrics, MetricsInv, Sound, AveragesAmongSamples
  <2> QED BY <2>1, ObserveKeeps, SnapshotKeeps DEF WorkersNext
<1>3. MetricsInv => AveragesAmongSamples
  BY DEF MetricsInv
<1> QED BY <1>1, <1>2, <1>3, PTL DEF WorkersSpec

\* The averages and the queue do not touch each other: with workers that observe
\* and snapshots that are taken, the queue still serves like a line.
THEOREM QueueIsUndisturbed == WorkersSpec => []TypeOK /\ ServesInOrder
<1>1. WorkersInit => Init
  BY DEF WorkersInit
<1>2. [WorkersNext]_<<vars, metrics>> => [Next]_vars
  BY DEF WorkersNext
<1>3. WorkersSpec => Spec
  BY <1>1, <1>2, PTL DEF WorkersSpec, Spec
<1> QED BY <1>3, TypeCorrect, ImplementsLine, PTL
=============================================================================
